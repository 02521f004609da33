-------------------------- MODULE PropertyRegistry --------------------------
(***************************************************************************)
(* Property records and their TD numbers: save_property (create, edit,     *)
(* authorize a duplicate TD), soft_delete_property and restore_property of *)
(* backend/services/property_service.py, undo_last_action of               *)
(* history_service.py, the MariaDB named lock that serializes the saves of *)
(* one TD, and the pool its connection comes from.                         *)
(*                                                                         *)
(* Each request is one transaction on the snapshot fixed when its user was *)
(* looked up.  Duplicate checks and version checks read that snapshot, on  *)
(* both sides of GET_LOCK.  Every operation appends an audit event before  *)
(* it commits, so it commits only if its snapshot has the newest one       *)
(* (AuditChain).  "log" has one event per commit: the events that a save   *)
(* adds for the markers of other accounts cannot be undone and are left    *)
(* out.                                                                    *)
(*                                                                         *)
(* A named lock belongs to a connection and may be taken several times by  *)
(* it.  commit and rollback give the session's connection back to the      *)
(* pool; RELEASE_LOCK, the next statement, runs on the connection the pool *)
(* then hands out, the one that has been idle longest (QueuePool is FIFO). *)
(*                                                                         *)
(* Abstractions.  A row is its TD, version, liveness and verified marker;  *)
(* the other columns ride along with the version.  The approval fields of  *)
(* an authorized duplicate are one flag.  Payment-only saves are           *)
(* PaymentLedger's postings.                                               *)
(***************************************************************************)
EXTENDS Integers, Sequences, FiniteSets

CONSTANTS
    Requests, NoReq,   \* sessions; no session
    Users,             \* their users
    Props, NoRow,      \* property ids; no row under an id
    TDs, NoTD,         \* TD numbers; no TD
    Conns, NoConn,     \* pooled database connections; none
    DuplicatesOn,      \* MTO_ENABLE_VERIFIED_DUPLICATE_TD is set
    Existing,          \* bound: properties registered before
    MaxHead,           \* bound: audited commits; no form is opened after the last
    MaxDepth           \* bound: times one connection takes one lock

(* A row of the properties table.                                          *)
Row == [td : TDs, ver : Nat \ {0}, live : BOOLEAN, verified : BOOLEAN]

ASSUME RegistryAssumption ==
    /\ NoReq \notin Requests /\ NoTD \notin TDs /\ NoConn \notin Conns
    /\ NoRow \notin Row
    /\ IsFiniteSet(Conns) /\ Conns # {}
    /\ DuplicatesOn \in BOOLEAN
    /\ Existing \in Nat /\ MaxHead \in Nat /\ MaxDepth \in Nat \ {0}

VARIABLES
    rows,     \* committed properties
    log,      \* audit events of the commits, oldest first
    auditor,  \* who holds the row lock on the audit chain head
    pending,  \* the event it has appended
    user,     \* whose session each is
    named,    \* connection that holds each TD's named lock
    depth,    \* how often it took it
    pool,     \* idle connections, longest idle first
    pc,
    conn,     \* the session's connection
    view,     \* the properties as the session sees them
    seen,     \* how many events its snapshot has
    form,     \* the property it edits and the version its form displays;
              \* history: how many events there were then
    want,     \* the TD it saves, once it has called GET_LOCK
    touched   \* rows it wrote

audit == <<log, auditor, pending>>
lockVars == <<named, depth, pool>>
session == <<user, conn, view, seen, form, want, touched>>
vars == <<rows, audit, lockVars, pc, session>>

(* live: was the property live before; undoes: the event it compensates.   *)
Event == [user : Users, prop : Props, live : BOOLEAN, undoes : Nat,
          kind : {"create", "update", "authorize", "delete", "restore", "undo"}]

NoEvent == [undoes |-> 0]
NoForm == [ver |-> 0]
NoRows == [p \in Props |-> NoRow]

(* What was registered before, each property on a TD of its own.           *)
Registered ==
    {f \in [Props -> {NoRow} \cup [td : TDs, ver : {1}, live : {TRUE}, verified : {FALSE}]] :
        /\ Cardinality({p \in Props : f[p] # NoRow}) = Existing
        /\ \A p, q \in Props : f[p] # NoRow /\ f[p] = f[q] => p = q}

Init ==
    /\ rows \in Registered
    /\ log = <<>>
    /\ auditor = NoReq
    /\ pending = NoEvent
    /\ user \in [Requests -> Users]
    /\ named = [t \in TDs |-> NoConn]
    /\ depth = [t \in TDs |-> 0]
    /\ pool \in {s \in [1 .. Cardinality(Conns) -> Conns] :
                    \A i, j \in DOMAIN s : s[i] = s[j] => i = j}
    /\ pc = [r \in Requests |-> "idle"]
    /\ conn = [r \in Requests |-> NoConn]
    /\ view = [r \in Requests |-> NoRows]
    /\ seen = [r \in Requests |-> 0]
    /\ form = [r \in Requests |-> NoForm]
    /\ want = [r \in Requests |-> NoTD]
    /\ touched = [r \in Requests |-> {}]

-----------------------------------------------------------------------------
(* A user opens the form of p, or an empty form (version 0), whose         *)
(* property will get an unused id of its own.  The request is sent any     *)
(* time later.                                                             *)
Creates(r, p) == form[r] # NoForm /\ form[r].prop = p /\ form[r].ver = 0

Open(r, p) ==
    /\ pc[r] = "idle"
    /\ Len(log) < MaxHead
    /\ rows[p] = NoRow => \A q \in Requests : ~Creates(q, p)
    /\ pc' = [pc EXCEPT ![r] = "form"]
    /\ form' = [form EXCEPT ![r] =
                   [prop |-> p, ver |-> IF rows[p] = NoRow THEN 0 ELSE rows[p].ver,
                    at |-> Len(log)]]
    /\ UNCHANGED <<rows, audit, lockVars, user, conn, view, seen, want, touched>>

(* The request arrives: a connection is checked out, the user is looked up *)
(* and the snapshot is fixed.                                              *)
Begin(r) ==
    /\ pc[r] = "form"
    /\ pool # <<>>
    /\ conn' = [conn EXCEPT ![r] = Head(pool)]
    /\ pool' = Tail(pool)
    /\ view' = [view EXCEPT ![r] = rows]
    /\ seen' = [seen EXCEPT ![r] = Len(log)]
    /\ pc' = [pc EXCEPT ![r] = "open"]
    /\ UNCHANGED <<rows, audit, named, depth, user, form, want, touched>>

(* Mutant: no conflict detection.                                          *)
FormCurrentAlways(r) == TRUE

(* Conflict detection: the row must not be newer than the form.            *)
FormCurrent(r) ==
    form[r].ver # 0 => view[r][form[r].prop].ver <= form[r].ver

(* _acquire_td_write_lock: GET_LOCK on the TD about to be written ...      *)
GetLock(r, t) ==
    /\ pc[r] = "open"
    /\ FormCurrent(r)
    /\ named[t] \in {NoConn, conn[r]}
    /\ depth[t] < MaxDepth
    /\ named' = [named EXCEPT ![t] = conn[r]]
    /\ depth' = [depth EXCEPT ![t] = @ + 1]
    /\ want' = [want EXCEPT ![r] = t]
    /\ pc' = [pc EXCEPT ![r] = "locked"]
    /\ UNCHANGED <<rows, audit, pool, user, conn, view, seen, form, touched>>

(* The session is closed.                                                  *)
Forget(r) ==
    /\ conn' = [conn EXCEPT ![r] = NoConn]
    /\ view' = [view EXCEPT ![r] = NoRows]
    /\ seen' = [seen EXCEPT ![r] = 0]
    /\ form' = [form EXCEPT ![r] = NoForm]
    /\ touched' = [touched EXCEPT ![r] = {}]

(* ... which times out after ten seconds: 503, "Another user is saving     *)
(* this TD".  The transaction is rolled back; there is no lock to release. *)
GetLockTimesOut(r, t) ==
    /\ pc[r] = "open"
    /\ FormCurrent(r)
    /\ named[t] \notin {NoConn, conn[r]}
    /\ pool' = Append(pool, conn[r])
    /\ pc' = [pc EXCEPT ![r] = "idle"]
    /\ Forget(r)
    /\ UNCHANGED <<rows, audit, named, depth, user, want>>

(* _active_duplicate_matches: live rows with this TD, in the session's     *)
(* view.                                                                   *)
Active(v, t) == {q \in Props : v[q] # NoRow /\ v[q].live /\ v[q].td = t}

(* The saved row and its group already carry the marker.                   *)
UnchangedVerifiedGroup(v, p, t, dups) ==
    /\ v[p] # NoRow /\ v[p].td = t /\ v[p].verified
    /\ \A q \in dups : v[q].verified

Authorizing(v, p, t) ==
    LET dups == Active(v, t) \ {p}
    IN  dups # {} /\ ~UnchangedVerifiedGroup(v, p, t, dups)

(* A duplicate needs the administrator's approval and the feature; an      *)
(* approval without a duplicate is refused.                                *)
Allowed(v, p, t, approved) ==
    /\ Authorizing(v, p, t) => approved /\ DuplicatesOn
    /\ approved => Active(v, t) \ {p} # {}

OldTD(v, p) == IF v[p] = NoRow THEN NoTD ELSE v[p].td

(* The row under p after the save, and the marker on the rest of its       *)
(* group.                                                                  *)
Marked(v, p, t) ==
    LET dups == Active(v, t) \ {p}
        keeps == dups # {} \/ OldTD(v, p) = t
        mark == Authorizing(v, p, t) \/ (keeps /\ v[p] # NoRow /\ v[p].verified)
        new == [td |-> t, verified |-> mark,
                ver |-> IF v[p] = NoRow THEN 1 ELSE v[p].ver + 1,
                live |-> v[p] = NoRow \/ v[p].live]
    IN  [q \in Props |->
            IF q = p THEN new
            ELSE IF q \in dups /\ Authorizing(v, p, t)
                 THEN [v[q] EXCEPT !.verified = TRUE]
                 ELSE v[q]]

(* An edit that moves the property away from a TD clears the marker of the *)
(* one account left there.                                                 *)
LeftAlone(w, v, p) ==
    LET group == Active(w, OldTD(v, p))
    IN  {q \in group : OldTD(v, p) # w[p].td /\ group = {q} /\ w[q].verified}

Saved(v, p, t) ==
    LET w == Marked(v, p, t)
    IN  [q \in Props |-> IF q \in LeftAlone(w, v, p)
                         THEN [w[q] EXCEPT !.verified = FALSE] ELSE w[q]]

(* Mutant: no comparison of the chain head with the latest event.          *)
AuditedAlways(r) == auditor = NoReq /\ auditor' = r

(* append_audit_event: the row lock on the chain head, and the comparison. *)
Audited(r) ==
    /\ auditor = NoReq
    /\ seen[r] = Len(log)
    /\ auditor' = r

(* The session's rows become w; the event of kind k on p, which compensates*)
(* event e, is appended.                                                   *)
Stage(r, w, k, p, e) ==
    /\ Audited(r)
    /\ pending' = [user |-> user[r], prop |-> p, kind |-> k, undoes |-> e,
                   live |-> view[r][p] # NoRow /\ view[r][p].live]
    /\ view' = [view EXCEPT ![r] = w]
    /\ touched' = [touched EXCEPT ![r] = {q \in Props : w[q] # view[r][q]}]
    /\ pc' = [pc EXCEPT ![r] = "staged"]
    /\ UNCHANGED <<rows, log, lockVars, user, conn, seen, form, want>>

SaveKind(v, p, t) ==
    IF Authorizing(v, p, t) THEN "authorize"
    ELSE IF v[p] = NoRow THEN "create" ELSE "update"

(* The rest of save_property, up to its commit.                            *)
Save(r, approved) ==
    LET p == form[r].prop
    IN  /\ pc[r] = "locked"
        /\ Allowed(view[r], p, want[r], approved)
        /\ Stage(r, Saved(view[r], p, want[r]), SaveKind(view[r], p, want[r]), p, 0)

(* soft_delete_property and restore_property set and clear deleted_at, and *)
(* nothing else.                                                           *)
SoftDelete(r) ==
    LET p == form[r].prop
    IN  /\ pc[r] = "open"
        /\ view[r][p] # NoRow
        /\ Stage(r, [view[r] EXCEPT ![p].live = FALSE], "delete", p, 0)

Restore(r) ==
    LET p == form[r].prop
    IN  /\ pc[r] = "open"
        /\ view[r][p] # NoRow
        /\ Stage(r, [view[r] EXCEPT ![p].live = TRUE], "restore", p, 0)

(* The user's updates and deletions in the session's snapshot that no      *)
(* event in it compensates.                                                *)
Reversible(r) ==
    {e \in 1 .. seen[r] :
        /\ log[e].user = user[r]
        /\ log[e].kind \in {"update", "delete"}
        /\ \A i \in 1 .. seen[r] : log[i].undoes # e}

(* undo_last_action: the latest of them.  An update's event holds the      *)
(* columns it changed, and TD, version and marker are not among the fields *)
(* written back: of the columns here only a deletion's deleted_at is.  An  *)
(* update that changed no field of the list is refused (no action).        *)
Undo(r) ==
    \E e \in Reversible(r) :
        LET p == log[e].prop
        IN  /\ pc[r] = "open"
            /\ \A i \in Reversible(r) : i <= e
            /\ Stage(r, IF log[e].kind = "delete"
                        THEN [view[r] EXCEPT ![p].live = log[e].live] ELSE view[r],
                     "undo", p, e)

GiveBack(r) ==
    /\ pool' = Append(pool, conn[r])
    /\ Forget(r)
    /\ auditor' = IF auditor = r THEN NoReq ELSE auditor
    /\ pending' = IF auditor = r THEN NoEvent ELSE pending
    /\ pc' = [pc EXCEPT ![r] = IF want[r] = NoTD THEN "idle" ELSE "ended"]
    /\ UNCHANGED <<named, depth, user, want>>

Commit(r) ==
    /\ pc[r] = "staged"
    /\ Len(log) < MaxHead
    /\ rows' = [p \in Props |-> IF p \in touched[r] THEN view[r][p] ELSE rows[p]]
    /\ log' = Append(log, pending)
    /\ GiveBack(r)

(* A refused approval, a stale form, a rejected audit event, any error.    *)
Rollback(r) ==
    /\ pc[r] \in {"open", "locked", "staged"}
    /\ GiveBack(r)
    /\ UNCHANGED <<rows, log>>

(* Mutant: a release from any connection counts.                           *)
ReleaseLockUnowned(r) ==
    LET t == want[r]
    IN  /\ pc[r] = "ended"
        /\ pool # <<>>
        /\ depth' = [depth EXCEPT ![t] = @ - 1]
        /\ named' = [named EXCEPT ![t] = IF depth[t] = 1 THEN NoConn ELSE @]
        /\ pool' = Append(Tail(pool), Head(pool))
        /\ want' = [want EXCEPT ![r] = NoTD]
        /\ pc' = [pc EXCEPT ![r] = "idle"]
        /\ UNCHANGED <<rows, audit, user, conn, view, seen, form, touched>>

(* The finally block: RELEASE_LOCK on whatever connection the pool hands   *)
(* out, which goes back when the session closes.  On another connection    *)
(* than the owner's it releases nothing.                                   *)
ReleaseLock(r) ==
    LET t == want[r]
        owns == named[t] = Head(pool)
    IN  /\ pc[r] = "ended"
        /\ pool # <<>>
        /\ depth' = [depth EXCEPT ![t] = IF owns THEN @ - 1 ELSE @]
        /\ named' = [named EXCEPT ![t] = IF owns /\ depth[t] = 1 THEN NoConn ELSE @]
        /\ pool' = Append(Tail(pool), Head(pool))
        /\ want' = [want EXCEPT ![r] = NoTD]
        /\ pc' = [pc EXCEPT ![r] = "idle"]
        /\ UNCHANGED <<rows, audit, user, conn, view, seen, form, touched>>

(* pool_recycle: the connection next in line is older than 1800 seconds    *)
(* and is replaced; the server drops its named locks.                      *)
Recycle ==
    /\ pool # <<>>
    /\ \E t \in TDs : named[t] = Head(pool)
    /\ named' = [t \in TDs |-> IF named[t] = Head(pool) THEN NoConn ELSE named[t]]
    /\ depth' = [t \in TDs |-> IF named[t] = Head(pool) THEN 0 ELSE depth[t]]
    /\ UNCHANGED <<rows, audit, pool, pc, session>>

Next ==
    \/ \E r \in Requests :
          \/ \E p \in Props : Open(r, p)
          \/ Begin(r)
          \/ \E t \in TDs : GetLock(r, t) \/ GetLockTimesOut(r, t)
          \/ \E approved \in BOOLEAN : Save(r, approved)
          \/ SoftDelete(r)
          \/ Restore(r)
          \/ Undo(r)
          \/ Commit(r)
          \/ Rollback(r)
          \/ ReleaseLock(r)
    \/ Recycle

Spec == Init /\ [][Next]_vars

-----------------------------------------------------------------------------
(* Types of all variables.                                                 *)
TypeOK ==
    /\ rows \in [Props -> Row \cup {NoRow}]
    /\ log \in Seq(Event)
    /\ auditor \in Requests \cup {NoReq}
    /\ pending \in Event \cup {NoEvent}
    /\ user \in [Requests -> Users]
    /\ named \in [TDs -> Conns \cup {NoConn}]
    /\ depth \in [TDs -> 0 .. MaxDepth]
    /\ pool \in Seq(Conns)
    /\ pc \in [Requests -> {"idle", "form", "open", "locked", "staged", "ended"}]
    /\ conn \in [Requests -> Conns \cup {NoConn}]
    /\ view \in [Requests -> [Props -> Row \cup {NoRow}]]
    /\ seen \in [Requests -> Nat]
    /\ form \in [Requests -> [prop : Props, ver : Nat, at : Nat] \cup {NoForm}]
    /\ want \in [Requests -> TDs \cup {NoTD}]
    /\ touched \in [Requests -> SUBSET Props]

(* The active properties on a TD are one, or all carry the administrator's *)
(* verified marker.                                                        *)
Clean(v, t) == \A p \in Active(v, t) : Active(v, t) # {p} => v[p].verified

(* Saves and deletions, however they overlap, never make two active        *)
(* properties share a TD without the marker: only a commit that brings a   *)
(* deleted one back does, a restore or an undo.                            *)
SharedUnverifiedOnlyByRestore ==
    [][\A t \in TDs :
          Clean(rows, t) /\ ~Clean(rows', t) =>
              \E p \in Active(rows', t) : rows[p] # NoRow /\ ~rows[p].live]_vars

(* An edit replaces exactly the version its form displayed: no save of the *)
(* property was committed after the form was opened.  Deletions, restores  *)
(* and undos may have been: they do not count versions.                    *)
EditsReplaceWhatTheySaw ==
    [][\A r \in Requests :
          pc[r] = "staged" /\ want[r] # NoTD /\ log' # log /\ pc'[r] # "staged" =>
              LET p == form[r].prop
              IN  /\ rows[p] # NoRow => rows[p].ver = form[r].ver
                  /\ \A e \in form[r].at + 1 .. Len(log) :
                        log[e].prop = p => log[e].kind \in {"delete", "restore", "undo"}]_vars

(* No event is compensated twice, though two requests of one user (a       *)
(* second click) may both find it the latest that can be undone.           *)
UndoneOnce ==
    \A i, j \in DOMAIN log : log[i].undoes # 0 /\ log[i].undoes = log[j].undoes => i = j

(* Savers of a TD exclude each other: whoever is between GET_LOCK and its  *)
(* commit owns the lock through its connection, though finished sessions   *)
(* run RELEASE_LOCK on connections that are not theirs any more.           *)
SaversHoldTheirLock ==
    \A r \in Requests :
        pc[r] \in {"locked", "staged"} /\ want[r] # NoTD => named[want[r]] = conn[r]
-----------------------------------------------------------------------------
(* The inductive invariant behind these four properties.                   *)
SaveKinds == {"create", "update", "authorize"}
Working == {"open", "locked", "staged"}

(* A connection is in one place: idle in the pool, once, or a working      *)
(* session's own.                                                          *)
ConnInv ==
    /\ \A i, j \in DOMAIN pool : pool[i] = pool[j] => i = j
    /\ \A r \in Requests :
          /\ conn[r] # NoConn <=> pc[r] \in Working
          /\ \A i \in DOMAIN pool : pool[i] # conn[r]
          /\ \A q \in Requests : conn[r] # NoConn /\ conn[q] = conn[r] => q = r

(* A named lock has an owner exactly while it is taken.                    *)
LockInv == \A t \in TDs : named[t] = NoConn <=> depth[t] = 0

(* Who has a form, and who has called GET_LOCK.                            *)
ControlInv ==
    \A r \in Requests :
        /\ form[r] # NoForm <=> pc[r] \in Working \cup {"form"}
        /\ pc[r] \in {"idle", "form", "open"} => want[r] = NoTD
        /\ pc[r] \in {"locked", "ended"} => want[r] # NoTD

(* Nothing is committed between the appending of a session's event and its *)
(* commit, and no event is about a property that does not exist.           *)
AuditInv ==
    /\ \A e \in DOMAIN log : rows[log[e].prop] # NoRow
    /\ \A r \in Requests :
          /\ pc[r] = "staged" <=> auditor = r
          /\ pc[r] \in Working => seen[r] <= Len(log)
          /\ pc[r] = "staged" => seen[r] = Len(log) /\ pending \in Event

(* A snapshot with the latest event shows the current rows, and every      *)
(* snapshot the properties of its events.                                  *)
SnapshotInv ==
    \A r \in Requests :
        pc[r] \in {"open", "locked"} =>
            /\ seen[r] = Len(log) => view[r] = rows
            /\ \A e \in 1 .. seen[r] : view[r][log[e].prop] # NoRow

(* An empty form's id belongs to it alone; another form shows a version    *)
(* that is still there or was replaced by a later save.                    *)
FormOK(r) ==
    LET f == form[r]
        p == form[r].prop
    IN  /\ f.at <= Len(log)
        /\ f.ver = 0 => rows[p] = NoRow /\ \A q \in Requests : Creates(q, p) => q = r
        /\ f.ver # 0 => rows[p] # NoRow /\ f.ver <= rows[p].ver
        /\ \A e \in f.at + 1 .. Len(log) :
              log[e].prop = p /\ log[e].kind \in SaveKinds => f.ver < rows[p].ver
        /\ pc[r] \in {"open", "locked"} /\ f.ver # 0 =>
              view[r][p] # NoRow /\ f.ver <= view[r][p].ver
        /\ pc[r] = "locked" => FormCurrent(r)
        /\ pc[r] = "staged" /\ want[r] # NoTD /\ f.ver # 0 => rows[p].ver = f.ver

FormInv == \A r \in Requests : pc[r] \in Working \cup {"form"} => FormOK(r)

(* What going from the rows v to w may do to the groups of a TD.           *)
KeepsGroupsClean(v, w) ==
    \A t \in TDs :
        Clean(v, t) /\ ~Clean(w, t) =>
            \E p \in Active(w, t) : v[p] # NoRow /\ ~v[p].live

(* What a commit will do to the rows: at most the form's own property is   *)
(* new, versions only grow, and a saved one's does.                        *)
StagedOK(r) ==
    /\ \A p \in Props \ touched[r] : view[r][p] = rows[p]
    /\ \A p \in Props :
          /\ rows[p] # NoRow => view[r][p] # NoRow /\ rows[p].ver <= view[r][p].ver
          /\ rows[p] = NoRow /\ view[r][p] # NoRow => Creates(r, p)
    /\ view[r][pending.prop] # NoRow
    /\ pending.kind \in SaveKinds /\ rows[pending.prop] # NoRow =>
          rows[pending.prop].ver < view[r][pending.prop].ver
    /\ pending.undoes # 0 => \A i \in DOMAIN log : log[i].undoes # pending.undoes
    /\ KeepsGroupsClean(rows, view[r])

StagedInv == \A r \in Requests : pc[r] = "staged" => StagedOK(r)

RegistryInv ==
    /\ TypeOK /\ ConnInv /\ LockInv /\ ControlInv /\ SaversHoldTheirLock
    /\ AuditInv /\ SnapshotInv /\ FormInv /\ StagedInv /\ UndoneOnce
=============================================================================
