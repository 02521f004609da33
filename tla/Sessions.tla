------------------------------ MODULE Sessions ------------------------------
(***************************************************************************)
(* User accounts, logins and refresh sessions: backend/services/           *)
(* auth_service.py, the token checks of get_current_user in backend/deps.py*)
(* and the pruning of refresh_tokens by the maintenance loop.              *)
(*                                                                         *)
(* A login is two transactions: the first reads the account, compares the  *)
(* password and writes the counters, the second inserts the session row    *)
(* (refresh_tokens) and takes no second look at the account.  The API runs *)
(* as several replicas, so anything may be committed in between.  A row    *)
(* read by a transaction is its snapshot; a flush writes only the columns  *)
(* whose value differs from the snapshot's.  Administrators' changes end   *)
(* in append_audit_event, so they commit only if their snapshot has the    *)
(* newest audit event (AuditChain); "head" counts the audited commits.     *)
(*                                                                         *)
(* Abstractions.  A password is the number of the reset that set it.  An   *)
(* expired access token is forgotten: no check accepts it.  One tick of    *)
(* "now" is the unit of iat and password_changed_at (one second in the     *)
(* code).  The reset's UPDATE of refresh_tokens reads the newest rows and  *)
(* locks the account's index range up to the commit, so it is one step     *)
(* with the commit.                                                        *)
(***************************************************************************)
EXTENDS Integers

CONSTANTS
    Users,        \* user names; a name is one account for ever (unique index)
    NoUser,       \* no account
    NoRow,        \* no refresh_tokens row under an id
    Requests,     \* requests in flight, on any replica
    Roles,
    SessionLife,  \* life of a refresh session (7 days)
    AccessLife,   \* life of an access token (60 minutes)
    LockLife,     \* lockout (5 minutes)
    MaxFails,     \* wrong passwords that lock an account (5)
    MaxSid,       \* bound: sessions opened
    MaxHead,      \* bound: audited commits
    MaxTries,     \* bound: wrong passwords given for one account
    MaxTime       \* bound: ticks of the clock

VARIABLES
    now,      \* the clock, UTC
    account,  \* committed users rows
    rows,     \* committed refresh_tokens rows, by id
    nextSid,  \* AUTO_INCREMENT of refresh_tokens
    tokens,   \* access tokens handed out and not expired
    head,     \* audited commits
    req,      \* what each request is doing, and the snapshot it does it on
    latest,   \* history: newest password of each account
    mark,     \* history: nextSid at the account's last reset or deletion
    roleAt,   \* history: when the account's role last changed
    tries     \* history: wrong passwords given for each account

tables == <<account, rows, nextSid, head>>
history == <<latest, mark, roleAt, tries>>
vars == <<now, tables, tokens, req, history>>

Sids == 1 .. MaxSid

Account == [status : {"absent", "live", "deleted"}, pw : Nat, legacy : BOOLEAN,
            role : Roles, active : BOOLEAN, fails : Nat,
            lockUntil : Nat, changedAt : Nat]

(* The columns a login and a reset use.                                    *)
Credentials == [pw : Nat, legacy : BOOLEAN, fails : Nat, lockUntil : Nat]

CredentialsOf(a) == [pw |-> a.pw, legacy |-> a.legacy,
                     fails |-> a.fails, lockUntil |-> a.lockUntil]

(* A refresh_tokens row, with the password its login gave.                 *)
Row == [user : Users, pw : Nat, expires : Nat, revoked : BOOLEAN]

ASSUME SessionsAssumption ==
    /\ NoUser \notin Users \cup Account \cup Credentials
    /\ NoRow \notin Row
    /\ {SessionLife, AccessLife, LockLife, MaxFails} \subseteq Nat \ {0}
    /\ {MaxSid, MaxHead, MaxTries, MaxTime} \subseteq Nat

Token == [sid : Nat, user : Users, role : Roles, iat : Nat]

(* seen: the chain head in the snapshot; live: the account's unrevoked     *)
(* sessions in it.                                                         *)
Request == [pc : {"idle", "checking", "verified", "refreshing", "admin"},
            user : Users \cup {NoUser}, sid : Nat,
            snap : Credentials \cup Account \cup {NoUser},
            seen : Nat, live : SUBSET Nat]

Idle == [pc |-> "idle", user |-> NoUser, sid |-> 0, snap |-> NoUser,
         seen |-> 0, live |-> {}]

NewAccount(role) ==
    [status |-> "live", pw |-> 0, legacy |-> FALSE, role |-> role, active |-> TRUE,
     fails |-> 0, lockUntil |-> 0, changedAt |-> 0]

(* Any account may predate bcrypt; others are created later.               *)
Init ==
    /\ now = 0
    /\ account \in [Users -> {[NewAccount(role) EXCEPT !.legacy = b] :
                                  role \in Roles, b \in BOOLEAN}
                             \cup {[NewAccount(role) EXCEPT !.status = "absent"] :
                                       role \in Roles}]
    /\ rows = [s \in Sids |-> NoRow]
    /\ nextSid = 1
    /\ tokens = {}
    /\ head = 0
    /\ req = [r \in Requests |-> Idle]
    /\ latest = [u \in Users |-> 0]
    /\ mark = [u \in Users |-> 1]
    /\ roleAt = [u \in Users |-> 0]
    /\ tries = [u \in Users |-> 0]

-----------------------------------------------------------------------------
(* Logins.                                                                 *)

Working(r, a) == [req EXCEPT ![r] = a]

(* verify_user_login reads the account: present, active and not locked.    *)
StartLogin(r, u) ==
    /\ req[r].pc = "idle"
    /\ account[u].status = "live"
    /\ account[u].active
    /\ account[u].lockUntil <= now
    /\ req' = Working(r, [Idle EXCEPT !.pc = "checking", !.user = u,
                              !.snap = CredentialsOf(account[u])])
    /\ UNCHANGED <<now, tables, tokens, history>>

(* Mutant: the account is locked one attempt early.                        *)
LockNowEarly(fails) == fails >= MaxFails - 1

LockNow(fails) == fails >= MaxFails

(* A wrong password: the counter the login read, plus one.                 *)
WrongPassword(r) ==
    LET u == req[r].user
        fails == req[r].snap.fails + 1
    IN  /\ req[r].pc = "checking"
        /\ tries[u] < MaxTries
        /\ account' = [account EXCEPT
               ![u].fails = fails,
               ![u].lockUntil = IF LockNow(fails) THEN now + LockLife ELSE @]
        /\ tries' = [tries EXCEPT ![u] = @ + 1]
        /\ req' = Working(r, Idle)
        /\ UNCHANGED <<now, rows, nextSid, head, tokens, latest, mark, roleAt>>

(* What a flush leaves in a column that holds cur: a value equal to the    *)
(* one read is not written.                                                *)
Assigned(read, new, cur) == IF new = read THEN cur ELSE new

(* Mutant: every login stores the password again.                          *)
NeedsRehashAlways(a) == TRUE

NeedsRehash(a) == a.legacy

(* The right password: counters cleared, a legacy hash replaced by the     *)
(* bcrypt hash of the password just given.                                 *)
RightPassword(r) ==
    LET u == req[r].user
        snap == req[r].snap
    IN  /\ req[r].pc = "checking"
        /\ account' = [account EXCEPT
               ![u].fails = Assigned(snap.fails, 0, @),
               ![u].lockUntil = Assigned(snap.lockUntil, 0, @),
               ![u].pw = IF NeedsRehash(snap) THEN snap.pw ELSE @,
               ![u].legacy = IF NeedsRehash(snap) THEN FALSE ELSE @]
        /\ req' = Working(r, [req[r] EXCEPT !.pc = "verified"])
        /\ UNCHANGED <<now, rows, nextSid, head, tokens, history>>

(* create_refresh_token, and the first access token of the session.  The   *)
(* role is the account's at this moment: commit expired the row read.      *)
OpenSession(r) ==
    LET u == req[r].user
    IN  /\ req[r].pc = "verified"
        /\ nextSid \in Sids
        /\ rows' = [rows EXCEPT ![nextSid] =
               [user |-> u, pw |-> req[r].snap.pw,
                expires |-> now + SessionLife, revoked |-> FALSE]]
        /\ tokens' = tokens \cup {[sid |-> nextSid, user |-> u,
                                   role |-> account[u].role, iat |-> now]}
        /\ nextSid' = nextSid + 1
        /\ req' = Working(r, Idle)
        /\ UNCHANGED <<now, account, head, history>>

-----------------------------------------------------------------------------
(* Sessions.                                                               *)

Live(s) == s \in Sids /\ rows[s] # NoRow /\ ~rows[s].revoked

StartRefresh(r, s) ==
    /\ req[r].pc = "idle"
    /\ Live(s)
    /\ rows[s].expires > now
    /\ account[rows[s].user].status = "live"
    /\ account[rows[s].user].active
    /\ req' = Working(r, [Idle EXCEPT !.pc = "refreshing", !.user = rows[s].user,
                                      !.sid = s, !.snap = account[rows[s].user]])
    /\ UNCHANGED <<now, tables, tokens, history>>

(* last_used_at is the only column of the row that is written.             *)
Touch(s, row) == row

(* Mutant: the role the account had when the request came in.              *)
RoleReadEarlier(r) == req[r].snap.role

(* The role that goes into the new access token, read after the commit.    *)
RoleNow(r) == account[req[r].user].role

(* The row is still there, or the flush fails.                             *)
FinishRefresh(r) ==
    LET s == req[r].sid
    IN  /\ req[r].pc = "refreshing"
        /\ rows[s] # NoRow
        /\ rows' = [rows EXCEPT ![s] = Touch(s, @)]
        /\ tokens' = tokens \cup {[sid |-> s, user |-> req[r].user,
                                   role |-> RoleNow(r), iat |-> now]}
        /\ req' = Working(r, Idle)
        /\ UNCHANGED <<now, account, nextSid, head, history>>

Revoke(S) == [s \in Sids |-> IF s \in S /\ rows[s] # NoRow
                             THEN [rows[s] EXCEPT !.revoked = TRUE] ELSE rows[s]]

Logout(s) ==
    /\ Live(s)
    /\ rows' = Revoke({s})
    /\ UNCHANGED <<now, account, nextSid, head, tokens, req, history>>

-----------------------------------------------------------------------------
(* Administrators' changes.                                                *)

(* The administrator is looked up: the snapshot is fixed.                  *)
StartAdmin(r, u) ==
    /\ req[r].pc = "idle"
    /\ req' = Working(r, [Idle EXCEPT !.pc = "admin", !.user = u, !.snap = account[u],
                              !.seen = head,
                              !.live = {s \in Sids : Live(s) /\ rows[s].user = u}])
    /\ UNCHANGED <<now, tables, tokens, history>>

(* append_audit_event and the commit.                                      *)
Audited(r) ==
    /\ req[r].seen = head
    /\ head < MaxHead
    /\ head' = head + 1

Administers(r) ==
    /\ req[r].pc = "admin"
    /\ Audited(r)
    /\ req' = Working(r, Idle)
    /\ UNCHANGED <<now, nextSid, tokens, tries>>

Present(r) == req[r].pc = "admin" /\ req[r].snap.status # "absent"

CreateUser(r, role) ==
    LET u == req[r].user
    IN  /\ req[r].pc = "admin"
        /\ ~Present(r)
        /\ account[u].status = "absent"
        /\ account' = [account EXCEPT ![u] = NewAccount(role)]
        /\ roleAt' = [roleAt EXCEPT ![u] = now]
        /\ UNCHANGED <<rows, latest, mark>>
        /\ Administers(r)

SetRole(r, role) ==
    LET u == req[r].user
    IN  /\ Present(r)
        /\ account' = [account EXCEPT ![u].role = Assigned(req[r].snap.role, role, @)]
        /\ roleAt' = [roleAt EXCEPT ![u] =
                         IF account'[u].role = account[u].role THEN @ ELSE now]
        /\ UNCHANGED <<rows, latest, mark>>
        /\ Administers(r)

SetActive(r, active) ==
    LET u == req[r].user
    IN  /\ Present(r)
        /\ account' = [account EXCEPT ![u].active = Assigned(req[r].snap.active, active, @)]
        /\ UNCHANGED <<rows, latest, mark, roleAt>>
        /\ Administers(r)

(* Mutant: the sessions are read first, then revoked one by one, as        *)
(* revoke_other_user_sessions does.                                        *)
RevokeAllSeen(r) == Revoke(req[r].live)

(* One UPDATE over the account's rows.                                     *)
RevokeAll(r) == Revoke({s \in Sids : rows[s] # NoRow /\ rows[s].user = req[r].user})

ResetPassword(r) ==
    LET u == req[r].user
        snap == req[r].snap
    IN  /\ Present(r)
        /\ account' = [account EXCEPT
               ![u].pw = latest[u] + 1,
               ![u].legacy = FALSE,
               ![u].fails = Assigned(snap.fails, 0, @),
               ![u].lockUntil = Assigned(snap.lockUntil, 0, @),
               ![u].changedAt = now]
        /\ rows' = RevokeAll(r)
        /\ latest' = [latest EXCEPT ![u] = @ + 1]
        /\ mark' = [mark EXCEPT ![u] = nextSid]
        /\ UNCHANGED roleAt
        /\ Administers(r)

DeleteUser(r) ==
    LET u == req[r].user
    IN  /\ Present(r)
        /\ req[r].snap.status = "live"
        /\ account' = [account EXCEPT ![u].status = "deleted", ![u].active = FALSE]
        /\ rows' = RevokeAll(r)
        /\ mark' = [mark EXCEPT ![u] = nextSid]
        /\ UNCHANGED <<latest, roleAt>>
        /\ Administers(r)

(* revoke_managed_session: one session of the snapshot, still in the table.*)
RevokeOne(r, s) ==
    /\ s \in req[r].live
    /\ rows[s] # NoRow
    /\ rows' = Revoke({s})
    /\ UNCHANGED <<account, latest, mark, roleAt>>
    /\ Administers(r)

(* revoke_other_user_sessions: all sessions of the snapshot, except the    *)
(* one the administrator uses if the account is his own.                   *)
RevokeOthers(r, mine) ==
    LET S == {s \in req[r].live \ {mine} : rows[s] = NoRow \/ rows[s].expires > now}
    IN  /\ S # {}
        /\ \A s \in S : rows[s] # NoRow
        /\ rows' = Revoke(S)
        /\ UNCHANGED <<account, latest, mark, roleAt>>
        /\ Administers(r)

(* Any error, a rejected audit event, a lost connection, a crash.          *)
GiveUp(r) ==
    /\ req[r].pc # "idle"
    /\ req' = Working(r, Idle)
    /\ UNCHANGED <<now, tables, tokens, history>>

-----------------------------------------------------------------------------
(* Time.                                                                   *)

Tick ==
    /\ now < MaxTime
    /\ now' = now + 1
    /\ tokens' = {t \in tokens : now' < t.iat + AccessLife}
    /\ UNCHANGED <<tables, req, history>>

Prunable(s) == rows[s] # NoRow /\ rows[s].expires < now

(* _cleanup_expired_refresh_tokens, every five minutes.                    *)
Prune ==
    /\ \E s \in Sids : Prunable(s)
    /\ rows' = [s \in Sids |-> IF Prunable(s) THEN NoRow ELSE rows[s]]
    /\ UNCHANGED <<now, account, nextSid, head, tokens, req, history>>

Administer(r) ==
    \/ \E role \in Roles : CreateUser(r, role) \/ SetRole(r, role)
    \/ \E active \in BOOLEAN : SetActive(r, active)
    \/ ResetPassword(r)
    \/ DeleteUser(r)
    \/ \E s \in Sids : RevokeOne(r, s)
    \/ \E mine \in Sids \cup {0} : RevokeOthers(r, mine)

Next ==
    \/ \E r \in Requests :
          \/ \E u \in Users : StartLogin(r, u) \/ StartAdmin(r, u)
          \/ WrongPassword(r)
          \/ RightPassword(r)
          \/ OpenSession(r)
          \/ \E s \in Sids : StartRefresh(r, s)
          \/ FinishRefresh(r)
          \/ Administer(r)
          \/ GiveUp(r)
    \/ \E s \in Sids : Logout(s)
    \/ Tick
    \/ Prune

Spec == Init /\ [][Next]_vars

-----------------------------------------------------------------------------
(* Types of all variables.                                                 *)
TypeOK ==
    /\ now \in Nat
    /\ account \in [Users -> Account]
    /\ rows \in [Sids -> Row \cup {NoRow}]
    /\ nextSid \in Nat \ {0}
    /\ tokens \subseteq Token
    /\ head \in Nat
    /\ req \in [Requests -> Request]
    /\ latest \in [Users -> Nat]
    /\ mark \in [Users -> Nat]
    /\ roleAt \in [Users -> Nat]
    /\ tries \in [Users -> Nat]

(* What get_current_user demands of an access token, besides its signature.*)
Accepts(t) ==
    /\ now < t.iat + AccessLife
    /\ account[t.user].status = "live"
    /\ account[t.user].active
    /\ Live(t.sid)
    /\ rows[t.sid].user = t.user
    /\ rows[t.sid].expires > now
    /\ t.iat >= account[t.user].changedAt

(* Nobody is let in with a session that existed when the account's         *)
(* password was last reset or the account was deleted, however the reset   *)
(* overlaps logins and refreshes.                                          *)
AcceptedPostdateReset ==
    \A t \in tokens : Accepts(t) => t.sid >= mark[t.user]

(* A revoked session never comes back: not by a refresh that read it       *)
(* before the revocation, not by anything else.                            *)
RevokedStaysRevoked ==
    [][\A s \in Sids : rows[s] # NoRow /\ rows[s].revoked =>
           rows'[s] = NoRow \/ rows'[s].revoked]_vars

(* A password that was replaced works again only if it is the account's    *)
(* first one and an overlapping login upgraded its legacy hash: the        *)
(* upgrade happens once, and no later reset can be undone by it.           *)
OnlyLegacyUpgradeUndoesReset ==
    \A u \in Users : account[u].pw \in {latest[u], 0}

(* A changed role reaches the account's users within the life of an access *)
(* token: a request runs with another role than the account's only if the  *)
(* role changed less than AccessLife ago.                                  *)
RoleChangesArriveInTime ==
    \A t \in tokens :
        Accepts(t) /\ t.role # account[t.user].role => now < roleAt[t.user] + AccessLife

(* The audit trail tells who had which rights when: a change of role,      *)
(* status or existence commits only on the account its administrator saw,  *)
(* so each event's "before" is the "after" of the one before it.           *)
Rights(a) == [status |-> a.status, role |-> a.role, active |-> a.active]

ChangesFollowTheTrail ==
    [][\A u \in Users :
          Rights(account'[u]) # Rights(account[u]) =>
              \E r \in Requests :
                  /\ req[r].pc = "admin" /\ req[r].user = u
                  /\ Rights(req[r].snap) = Rights(account[u])]_vars

(* An account is locked only after MaxFails wrong passwords, however the   *)
(* unlocked counter is read and written by overlapping logins: it may      *)
(* count too few, never too many.                                          *)
LockedOnlyAfterEnoughTries ==
    \A u \in Users :
        /\ account[u].fails <= tries[u]
        /\ account[u].lockUntil # 0 => tries[u] >= MaxFails

-----------------------------------------------------------------------------
(* The inductive invariant behind these properties.                        *)

(* What a request carries fits what it is doing.                           *)
RequestInv ==
    \A r \in Requests :
        /\ req[r].pc # "idle" => req[r].user \in Users
        /\ req[r].pc \in {"checking", "verified"} => req[r].snap \in Credentials
        /\ req[r].pc = "admin" => req[r].snap \in Account
        /\ req[r].pc = "refreshing" => req[r].sid \in Sids /\ req[r].snap \in Account

(* An unrevoked session is younger than the last reset or deletion.        *)
MarkInv ==
    /\ \A s \in Sids : rows[s] # NoRow => s < nextSid
    /\ \A u \in Users : mark[u] <= nextSid
    /\ \A s \in Sids : Live(s) => s >= mark[rows[s].user]

(* A legacy hash is the hash of the first password, in the table and in    *)
(* every login that read one.                                              *)
PasswordInv ==
    /\ OnlyLegacyUpgradeUndoesReset
    /\ \A u \in Users : account[u].legacy => account[u].pw = 0
    /\ \A r \in Requests :
          req[r].pc = "checking" /\ req[r].snap.legacy => req[r].snap.pw = 0

(* A counter read by a login is not above the wrong passwords given.       *)
CounterInv ==
    /\ LockedOnlyAfterEnoughTries
    /\ \A r \in Requests :
          req[r].pc = "checking" => req[r].snap.fails <= tries[req[r].user]

(* A token with another role than the account's is not younger than the    *)
(* change of role.                                                         *)
RoleInv ==
    /\ \A u \in Users : roleAt[u] <= now
    /\ \A t \in tokens :
          /\ t.iat <= now
          /\ now < t.iat + AccessLife
          /\ t.role # account[t.user].role => t.iat <= roleAt[t.user]

(* Nobody changes an account's rights after a snapshot that still has the  *)
(* chain head.                                                             *)
TrailInv ==
    \A r \in Requests :
        req[r].pc = "admin" =>
            /\ req[r].seen <= head
            /\ req[r].seen = head =>
                  Rights(req[r].snap) = Rights(account[req[r].user])

SessionInv ==
    /\ TypeOK /\ RequestInv /\ MarkInv /\ PasswordInv
    /\ CounterInv /\ RoleInv /\ TrailInv
=============================================================================
