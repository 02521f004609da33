-------------------------- MODULE SessionsProofs --------------------------
(***************************************************************************)
(* Proofs about Sessions, for any number of accounts, requests, roles and  *)
(* sessions and any lengths of life: who is let in, how long an old role   *)
(* lasts, what undoes a reset, and that the audit trail of rights has no   *)
(* gaps; and about ClientSession, the desktop's side of them.              *)
(***************************************************************************)
EXTENDS Sessions, ClientSession, FiniteSetTheorems, TLAPS

-----------------------------------------------------------------------------
LEMMA IdleIsRequest == Idle \in Request
BY DEF Idle, Request

(* An audited commit leaves no snapshot with the chain head behind.        *)
LEMMA AuditedPreservesTrail ==
  ASSUME SessionInv, NEW r \in Requests, req[r].pc = "admin", Administers(r)
  PROVE  TrailInv'
<1>1. head' = head + 1 /\ head \in Nat
  BY DEF Administers, Audited, SessionInv, TypeOK
<1>2. \A q \in Requests : req'[q].pc = "admin" => req'[q] = req[q] /\ req[q].pc
       = "admin"
  BY DEF Administers, Working, Idle, SessionInv, TypeOK
<1>3. \A q \in Requests : req[q].seen \in Nat
  BY DEF SessionInv, TypeOK, Request
<1>4. \A q \in Requests : req[q].pc = "admin" => req[q].seen <= head
  BY DEF SessionInv, TrailInv
<1> QED BY <1>1, <1>2, <1>3, <1>4 DEF TrailInv

(* The request of an audited commit is over.                               *)
LEMMA AuditedTypes ==
  ASSUME SessionInv, NEW r \in Requests, Administers(r)
  PROVE  req' \in [Requests -> Request] /\ head' \in Nat
BY IdleIsRequest DEF Administers, Audited, Working, SessionInv, TypeOK

(* The account a request is about, and its snapshot.                       *)
LEMMA LoginFacts ==
  ASSUME SessionInv, NEW r \in Requests, req[r].pc \in {"checking", "verified"}
  PROVE  req[r].user \in Users /\ req[r].snap \in Credentials
BY DEF SessionInv, RequestInv

LEMMA AdminFacts ==
  ASSUME SessionInv, NEW r \in Requests, req[r].pc = "admin"
  PROVE  req[r].user \in Users /\ req[r].snap \in Account
BY DEF SessionInv, RequestInv

(* What rewriting the columns of one account does, column by column.       *)
LEMMA CredentialsWritten ==
  ASSUME NEW u \in Users, account \in [Users -> Account], NEW f, NEW l, NEW p, NEW g,
         account' = [account EXCEPT ![u] = [account[u] EXCEPT !.fails = f,
                                               !.lockUntil = l, !.pw = p, !.legacy = g]]
  PROVE  \A v \in Users :
           /\ account'[v].fails = IF v = u THEN f ELSE account[v].fails
           /\ account'[v].lockUntil = IF v = u THEN l ELSE account[v].lockUntil
           /\ account'[v].pw = IF v = u THEN p ELSE account[v].pw
           /\ account'[v].legacy = IF v = u THEN g ELSE account[v].legacy
           /\ account'[v].status = account[v].status
           /\ account'[v].role = account[v].role
           /\ account'[v].active = account[v].active
BY DEF Account

LEMMA PasswordWritten ==
  ASSUME NEW u \in Users, account \in [Users -> Account], NEW p, NEW f, NEW l, NEW c,
         account' = [account EXCEPT ![u] = [account[u] EXCEPT !.pw = p, !.legacy = FALSE,
                                               !.fails = f, !.lockUntil = l, !.changedAt = c]]
  PROVE  \A v \in Users :
           /\ account'[v].fails = IF v = u THEN f ELSE account[v].fails
           /\ account'[v].lockUntil = IF v = u THEN l ELSE account[v].lockUntil
           /\ account'[v].pw = IF v = u THEN p ELSE account[v].pw
           /\ account'[v].legacy = IF v = u THEN FALSE ELSE account[v].legacy
           /\ account'[v].status = account[v].status
           /\ account'[v].role = account[v].role
           /\ account'[v].active = account[v].active
BY DEF Account

(* Clearing counters keeps them below the wrong passwords given.           *)
LEMMA ClearingPreservesCounters ==
  ASSUME SessionInv, tries' = tries,
         \A v \in Users : account'[v].fails = 0 \/ account'[v].fails =
                account[v].fails,
         \A v \in Users : \/ account'[v].lockUntil = 0
                          \/ account'[v].lockUntil = account[v].lockUntil,
         \A q \in Requests : req'[q].pc = "checking" => req'[q] = req[q]
  PROVE  CounterInv'
<1>1. \A v \in Users : tries[v] >= 0
  BY DEF SessionInv, TypeOK
<1> QED BY <1>1 DEF SessionInv, CounterInv, LockedOnlyAfterEnoughTries

(* Changing one account's row changes the table.                           *)
LEMMA OneAccount ==
  ASSUME account \in [Users -> Account], NEW w \in Users, NEW b \in Account,
         account' = [account EXCEPT ![w] = b]
  PROVE  account' \in [Users -> Account]
OBVIOUS

(* The initial state satisfies the invariant.                              *)
LEMMA InitSessionInv == Init => SessionInv
<1> SUFFICES ASSUME Init PROVE SessionInv
  OBVIOUS
<1> USE SessionsAssumption DEF Init
<1> USE DEF Idle
<1>0. \A u \in Users :
         \/ \E role \in Roles, b \in BOOLEAN :
               account[u] = [NewAccount(role) EXCEPT !.legacy = b]
         \/ \E role \in Roles :
               account[u] = [NewAccount(role) EXCEPT !.status = "absent"]
  <2> TAKE u \in Users
  <2>1. \/ account[u] \in {[NewAccount(role) EXCEPT !.legacy = b] :
                             role \in Roles, b \in BOOLEAN}
        \/ account[u] \in {[NewAccount(role) EXCEPT !.status = "absent"] : role
               \in Roles}
    OBVIOUS
  <2> QED BY ONLY <2>1
<1>00. \A role \in Roles : NewAccount(role) \in Account
  BY DEF NewAccount, Account
<1>1. TypeOK
  <2>1. account \in [Users -> Account]
    <3>1. \A u \in Users : account[u] \in Account
      <4> SUFFICES ASSUME NEW u \in Users PROVE account[u] \in Account
        OBVIOUS
      <4>1. CASE \E role \in Roles, b \in BOOLEAN :
                    account[u] = [NewAccount(role) EXCEPT !.legacy = b]
        BY ONLY <4>1, <1>00 DEF Account
      <4>2. CASE \E role \in Roles :
                    account[u] = [NewAccount(role) EXCEPT !.status = "absent"]
        BY ONLY <4>2, <1>00 DEF Account
      <4> QED BY <1>0, <4>1, <4>2
    <3> QED BY <3>1
  <2>2. req \in [Requests -> Request]
    BY IdleIsRequest
  <2>4. now \in Nat /\ nextSid \in Nat \ {0} /\ head \in Nat
    OBVIOUS
  <2>5. /\ latest \in [Users -> Nat] /\ mark \in [Users -> Nat]
        /\ roleAt \in [Users -> Nat] /\ tries \in [Users -> Nat]
    OBVIOUS
  <2>3. tokens \subseteq Token /\ rows \in [Sids -> Row \cup {NoRow}]
    OBVIOUS
  <2> QED BY <2>1, <2>2, <2>3, <2>4, <2>5 DEF TypeOK
<1>2. RequestInv /\ TrailInv
  BY DEF RequestInv, TrailInv
<1>3. MarkInv
  BY DEF MarkInv, Live
<1>4. PasswordInv /\ CounterInv
  <2>1. \A u \in Users : account[u].pw = 0 /\ account[u].fails = 0 /\
         account[u].lockUntil = 0
    BY ZenonT(30), <1>0 DEF NewAccount
  <2> QED BY <2>1 DEF PasswordInv, OnlyLegacyUpgradeUndoesReset, CounterInv,
         LockedOnlyAfterEnoughTries
<1>5. RoleInv
  BY DEF RoleInv
<1> QED BY <1>1, <1>2, <1>3, <1>4, <1>5 DEF SessionInv

(* A login takes its snapshot.                                             *)
LEMMA StartLoginPreserves ==
  ASSUME SessionInv, NEW r \in Requests, NEW u \in Users, StartLogin(r, u)
  PROVE  SessionInv'
<1> USE SessionsAssumption
    DEF SessionInv, TypeOK, StartLogin, tables, history, Working,
           CredentialsOf, Idle
<1>1. TypeOK'
  BY DEF Account, Credentials, Request
<1>2. RequestInv'
  <2>1. CredentialsOf(account[u]) \in Credentials
    BY DEF Account, Credentials
  <2>2. \A q \in Requests : q # r => req'[q] = req[q]
    OBVIOUS
  <2>3. /\ req'[r].pc = "checking"
        /\ req'[r].user = u
        /\ req'[r].snap = CredentialsOf(account[u])
    OBVIOUS
  <2> QED BY <2>1, <2>2, <2>3 DEF RequestInv
<1>3. MarkInv'
  BY DEF MarkInv, RequestInv, Live
<1>4. PasswordInv'
  BY DEF PasswordInv, OnlyLegacyUpgradeUndoesReset, RequestInv
<1>5. CounterInv'
  BY DEF CounterInv, LockedOnlyAfterEnoughTries, RequestInv
<1>6. RoleInv'
  BY DEF RoleInv, RequestInv
<1>7. TrailInv'
  BY DEF TrailInv, Rights, RequestInv
<1> QED BY <1>1, <1>2, <1>3, <1>4, <1>5, <1>6, <1>7

(* The counter is written from the snapshot.                               *)
LEMMA WrongPasswordPreserves ==
  ASSUME SessionInv, NEW r \in Requests, WrongPassword(r)
  PROVE  SessionInv'
<1> USE SessionsAssumption
    DEF SessionInv, TypeOK, WrongPassword, tables, history, Working, LockNow,
           Idle
<1>1. TypeOK'
  <2>1. req[r].user \in Users /\ req[r].snap \in Credentials
    BY LoginFacts
  <2> DEFINE w == req[r].user
  <2> DEFINE f == req[r].snap.fails + 1
  <2> DEFINE l == IF LockNow(f) THEN now + LockLife ELSE account[w].lockUntil
  <2>2. account' \in [Users -> Account]
    <3>1. f \in Nat
      BY <2>1 DEF Credentials
    <3>2. l \in Nat
      BY <2>1 DEF Account
    <3>3. account[w] \in Account
      BY <2>1
    <3>4. account' = [account EXCEPT ![w] = [account[w] EXCEPT !.fails = f,
           !.lockUntil = l]]
      OBVIOUS
    <3> HIDE DEF f, l
    <3>5. [account[w] EXCEPT !.fails = f, !.lockUntil = l] \in Account
      BY ONLY <3>1, <3>2, <3>3 DEF Account
    <3> QED BY ONLY <2>1, <3>4, <3>5, TypeOK, OneAccount DEF TypeOK, w
  <2>3. req' \in [Requests -> Request]
    BY IdleIsRequest
  <2>4. tries' \in [Users -> Nat]
    BY <2>1
  <2> QED BY <2>2, <2>3, <2>4
<1>2. RequestInv'
  BY DEF RequestInv
<1>3. MarkInv'
  BY DEF MarkInv, RequestInv, Live
<1>4. PasswordInv'
  BY DEF PasswordInv, OnlyLegacyUpgradeUndoesReset, RequestInv
<1>5. CounterInv'
  <2> DEFINE w == req[r].user
  <2>1. w \in Users /\ req[r].snap.fails \in Nat /\ req[r].snap.fails <=
         tries[w]
    BY LoginFacts DEF Credentials, CounterInv
  <2>2. \A v \in Users : tries'[v] = IF v = w THEN tries[v] + 1 ELSE tries[v]
    BY <2>1
  <2>3. \A v \in Users : account'[v].fails =
            IF v = w THEN req[r].snap.fails + 1 ELSE account[v].fails
    BY <2>1 DEF Account
  <2>4. \A v \in Users : account'[v].lockUntil # account[v].lockUntil =>
            v = w /\ req[r].snap.fails + 1 >= MaxFails
    BY <2>1 DEF Account
  <2>5. LockedOnlyAfterEnoughTries'
    BY <2>1, <2>2, <2>3, <2>4 DEF CounterInv, LockedOnlyAfterEnoughTries
  <2>6. \A q \in Requests : req'[q].pc = "checking" => q # r /\ req'[q] =
         req[q]
    OBVIOUS
  <2>7. \A q \in Requests : req[q].pc = "checking" =>
            req[q].user \in Users /\ req[q].snap.fails \in Nat
    BY LoginFacts DEF Credentials
  <2> QED BY <2>2, <2>5, <2>6, <2>7 DEF CounterInv
<1>6. RoleInv'
  <2>1. req[r].user \in Users
    BY LoginFacts
  <2>2. \A v \in Users : account'[v].role = account[v].role
    BY <2>1 DEF Account
  <2>3. tokens \subseteq Token
    OBVIOUS
  <2> QED BY <2>2, <2>3 DEF RoleInv, Token
<1>7. TrailInv'
  BY SMTT(30) DEF TrailInv, Rights, RequestInv
<1> QED BY <1>1, <1>2, <1>3, <1>4, <1>5, <1>6, <1>7

(* A legacy hash is replaced by the hash of the first password.            *)
LEMMA RightPasswordPreserves ==
  ASSUME SessionInv, NEW r \in Requests, RightPassword(r)
  PROVE  SessionInv'
<1> USE SessionsAssumption
    DEF SessionInv, TypeOK, RightPassword, tables, history, Working, Assigned,
           NeedsRehash
<1> DEFINE u == req[r].user
           fails == Assigned(req[r].snap.fails, 0, account[u].fails)
           lockUntil == Assigned(req[r].snap.lockUntil, 0, account[u].lockUntil)
           pw == IF NeedsRehash(req[r].snap) THEN req[r].snap.pw ELSE account[u].pw
           legacy == IF NeedsRehash(req[r].snap) THEN FALSE ELSE account[u].legacy
<1>0. \A v \in Users :
        /\ account'[v].fails = IF v = u THEN fails ELSE account[v].fails
        /\ account'[v].lockUntil = IF v = u THEN lockUntil ELSE account[v].lockUntil
        /\ account'[v].pw = IF v = u THEN pw ELSE account[v].pw
        /\ account'[v].legacy = IF v = u THEN legacy ELSE account[v].legacy
        /\ account'[v].status = account[v].status
        /\ account'[v].role = account[v].role
        /\ account'[v].active = account[v].active
  <2>1. u \in Users /\ account \in [Users -> Account]
    BY LoginFacts
  <2>2. account' = [account EXCEPT ![u] = [account[u] EXCEPT !.fails = fails,
                        !.lockUntil = lockUntil, !.pw = pw, !.legacy = legacy]]
    OBVIOUS
  <2> HIDE DEF u, fails, lockUntil, pw, legacy
  <2> QED BY ONLY <2>1, <2>2, CredentialsWritten
<1>1. TypeOK'
  <2>1. req[r].user \in Users /\ req[r].snap \in Credentials
    BY LoginFacts
  <2> DEFINE w == req[r].user
  <2> DEFINE f == Assigned(req[r].snap.fails, 0, account[w].fails)
  <2> DEFINE l == Assigned(req[r].snap.lockUntil, 0, account[w].lockUntil)
  <2> DEFINE p == IF NeedsRehash(req[r].snap) THEN req[r].snap.pw ELSE
         account[w].pw
  <2> DEFINE g == IF NeedsRehash(req[r].snap) THEN FALSE ELSE account[w].legacy
  <2>2. account' \in [Users -> Account]
    <3>1. f \in Nat
      BY <2>1 DEF Credentials, Account
    <3>2. l \in Nat
      BY <2>1 DEF Credentials, Account
    <3>3. p \in Nat
      BY <2>1 DEF Credentials, Account
    <3>4. g \in BOOLEAN
      BY <2>1 DEF Credentials, Account
    <3>5. account[w] \in Account
      BY <2>1
    <3>6. account' = [account EXCEPT ![w] = [account[w] EXCEPT !.fails = f,
           !.lockUntil = l, !.pw = p, !.legacy = g]]
      OBVIOUS
    <3> HIDE DEF f, l, p, g
    <3>7. [account[w] EXCEPT !.fails = f, !.lockUntil = l, !.pw = p, !.legacy =
           g] \in Account
      BY ONLY <3>1, <3>2, <3>3, <3>4, <3>5 DEF Account
    <3> QED BY ONLY <2>1, <3>6, <3>7, TypeOK, OneAccount DEF TypeOK, w
  <2>3. req' \in [Requests -> Request]
    BY ZenonT(60), <2>1 DEF Request
  <2> QED BY <2>2, <2>3
<1>2. RequestInv'
  BY DEF RequestInv
<1>3. MarkInv'
  BY DEF MarkInv, RequestInv, Live
<1>4. PasswordInv'
  <2> DEFINE w == req[r].user
  <2>1. w \in Users /\ req[r].snap \in Credentials
    BY LoginFacts
  <2>2. req[r].snap.legacy => req[r].snap.pw = 0
    BY DEF PasswordInv
  <2>3. \A v \in Users :
            /\ account'[v].pw = IF v = w /\ req[r].snap.legacy
                                THEN req[r].snap.pw ELSE account[v].pw
            /\ account'[v].legacy = IF v = w /\ req[r].snap.legacy
                                    THEN FALSE ELSE account[v].legacy
    BY ONLY <1>0 DEF u, w, pw, legacy, NeedsRehash
  <2>4. \A q \in Requests : req'[q].pc = "checking" => q # r /\ req'[q] =
         req[q]
    OBVIOUS
  <2> QED BY ZenonT(60), <2>2, <2>3, <2>4 DEF PasswordInv, OnlyLegacyUpgradeUndoesReset
<1>5. CounterInv'
  <2>1. req[r].user \in Users
    BY LoginFacts
  <2>2. \A v \in Users : account'[v].fails = 0 \/ account'[v].fails =
         account[v].fails
    BY ONLY <1>0 DEF u, fails, Assigned
  <2>3. \A v \in Users : \/ account'[v].lockUntil = 0
                         \/ account'[v].lockUntil = account[v].lockUntil
    BY ONLY <1>0 DEF u, lockUntil, Assigned
  <2>4. \A q \in Requests : req'[q].pc = "checking" => req'[q] = req[q]
    OBVIOUS
  <2>5. tries' = tries
    OBVIOUS
  <2> QED BY <2>2, <2>3, <2>4, <2>5, ClearingPreservesCounters
<1>6. RoleInv'
  <2>1. req[r].user \in Users
    BY LoginFacts
  <2>2. \A v \in Users : account'[v].role = account[v].role
    BY ONLY <1>0
  <2>3. tokens \subseteq Token
    OBVIOUS
  <2> QED BY <2>2, <2>3 DEF RoleInv, Token
<1>7. TrailInv'
  <2>1. req[r].user \in Users
    BY LoginFacts
  <2>2. \A v \in Users : Rights(account'[v]) = Rights(account[v])
    BY ONLY <1>0 DEF Rights
  <2>3. \A q \in Requests : req'[q].pc = "admin" => q # r /\ req'[q] = req[q]
    OBVIOUS
  <2>4. \A q \in Requests : req[q].pc = "admin" => req[q].user \in Users
    BY DEF RequestInv
  <2> QED BY ZenonT(60), <2>2, <2>3, <2>4 DEF TrailInv
<1> QED BY <1>1, <1>2, <1>3, <1>4, <1>5, <1>6, <1>7

(* The new session is younger than every reset.                            *)
LEMMA OpenSessionPreserves ==
  ASSUME SessionInv, NEW r \in Requests, OpenSession(r)
  PROVE  SessionInv'
<1> USE SessionsAssumption
    DEF SessionInv, TypeOK, OpenSession, tables, history, Working, Idle
<1>1. TypeOK'
  BY DEF Row, Token, Account, Credentials, Request, RequestInv
<1>2. RequestInv'
  BY DEF RequestInv
<1>3. MarkInv'
  BY DEF MarkInv, RequestInv, Live
<1>4. PasswordInv'
  BY DEF PasswordInv, OnlyLegacyUpgradeUndoesReset, RequestInv
<1>5. CounterInv'
  BY DEF CounterInv, LockedOnlyAfterEnoughTries, RequestInv
<1>6. RoleInv'
  BY DEF RoleInv, RequestInv
<1>7. TrailInv'
  BY DEF TrailInv, Rights, RequestInv
<1> QED BY <1>1, <1>2, <1>3, <1>4, <1>5, <1>6, <1>7

(* A refresh reads the session and the account.                            *)
LEMMA StartRefreshPreserves ==
  ASSUME SessionInv, NEW r \in Requests, NEW s \in Sids, StartRefresh(r, s)
  PROVE  SessionInv'
<1> USE SessionsAssumption
    DEF SessionInv, TypeOK, StartRefresh, tables, history, Working, Idle
<1>1. TypeOK'
  <2>1. rows[s] \in Row /\ s \in Nat
    BY DEF Live, Sids
  <2>2. rows[s].user \in Users /\ account[rows[s].user] \in Account
    BY <2>1 DEF Row
  <2>3. req' \in [Requests -> Request]
    BY <2>1, <2>2 DEF Request
  <2> QED BY <2>3
<1>2. RequestInv'
  <2>1. rows[s] \in Row
    BY DEF Live
  <2>2. rows[s].user \in Users /\ account[rows[s].user] \in Account
    BY <2>1 DEF Row
  <2>3. \A q \in Requests : q # r => req'[q] = req[q]
    OBVIOUS
  <2>4. /\ req'[r].pc = "refreshing" /\ req'[r].user = rows[s].user
        /\ req'[r].sid = s /\ req'[r].snap = account[rows[s].user]
    OBVIOUS
  <2> QED BY <2>2, <2>3, <2>4 DEF RequestInv
<1>3. MarkInv'
  BY DEF MarkInv, RequestInv, Live
<1>4. PasswordInv'
  BY DEF PasswordInv, OnlyLegacyUpgradeUndoesReset, RequestInv
<1>5. CounterInv'
  BY DEF CounterInv, LockedOnlyAfterEnoughTries, RequestInv
<1>6. RoleInv'
  BY DEF RoleInv, RequestInv
<1>7. TrailInv'
  BY DEF TrailInv, Rights, RequestInv
<1> QED BY <1>1, <1>2, <1>3, <1>4, <1>5, <1>6, <1>7

(* The new token carries the account's role.                               *)
LEMMA FinishRefreshPreserves ==
  ASSUME SessionInv, NEW r \in Requests, FinishRefresh(r)
  PROVE  SessionInv'
<1> USE SessionsAssumption
    DEF SessionInv, TypeOK, FinishRefresh, tables, history, Working, Idle,
           Touch, RoleNow
<1>1. TypeOK'
  BY DEF Token, Account, Request, RequestInv
<1>2. RequestInv'
  BY DEF RequestInv
<1>3. MarkInv'
  BY DEF MarkInv, RequestInv, Live
<1>4. PasswordInv'
  BY DEF PasswordInv, OnlyLegacyUpgradeUndoesReset, RequestInv
<1>5. CounterInv'
  BY DEF CounterInv, LockedOnlyAfterEnoughTries, RequestInv
<1>6. RoleInv'
  BY DEF RoleInv, RequestInv
<1>7. TrailInv'
  BY DEF TrailInv, Rights, RequestInv
<1> QED BY <1>1, <1>2, <1>3, <1>4, <1>5, <1>6, <1>7

(* A session is revoked.                                                   *)
LEMMA LogoutPreserves ==
  ASSUME SessionInv, NEW s \in Sids, Logout(s)
  PROVE  SessionInv'
<1> USE SessionsAssumption
    DEF SessionInv, TypeOK, Logout, tables, history, Working, Revoke
<1>1. TypeOK'
  BY DEF Row
<1>2. RequestInv'
  BY DEF RequestInv
<1>3. MarkInv'
  BY DEF MarkInv, RequestInv, Live
<1>4. PasswordInv'
  BY DEF PasswordInv, OnlyLegacyUpgradeUndoesReset, RequestInv
<1>5. CounterInv'
  BY DEF CounterInv, LockedOnlyAfterEnoughTries, RequestInv
<1>6. RoleInv'
  BY DEF RoleInv, RequestInv
<1>7. TrailInv'
  BY DEF TrailInv, Rights, RequestInv
<1> QED BY <1>1, <1>2, <1>3, <1>4, <1>5, <1>6, <1>7

(* An administrator takes a snapshot.                                      *)
LEMMA StartAdminPreserves ==
  ASSUME SessionInv, NEW r \in Requests, NEW u \in Users, StartAdmin(r, u)
  PROVE  SessionInv'
<1> USE SessionsAssumption
    DEF SessionInv, TypeOK, StartAdmin, tables, history, Working, Idle
<1>1. TypeOK'
  <2>1. {s \in Sids : Live(s) /\ rows[s].user = u} \subseteq Nat
    BY DEF Sids
  <2>2. account[u] \in Account
    OBVIOUS
  <2>3. req' \in [Requests -> Request]
    BY <2>1, <2>2 DEF Request
  <2> QED BY <2>3
<1>2. RequestInv'
  BY DEF RequestInv
<1>3. MarkInv'
  BY DEF MarkInv, RequestInv, Live
<1>4. PasswordInv'
  BY DEF PasswordInv, OnlyLegacyUpgradeUndoesReset, RequestInv
<1>5. CounterInv'
  BY DEF CounterInv, LockedOnlyAfterEnoughTries, RequestInv
<1>6. RoleInv'
  BY DEF RoleInv, RequestInv
<1>7. TrailInv'
  BY DEF TrailInv, Rights, RequestInv
<1> QED BY <1>1, <1>2, <1>3, <1>4, <1>5, <1>6, <1>7

(* A new account.                                                          *)
LEMMA CreateUserPreserves ==
  ASSUME SessionInv, NEW r \in Requests, NEW role \in Roles, CreateUser(r,
         role)
  PROVE  SessionInv'
<1> USE SessionsAssumption
    DEF SessionInv, TypeOK, CreateUser, tables, history, Working, Administers,
           Audited, Present, Assigned, NewAccount, Idle
<1>1. TypeOK'
  <2>1. req[r].user \in Users /\ req[r].snap \in Account
    BY AdminFacts
  <2>2. account' \in [Users -> Account]
    BY <2>1 DEF Account
  <2>3. rows' \in [Sids -> Row \cup {NoRow}]
    BY DEF Row
  <2>4. req' \in [Requests -> Request] /\ head' \in Nat
    BY AuditedTypes DEF Administers
  <2>5. latest' \in [Users -> Nat] /\ mark' \in [Users -> Nat] /\ roleAt' \in
         [Users -> Nat]
    BY <2>1
  <2> QED BY <2>2, <2>3, <2>4, <2>5
<1>2. RequestInv'
  BY DEF RequestInv
<1>3. MarkInv'
  BY DEF MarkInv, RequestInv, Live
<1>4. PasswordInv'
  BY DEF PasswordInv, OnlyLegacyUpgradeUndoesReset, RequestInv
<1>5. CounterInv'
  BY DEF CounterInv, LockedOnlyAfterEnoughTries, RequestInv
<1>6. RoleInv'
  BY DEF RoleInv, RequestInv
<1>7. TrailInv'
  BY AuditedPreservesTrail
<1> QED BY <1>1, <1>2, <1>3, <1>4, <1>5, <1>6, <1>7

(* A role is written.                                                      *)
LEMMA SetRolePreserves ==
  ASSUME SessionInv, NEW r \in Requests, NEW role \in Roles, SetRole(r, role)
  PROVE  SessionInv'
<1> USE SessionsAssumption
    DEF SessionInv, TypeOK, SetRole, tables, history, Working, Administers,
           Audited, Present, Assigned, Idle
<1>1. TypeOK'
  <2>1. req[r].user \in Users /\ req[r].snap \in Account
    BY AdminFacts
  <2> DEFINE w == req[r].user
  <2> DEFINE b == [account[w] EXCEPT !.role = Assigned(req[r].snap.role, role,
         @)]
  <2>2. account' \in [Users -> Account]
    <3>1. account[w] \in Account
      BY <2>1
    <3>2. b \in Account
      BY <2>1, <3>1 DEF Account
    <3>3. account' = [account EXCEPT ![w] = b]
      OBVIOUS
    <3> HIDE DEF b
    <3> QED BY <2>1, <3>2, <3>3
  <2>3. rows' \in [Sids -> Row \cup {NoRow}]
    BY DEF Row
  <2>4. req' \in [Requests -> Request] /\ head' \in Nat
    BY AuditedTypes DEF Administers
  <2>5. latest' \in [Users -> Nat] /\ mark' \in [Users -> Nat] /\ roleAt' \in
         [Users -> Nat]
    BY <2>1
  <2> QED BY <2>2, <2>3, <2>4, <2>5
<1>2. RequestInv'
  BY DEF RequestInv
<1>3. MarkInv'
  BY DEF MarkInv, RequestInv, Live
<1>4. PasswordInv'
  BY DEF PasswordInv, OnlyLegacyUpgradeUndoesReset, RequestInv
<1>5. CounterInv'
  BY DEF CounterInv, LockedOnlyAfterEnoughTries, RequestInv
<1>6. RoleInv'
  BY DEF RoleInv, RequestInv
<1>7. TrailInv'
  BY AuditedPreservesTrail
<1> QED BY <1>1, <1>2, <1>3, <1>4, <1>5, <1>6, <1>7

(* An account is enabled or disabled.                                      *)
LEMMA SetActivePreserves ==
  ASSUME SessionInv, NEW r \in Requests, NEW active \in BOOLEAN, SetActive(r,
         active)
  PROVE  SessionInv'
<1> USE SessionsAssumption
    DEF SessionInv, TypeOK, SetActive, tables, history, Working, Administers,
           Audited, Present, Assigned, Idle
<1>1. TypeOK'
  <2>1. req[r].user \in Users /\ req[r].snap \in Account
    BY AdminFacts
  <2> DEFINE w == req[r].user
  <2> DEFINE b == Assigned(req[r].snap.active, active, account[w].active)
  <2>2. account' \in [Users -> Account]
    <3>1. b \in BOOLEAN
      BY <2>1 DEF Account
    <3>2. account[w] \in Account
      BY <2>1
    <3>3. account' = [account EXCEPT ![w] = [account[w] EXCEPT !.active = b]]
      OBVIOUS
    <3> HIDE DEF b
    <3>4. [account[w] EXCEPT !.active = b] \in Account
      BY ONLY <3>1, <3>2 DEF Account
    <3> QED BY ONLY <2>1, <3>3, <3>4, TypeOK, OneAccount DEF TypeOK, w
  <2>3. rows' \in [Sids -> Row \cup {NoRow}]
    BY DEF Row
  <2>4. req' \in [Requests -> Request] /\ head' \in Nat
    BY AuditedTypes DEF Administers
  <2>5. latest' \in [Users -> Nat] /\ mark' \in [Users -> Nat] /\ roleAt' \in
         [Users -> Nat]
    BY <2>1
  <2> QED BY <2>2, <2>3, <2>4, <2>5
<1>2. RequestInv'
  BY DEF RequestInv
<1>3. MarkInv'
  BY DEF MarkInv, RequestInv, Live
<1>4. PasswordInv'
  BY DEF PasswordInv, OnlyLegacyUpgradeUndoesReset, RequestInv
<1>5. CounterInv'
  BY DEF CounterInv, LockedOnlyAfterEnoughTries, RequestInv
<1>6. RoleInv'
  BY DEF RoleInv, RequestInv
<1>7. TrailInv'
  BY AuditedPreservesTrail
<1> QED BY <1>1, <1>2, <1>3, <1>4, <1>5, <1>6, <1>7

(* A reset revokes every session there is.                                 *)
LEMMA ResetPasswordPreserves ==
  ASSUME SessionInv, NEW r \in Requests, ResetPassword(r)
  PROVE  SessionInv'
<1> USE SessionsAssumption
    DEF SessionInv, TypeOK, ResetPassword, tables, history, Working,
           Administers, Audited, Present, Assigned, Revoke, RevokeAll, Idle
<1> DEFINE u == req[r].user
           pw == latest[u] + 1
           fails == Assigned(req[r].snap.fails, 0, account[u].fails)
           lockUntil == Assigned(req[r].snap.lockUntil, 0, account[u].lockUntil)
<1>0. \A v \in Users :
        /\ account'[v].fails = IF v = u THEN fails ELSE account[v].fails
        /\ account'[v].lockUntil = IF v = u THEN lockUntil ELSE account[v].lockUntil
        /\ account'[v].pw = IF v = u THEN pw ELSE account[v].pw
        /\ account'[v].legacy = IF v = u THEN FALSE ELSE account[v].legacy
        /\ account'[v].status = account[v].status
        /\ account'[v].role = account[v].role
        /\ account'[v].active = account[v].active
  <2>1. u \in Users /\ account \in [Users -> Account]
    BY AdminFacts
  <2>2. account' = [account EXCEPT ![u] = [account[u] EXCEPT !.pw = pw, !.legacy = FALSE,
                        !.fails = fails, !.lockUntil = lockUntil, !.changedAt = now]]
    OBVIOUS
  <2> HIDE DEF u, pw, fails, lockUntil
  <2> QED BY ONLY <2>1, <2>2, PasswordWritten
<1>1. TypeOK'
  <2>1. req[r].user \in Users /\ req[r].snap \in Account
    BY AdminFacts
  <2> DEFINE w == req[r].user
  <2> DEFINE p == latest[w] + 1
  <2> DEFINE f == Assigned(req[r].snap.fails, 0, account[w].fails)
  <2> DEFINE l == Assigned(req[r].snap.lockUntil, 0, account[w].lockUntil)
  <2>2. account' \in [Users -> Account]
    <3>1. p \in Nat
      BY SMTT(30), <2>1
    <3>2. f \in Nat
      BY <2>1 DEF Account
    <3>3. l \in Nat
      BY <2>1 DEF Account
    <3>4. now \in Nat
      BY <2>1
    <3>5. account[w] \in Account
      BY <2>1
    <3>6. account' = [account EXCEPT ![w] = [account[w] EXCEPT !.pw = p,
           !.legacy = FALSE, !.fails = f,
                                        !.lockUntil = l, !.changedAt = now]]
      OBVIOUS
    <3> HIDE DEF p, f, l
    <3>7. [account[w] EXCEPT !.pw = p, !.legacy = FALSE, !.fails = f,
                                        !.lockUntil = l, !.changedAt = now] \in
                                               Account
      BY ONLY <3>1, <3>2, <3>3, <3>4, <3>5 DEF Account
    <3> QED BY ONLY <2>1, <3>6, <3>7, TypeOK, OneAccount DEF TypeOK, w
  <2>3. rows' \in [Sids -> Row \cup {NoRow}]
    BY DEF Row
  <2>4. req' \in [Requests -> Request] /\ head' \in Nat
    BY AuditedTypes DEF Administers
  <2>5. latest' \in [Users -> Nat] /\ mark' \in [Users -> Nat] /\ roleAt' \in
         [Users -> Nat]
    BY SMTT(30), <2>1
  <2> QED BY <2>2, <2>3, <2>4, <2>5
<1>2. RequestInv'
  BY DEF RequestInv
<1>3. MarkInv'
  BY SMTT(30) DEF MarkInv, RequestInv, Live
<1>4. PasswordInv'
  <2>1. req[r].user \in Users
    BY AdminFacts
  <2>2. \A v \in Users : v # req[r].user => account'[v] = account[v] /\
         latest'[v] = latest[v]
    BY <2>1
  <2>3. latest'[req[r].user] = latest[req[r].user] + 1
    BY <2>1
  <2>4. account'[req[r].user].pw = latest'[req[r].user] /\
         ~account'[req[r].user].legacy
    BY ONLY <1>0, <2>1, <2>3 DEF u, pw
  <2>5. \A q \in Requests : req'[q].pc = "checking" => q # r /\ req'[q] =
         req[q]
    OBVIOUS
  <2> QED BY ZenonT(30), <2>2, <2>4, <2>5 DEF PasswordInv, OnlyLegacyUpgradeUndoesReset
<1>5. CounterInv'
  <2>1. req[r].user \in Users
    BY AdminFacts
  <2>2. \A v \in Users : account'[v].fails = 0 \/ account'[v].fails =
         account[v].fails
    BY ONLY <1>0 DEF u, fails, Assigned
  <2>3. \A v \in Users : \/ account'[v].lockUntil = 0
                         \/ account'[v].lockUntil = account[v].lockUntil
    BY ONLY <1>0 DEF u, lockUntil, Assigned
  <2>4. \A q \in Requests : req'[q].pc = "checking" => req'[q] = req[q]
    OBVIOUS
  <2>5. tries' = tries
    OBVIOUS
  <2> QED BY <2>2, <2>3, <2>4, <2>5, ClearingPreservesCounters
<1>6. RoleInv'
  <2>1. req[r].user \in Users
    BY AdminFacts
  <2>2. \A v \in Users : account'[v].role = account[v].role
    BY ONLY <1>0
  <2>3. tokens \subseteq Token
    OBVIOUS
  <2> QED BY <2>2, <2>3 DEF RoleInv, Token
<1>7. TrailInv'
  BY AuditedPreservesTrail
<1> QED BY <1>1, <1>2, <1>3, <1>4, <1>5, <1>6, <1>7

(* A deletion revokes every session there is.                              *)
LEMMA DeleteUserPreserves ==
  ASSUME SessionInv, NEW r \in Requests, DeleteUser(r)
  PROVE  SessionInv'
<1> USE SessionsAssumption
    DEF SessionInv, TypeOK, DeleteUser, tables, history, Working, Administers,
           Audited, Present, Assigned, Revoke, RevokeAll, Idle
<1>1. TypeOK'
  <2>1. req[r].user \in Users /\ req[r].snap \in Account
    BY AdminFacts
  <2> DEFINE w == req[r].user
  <2>2. account' \in [Users -> Account]
    <3>1. account[w] \in Account
      BY <2>1
    <3>2. account' = [account EXCEPT ![w] = [account[w] EXCEPT !.status =
           "deleted", !.active = FALSE]]
      OBVIOUS
    <3> HIDE DEF w
    <3>3. [account[w] EXCEPT !.status = "deleted", !.active = FALSE] \in
           Account
      BY ONLY <3>1 DEF Account
    <3> QED BY ONLY <2>1, <3>2, <3>3, TypeOK, OneAccount DEF TypeOK, w
  <2>3. rows' \in [Sids -> Row \cup {NoRow}]
    BY DEF Row
  <2>4. req' \in [Requests -> Request] /\ head' \in Nat
    BY AuditedTypes DEF Administers
  <2>5. latest' \in [Users -> Nat] /\ mark' \in [Users -> Nat] /\ roleAt' \in
         [Users -> Nat]
    BY <2>1
  <2> QED BY <2>2, <2>3, <2>4, <2>5
<1>2. RequestInv'
  BY DEF RequestInv
<1>3. MarkInv'
  BY DEF MarkInv, RequestInv, Live
<1>4. PasswordInv'
  BY DEF PasswordInv, OnlyLegacyUpgradeUndoesReset, RequestInv
<1>5. CounterInv'
  BY DEF CounterInv, LockedOnlyAfterEnoughTries, RequestInv
<1>6. RoleInv'
  <2>1. req[r].user \in Users
    BY AdminFacts
  <2>2. \A v \in Users : account'[v].role = account[v].role
    BY <2>1 DEF Account
  <2>3. tokens \subseteq Token
    OBVIOUS
  <2> QED BY <2>2, <2>3 DEF RoleInv, Token
<1>7. TrailInv'
  BY AuditedPreservesTrail
<1> QED BY <1>1, <1>2, <1>3, <1>4, <1>5, <1>6, <1>7

(* One session is revoked.                                                 *)
LEMMA RevokeOnePreserves ==
  ASSUME SessionInv, NEW r \in Requests, NEW s \in Sids, RevokeOne(r, s)
  PROVE  SessionInv'
<1> USE SessionsAssumption
    DEF SessionInv, TypeOK, RevokeOne, tables, history, Working, Administers,
           Audited, Present, Assigned, Revoke, Idle
<1>1. TypeOK'
  <2>1. req[r].user \in Users /\ req[r].snap \in Account
    BY AdminFacts
  <2>2. account' \in [Users -> Account]
    BY <2>1 DEF Account
  <2>3. rows' \in [Sids -> Row \cup {NoRow}]
    BY DEF Row
  <2>4. req' \in [Requests -> Request] /\ head' \in Nat
    BY AuditedTypes DEF Administers
  <2>5. latest' \in [Users -> Nat] /\ mark' \in [Users -> Nat] /\ roleAt' \in
         [Users -> Nat]
    BY <2>1
  <2> QED BY <2>2, <2>3, <2>4, <2>5
<1>2. RequestInv'
  BY DEF RequestInv
<1>3. MarkInv'
  BY DEF MarkInv, RequestInv, Live
<1>4. PasswordInv'
  BY DEF PasswordInv, OnlyLegacyUpgradeUndoesReset, RequestInv
<1>5. CounterInv'
  BY DEF CounterInv, LockedOnlyAfterEnoughTries, RequestInv
<1>6. RoleInv'
  BY DEF RoleInv, RequestInv
<1>7. TrailInv'
  BY AuditedPreservesTrail
<1> QED BY <1>1, <1>2, <1>3, <1>4, <1>5, <1>6, <1>7

(* Several sessions are revoked.                                           *)
LEMMA RevokeOthersPreserves ==
  ASSUME SessionInv, NEW r \in Requests, NEW mine \in Sids \cup {0},
         RevokeOthers(r, mine)
  PROVE  SessionInv'
<1> USE SessionsAssumption
    DEF SessionInv, TypeOK, RevokeOthers, tables, history, Working,
           Administers, Audited, Present, Assigned, Revoke, Idle
<1>1. TypeOK'
  <2>1. req[r].user \in Users /\ req[r].snap \in Account
    BY AdminFacts
  <2>2. account' \in [Users -> Account]
    BY <2>1 DEF Account
  <2>3. rows' \in [Sids -> Row \cup {NoRow}]
    BY ZenonT(60) DEF Row
  <2>4. req' \in [Requests -> Request] /\ head' \in Nat
    BY AuditedTypes DEF Administers
  <2>5. latest' \in [Users -> Nat] /\ mark' \in [Users -> Nat] /\ roleAt' \in
         [Users -> Nat]
    BY <2>1
  <2> QED BY <2>2, <2>3, <2>4, <2>5
<1>2. RequestInv'
  BY DEF RequestInv
<1>3. MarkInv'
  BY DEF MarkInv, RequestInv, Live
<1>4. PasswordInv'
  BY DEF PasswordInv, OnlyLegacyUpgradeUndoesReset, RequestInv
<1>5. CounterInv'
  BY DEF CounterInv, LockedOnlyAfterEnoughTries, RequestInv
<1>6. RoleInv'
  BY DEF RoleInv, RequestInv
<1>7. TrailInv'
  BY AuditedPreservesTrail
<1> QED BY <1>1, <1>2, <1>3, <1>4, <1>5, <1>6, <1>7

(* A request ends without effect.                                          *)
LEMMA GiveUpPreserves ==
  ASSUME SessionInv, NEW r \in Requests, GiveUp(r)
  PROVE  SessionInv'
<1> USE SessionsAssumption
    DEF SessionInv, TypeOK, GiveUp, tables, history, Working, Idle
<1>1. TypeOK'
  BY DEF Account, Row, Request, RequestInv
<1>2. RequestInv'
  BY DEF RequestInv
<1>3. MarkInv'
  BY DEF MarkInv, RequestInv, Live
<1>4. PasswordInv'
  BY DEF PasswordInv, OnlyLegacyUpgradeUndoesReset, RequestInv
<1>5. CounterInv'
  BY DEF CounterInv, LockedOnlyAfterEnoughTries, RequestInv
<1>6. RoleInv'
  BY DEF RoleInv, RequestInv
<1>7. TrailInv'
  BY DEF TrailInv, Rights, RequestInv
<1> QED BY <1>1, <1>2, <1>3, <1>4, <1>5, <1>6, <1>7

(* Time passes; the oldest tokens go.                                      *)
LEMMA TickPreserves ==
  ASSUME SessionInv, Tick
  PROVE  SessionInv'
<1> USE SessionsAssumption
    DEF SessionInv, TypeOK, Tick, tables, history, Working
<1>1. TypeOK'
  OBVIOUS
<1>2. RequestInv'
  BY DEF RequestInv
<1>3. MarkInv'
  BY DEF MarkInv, RequestInv, Live
<1>4. PasswordInv'
  BY DEF PasswordInv, OnlyLegacyUpgradeUndoesReset, RequestInv
<1>5. CounterInv'
  BY DEF CounterInv, LockedOnlyAfterEnoughTries, RequestInv
<1>6. RoleInv'
  <2>1. \A t \in tokens' : t \in tokens /\ now' < t.iat + AccessLife
    OBVIOUS
  <2>2. \A t \in tokens : t.iat \in Nat
    BY DEF Token
  <2> QED BY <2>1, <2>2 DEF RoleInv
<1>7. TrailInv'
  BY DEF TrailInv, Rights, RequestInv
<1> QED BY <1>1, <1>2, <1>3, <1>4, <1>5, <1>6, <1>7

(* Expired rows go.                                                        *)
LEMMA PrunePreserves ==
  ASSUME SessionInv, Prune
  PROVE  SessionInv'
<1> USE SessionsAssumption
    DEF SessionInv, TypeOK, Prune, tables, history, Working, Prunable
<1>1. TypeOK'
  OBVIOUS
<1>2. RequestInv'
  BY DEF RequestInv
<1>3. MarkInv'
  BY DEF MarkInv, RequestInv, Live
<1>4. PasswordInv'
  BY DEF PasswordInv, OnlyLegacyUpgradeUndoesReset, RequestInv
<1>5. CounterInv'
  BY DEF CounterInv, LockedOnlyAfterEnoughTries, RequestInv
<1>6. RoleInv'
  BY DEF RoleInv, RequestInv
<1>7. TrailInv'
  BY DEF TrailInv, Rights, RequestInv
<1> QED BY <1>1, <1>2, <1>3, <1>4, <1>5, <1>6, <1>7

(* Nothing happens.                                                        *)
LEMMA StutterPreserves ==
  ASSUME SessionInv, UNCHANGED vars
  PROVE  SessionInv'
<1> USE DEF SessionInv, vars, tables, history
<1>1. TypeOK' /\ RequestInv' /\ TrailInv'
  BY DEF TypeOK, RequestInv, TrailInv
<1>2. MarkInv' /\ RoleInv'
  BY DEF MarkInv, RoleInv, Live
<1>3. PasswordInv' /\ CounterInv'
  BY DEF PasswordInv, OnlyLegacyUpgradeUndoesReset, CounterInv,
         LockedOnlyAfterEnoughTries
<1> QED BY <1>1, <1>2, <1>3

(* The invariant holds in every reachable state.                           *)
THEOREM SessionInvariance == Spec => []SessionInv
<1>1. SessionInv /\ [Next]_vars => SessionInv'
  <2> SUFFICES ASSUME SessionInv, [Next]_vars PROVE SessionInv'
    OBVIOUS
  <2>1. ASSUME NEW r \in Requests, NEW u \in Users, StartLogin(r, u) PROVE
         SessionInv'
    BY <2>1, StartLoginPreserves
  <2>2. ASSUME NEW r \in Requests, WrongPassword(r) PROVE SessionInv'
    BY <2>2, WrongPasswordPreserves
  <2>3. ASSUME NEW r \in Requests, RightPassword(r) PROVE SessionInv'
    BY <2>3, RightPasswordPreserves
  <2>4. ASSUME NEW r \in Requests, OpenSession(r) PROVE SessionInv'
    BY <2>4, OpenSessionPreserves
  <2>5. ASSUME NEW r \in Requests, NEW s \in Sids, StartRefresh(r, s) PROVE
         SessionInv'
    BY <2>5, StartRefreshPreserves
  <2>6. ASSUME NEW r \in Requests, FinishRefresh(r) PROVE SessionInv'
    BY <2>6, FinishRefreshPreserves
  <2>7. ASSUME NEW r \in Requests, NEW u \in Users, StartAdmin(r, u) PROVE
         SessionInv'
    BY <2>7, StartAdminPreserves
  <2>8. ASSUME NEW r \in Requests, NEW role \in Roles, CreateUser(r, role)
         PROVE SessionInv'
    BY <2>8, CreateUserPreserves
  <2>9. ASSUME NEW r \in Requests, NEW role \in Roles, SetRole(r, role) PROVE
         SessionInv'
    BY <2>9, SetRolePreserves
  <2>10. ASSUME NEW r \in Requests, NEW active \in BOOLEAN, SetActive(r,
         active) PROVE SessionInv'
    BY <2>10, SetActivePreserves
  <2>11. ASSUME NEW r \in Requests, ResetPassword(r) PROVE SessionInv'
    BY <2>11, ResetPasswordPreserves
  <2>12. ASSUME NEW r \in Requests, DeleteUser(r) PROVE SessionInv'
    BY <2>12, DeleteUserPreserves
  <2>13. ASSUME NEW r \in Requests, NEW s \in Sids, RevokeOne(r, s) PROVE
         SessionInv'
    BY <2>13, RevokeOnePreserves
  <2>14. ASSUME NEW r \in Requests, NEW mine \in Sids \cup {0}, RevokeOthers(r,
         mine) PROVE SessionInv'
    BY <2>14, RevokeOthersPreserves
  <2>15. ASSUME NEW r \in Requests, GiveUp(r) PROVE SessionInv'
    BY <2>15, GiveUpPreserves
  <2>16. ASSUME NEW s \in Sids, Logout(s) PROVE SessionInv'
    BY <2>16, LogoutPreserves
  <2>17. CASE Tick
    BY <2>17, TickPreserves
  <2>18. CASE Prune
    BY <2>18, PrunePreserves
  <2>19. CASE UNCHANGED vars
    BY <2>19, StutterPreserves
  <2> QED BY <2>1, <2>2, <2>3, <2>4, <2>5, <2>6, <2>7, <2>8, <2>9, <2>10,
         <2>11, <2>12, <2>13, <2>14, <2>15, <2>16, <2>17, <2>18, <2>19 DEF
         Next, Administer
<1> QED BY <1>1, InitSessionInv, PTL DEF Spec

(* The types of all variables.                                             *)
THEOREM TypeCorrect == Spec => []TypeOK
<1>1. SessionInv => TypeOK
  BY DEF SessionInv
<1> QED BY <1>1, SessionInvariance, PTL

(* Nobody is let in with a session older than the last reset or deletion.  *)
THEOREM AcceptedPostdateResetHolds == Spec => []AcceptedPostdateReset
<1>1. SessionInv => AcceptedPostdateReset
  BY DEF SessionInv, MarkInv, AcceptedPostdateReset, Accepts, Live
<1> QED BY <1>1, SessionInvariance, PTL

(* Only the upgrade of an account's first, legacy hash undoes a reset.     *)
THEOREM OnlyLegacyUpgradeUndoesResetHolds == Spec =>
       []OnlyLegacyUpgradeUndoesReset
<1>1. SessionInv => OnlyLegacyUpgradeUndoesReset
  BY DEF SessionInv, PasswordInv
<1> QED BY <1>1, SessionInvariance, PTL

(* A changed role reaches every request within the life of a token.        *)
THEOREM RoleChangesArriveInTimeHolds == Spec => []RoleChangesArriveInTime
<1>1. SessionInv => RoleChangesArriveInTime
  <2> SUFFICES ASSUME SessionInv, NEW t \in tokens, Accepts(t),
                      t.role # account[t.user].role
               PROVE  now < roleAt[t.user] + AccessLife
    BY DEF RoleChangesArriveInTime
  <2>1. t.iat <= roleAt[t.user] /\ now < t.iat + AccessLife
    BY DEF SessionInv, RoleInv
  <2>2. t.iat \in Nat /\ roleAt[t.user] \in Nat /\ now \in Nat
    BY DEF SessionInv, TypeOK, Token
  <2> QED BY <2>1, <2>2, SessionsAssumption
<1> QED BY <1>1, SessionInvariance, PTL

(* An account is locked only after enough wrong passwords.                 *)
THEOREM LockedOnlyAfterEnoughTriesHolds == Spec => []LockedOnlyAfterEnoughTries
<1>1. SessionInv => LockedOnlyAfterEnoughTries
  BY DEF SessionInv, CounterInv
<1> QED BY <1>1, SessionInvariance, PTL

(* The status, role and activity of an account are changed only by         *)
(* administrators' requests that saw them as they are.                     *)
LEMMA OnlyAdministersChangeRights ==
  ASSUME SessionInv, [Next]_vars, NEW v \in Users, Rights(account'[v]) #
         Rights(account[v])
  PROVE  \E r \in Requests : /\ req[r].pc = "admin" /\ req[r].user = v
                             /\ Rights(req[r].snap) = Rights(account[v])
<1>1. \A r \in Requests : WrongPassword(r) \/ RightPassword(r) =>
          Rights(account'[v]) = Rights(account[v])
  BY SMTT(60) DEF WrongPassword, RightPassword, Rights, SessionInv, TypeOK, Account
<1>2. account' # account
  OBVIOUS
<1>3. PICK r \in Requests : Administer(r)
  BY <1>1, <1>2 DEF Next, vars, tables, StartLogin, StartAdmin, OpenSession,
     StartRefresh, FinishRefresh, GiveUp, Logout, Tick, Prune
<1>4. req[r].pc = "admin" /\ Audited(r)
  BY <1>3 DEF Administer, CreateUser, SetRole, SetActive, ResetPassword,
     DeleteUser, RevokeOne, RevokeOthers, Administers
<1>5. req[r].user = v
  BY <1>3 DEF Administer, CreateUser, SetRole, SetActive, ResetPassword,
     DeleteUser, RevokeOne, RevokeOthers, SessionInv, TypeOK
<1>6. Rights(req[r].snap) = Rights(account[v])
  BY <1>4, <1>5 DEF Audited, SessionInv, TrailInv
<1> QED BY <1>4, <1>5, <1>6

(* The audit trail of rights has no gaps.                                  *)
THEOREM ChangesFollowTheTrailHolds == Spec => ChangesFollowTheTrail
<1>1. SessionInv /\ [Next]_vars =>
        [\A u \in Users :
            Rights(account'[u]) # Rights(account[u]) =>
                \E r \in Requests :
                    /\ req[r].pc = "admin" /\ req[r].user = u
                    /\ Rights(req[r].snap) = Rights(account[u])]_vars
  BY OnlyAdministersChangeRights
<1> QED BY <1>1, SessionInvariance, PTL DEF Spec, ChangesFollowTheTrail

(* No step brings a revoked session back.                                  *)
LEMMA RevokedRowStays ==
  ASSUME SessionInv, Next, NEW s \in Sids, rows[s] # NoRow, rows[s].revoked
  PROVE  rows'[s] = NoRow \/ rows'[s].revoked
<1> USE DEF tables, history
<1>0. rows[s] \in Row /\ s < nextSid
  BY DEF SessionInv, TypeOK, MarkInv
<1>1. ASSUME NEW r \in Requests, OpenSession(r) PROVE rows'[s] = rows[s]
  BY <1>0, <1>1 DEF OpenSession, SessionInv, TypeOK, Sids
<1>2. ASSUME NEW r \in Requests, FinishRefresh(r) PROVE rows'[s] = rows[s]
  BY <1>2 DEF FinishRefresh, Touch, SessionInv, TypeOK
<1>3. ASSUME NEW S, rows' = Revoke(S) PROVE rows'[s].revoked
  BY <1>0, <1>3 DEF Revoke, Row
<1>4. ASSUME NEW r \in Requests, Administer(r) PROVE rows' = rows \/ \E S :
       rows' = Revoke(S)
  BY <1>4 DEF Administer, CreateUser, SetRole, SetActive, ResetPassword,
     DeleteUser, RevokeOne, RevokeOthers, RevokeAll
<1>5. ASSUME NEW q \in Sids, Logout(q) PROVE rows' = Revoke({q})
  BY <1>5 DEF Logout
<1>6. CASE Prune
  BY <1>6 DEF Prune
<1>7. CASE rows' = rows
  BY <1>7
<1> QED
  BY <1>1, <1>2, <1>3, <1>4, <1>5, <1>6, <1>7 DEF Next, StartLogin, StartAdmin,
     WrongPassword, RightPassword, StartRefresh, GiveUp, Tick

(* A revoked session never comes back.                                     *)
THEOREM RevokedStaysRevokedHolds == Spec => RevokedStaysRevoked
<1>1. SessionInv /\ [Next]_vars =>
        [\A s \in Sids : rows[s] # NoRow /\ rows[s].revoked =>
            rows'[s] = NoRow \/ rows'[s].revoked]_vars
  BY RevokedRowStays
<1> QED BY <1>1, SessionInvariance, PTL DEF Spec, RevokedStaysRevoked

-----------------------------------------------------------------------------
(***************************************************************************)
(* The desktop client (ClientSession), for any number of workers, logins   *)
(* and tokens.  Most steps neither open a session nor change the window    *)
(* (Calm), and most of those change one thread's call only (Quiet).        *)
(***************************************************************************)

(* Every other thread's call is left alone.                                *)
Frame(t) ==
    \A q \in Threads \ {t} :
        pc'[q] = pc[q] /\ sent'[q] = sent[q] /\ using'[q] = using[q] /\ effects'[q] = effects[q]

LEMMA Domains ==
  ASSUME ClientInv
  PROVE  /\ DOMAIN pc = Threads /\ DOMAIN sent = Threads /\ DOMAIN using = Threads
         /\ DOMAIN effects = Threads /\ DOMAIN retried = Threads
         /\ DOMAIN minted = SessionIds /\ UI \in Threads /\ Workers \subseteq Threads
<1>1. /\ pc \in [Threads -> Phases] /\ sent \in [Threads -> Tokens \cup {None}]
      /\ effects \in [Threads -> Nat] /\ retried \in [Threads -> BOOLEAN]
      /\ minted \in [SessionIds -> 0 .. MaxToken] /\ using = [t \in Threads |-> using[t]]
  BY Zenon DEF ClientInv, ClientTypeOK, Places
<1>2. DOMAIN using = Threads
  BY Zenon, <1>1
<1> QED BY <1>1, <1>2 DEF Threads

(* What an update of one thread's variable does.                           *)
LEMMA OneChanges ==
  ASSUME NEW f, DOMAIN f = Threads, NEW t \in Threads, NEW v, NEW g, g = [f EXCEPT ![t] = v]
  PROVE  g[t] = v /\ DOMAIN g = Threads /\ \A q \in Threads \ {t} : g[q] = f[q]
OBVIOUS

(* The number of sessions that were opened.                                *)
LEMMA OpenedCount ==
  ASSUME ClientInv
  PROVE  /\ Opened \in Nat /\ Opened <= MaxSession
         /\ Opened > 0 => Opened \in SessionIds
<1>1. MaxSession \in Nat
  BY ClientAssumption
<1>2. IsFiniteSet(SessionIds) /\ Cardinality(SessionIds) = MaxSession
  <2>1. Cardinality(1 .. MaxSession) = IF 1 > MaxSession THEN 0 ELSE MaxSession - 1 + 1
    BY <1>1, FS_Interval
  <2> QED BY <1>1, <2>1, FS_Interval DEF SessionIds
<1>3. {s \in SessionIds : minted[s] > 0} \subseteq SessionIds
  OBVIOUS
<1>4. Opened \in Nat /\ Opened <= MaxSession
  BY <1>2, <1>3, FS_Subset, FS_CardinalityType DEF Opened
<1> QED BY <1>1, <1>4 DEF SessionIds

(* Most steps open no session and no window.                               *)
Calm ==
    /\ Opened' = Opened /\ \A s \in SessionIds : WasOpened(s)' <=> WasOpened(s)
    /\ screen' = screen /\ started' = started
    /\ screen = "login" => own' = own
    /\ live' \subseteq live /\ dead \subseteq dead' /\ stale \subseteq stale'

(* What the server rejects it goes on rejecting, and what was honoured is  *)
(* honoured no longer than it was.                                         *)
LEMMA CalmFacts ==
  ASSUME Calm
  PROVE  /\ \A k : Accepted(k)' => Accepted(k)
         /\ Honoured' => Honoured
<1>1. ASSUME NEW k, k # None, k.sid \in live', k \notin dead' PROVE Accepted(k)
  BY Zenon, <1>1 DEF Calm, Accepted
<1>2. Honoured' => Honoured
  <2>1. dead \subseteq dead' /\ 1 \in live' => 1 \in live
    BY Zenon DEF Calm
  <2>2. dead' = {} => dead = {}
    BY Zenon DEF Calm
  <2> QED BY Zenon, <2>1, <2>2 DEF Calm, Honoured
<1> QED BY Zenon, <1>1, <1>2 DEF Accepted

(* Where tokens only disappear, none becomes good.                         *)
LEMMA NoneBecomesGood ==
  ASSUME Calm, access' = access \/ access' = None, NEW s, ~Good(s)
  PROVE  ~Good(s)'
<1>1. access' = None => ~Accepted(access)'
  BY Zenon DEF Accepted
<1>2. ASSUME access' = access, Accepted(access)', access' \notin stale'
      PROVE  Accepted(access) /\ access \notin stale
  <2>1. ASSUME NEW k, k = access', Accepted(k)' PROVE Accepted(k)
    BY Zenon, <2>1, CalmFacts
  <2>2. Accepted(access)
    BY Zenon, <1>2 DEF Accepted, Calm
  <2> QED BY Zenon, <1>2, <2>2 DEF Calm
<1> QED BY Zenon, <1>1, <1>2 DEF Good

(* A thread that does nothing in a calm step stays right.                  *)
LEMMA Unaffected ==
  ASSUME ClientInv, Calm, NEW q \in Threads,
         pc'[q] = pc[q], sent'[q] = sent[q], using'[q] = using[q], effects'[q] = effects[q],
         pc[q] = "posted" => ~Good(using[q])'
  PROVE  Named(q)' /\ Undone(q)' /\ Needed(q)' /\ Unrefused(q)'
<1>1. pc'[q] = pc[q] /\ sent'[q] = sent[q] /\ using'[q] = using[q] /\ effects'[q] = effects[q]
  OBVIOUS
<1>2. Named(q) /\ Undone(q) /\ Needed(q) /\ Unrefused(q) /\ ClientTypeOK
  BY Zenon DEF ClientInv, CallInv
<1>3. /\ sent[q] \in Tokens \cup {None}
      /\ using[q] \in IF pc[q] = "granted" THEN Tokens ELSE SessionIds \cup {None}
  <2>1. sent \in [Threads -> Tokens \cup {None}]
    BY Zenon, <1>2 DEF ClientTypeOK
  <2> QED BY Zenon, <1>2, <2>1 DEF ClientTypeOK
<1>4. \A k \in Tokens : k.sid \in SessionIds
  BY DEF Tokens
<1>5. Named(q)'
  <2>1. sent[q] # None => sent[q].sid \in SessionIds
    BY Zenon, <1>3, <1>4
  <2>2. pc[q] = "posted" => using[q] # None /\ using[q] \in SessionIds
    <3>1. "posted" # "granted"
      OBVIOUS
    <3> QED BY Zenon, <1>2, <1>3, <3>1 DEF Named
  <2>3. pc[q] = "granted" => using[q].sid \in SessionIds
    BY Zenon, <1>3, <1>4
  <2>4. /\ sent[q] # None => WasOpened(sent[q].sid)'
        /\ pc[q] = "posted" => using[q] # None /\ WasOpened(using[q])'
        /\ pc[q] = "granted" => WasOpened(using[q].sid)'
    <3>1. Named(q)
      BY Zenon, <1>2
    <3>2. ASSUME NEW s \in SessionIds, WasOpened(s) PROVE minted'[s] > 0
      BY Zenon, <3>2 DEF Calm, WasOpened
    <3> QED BY Zenon, <3>1, <3>2, <2>1, <2>2, <2>3, <1>1 DEF Named, WasOpened
  <2> QED BY Zenon, <1>1, <2>4 DEF Named, WasOpened
<1>6. Undone(q)'
  <2>1. ASSUME NEW k, k = sent[q], ~Accepted(k)
        PROVE  ~(sent'[q] # None /\ sent'[q].sid \in live' /\ sent'[q] \notin dead')
    BY Zenon, <1>1, <2>1 DEF Calm, Accepted
  <2> QED BY Zenon, <1>2, <1>1, <2>1 DEF Undone, Calm, Accepted
<1>7. Needed(q)'
  BY Zenon, <1>1 DEF Needed, Good
<1>8. Unrefused(q)'
  BY Zenon, <1>2, <1>1, CalmFacts DEF Unrefused, Calm
<1> QED BY Zenon, <1>5, <1>6, <1>7, <1>8

(* A calm step of t preserves the invariant if it leaves t's call right.   *)
LEMMA CalmStep ==
  ASSUME ClientInv, ClientTypeOK', Places', NEW t \in Threads, Frame(t), Calm,
         access' # None => access' = access \/ WasOpened(access'.sid),
         refresh' = refresh \/ refresh' = None,
         Honoured /\ screen = "dashboard" => refresh' = refresh /\ access' # None,
         \A q \in Threads \ {t} : pc[q] = "posted" => ~Good(using[q])',
         Named(t)', Undone(t)', Needed(t)', Unrefused(t)',
         screen = "login" /\ pc'[t] = "posted" => pc[t] = "posted" /\ using'[t] = using[t],
         t = UI /\ screen = "login" /\ pc'[t] \in {"answered", "set"}
            => pc[t] \in {"answered", "set"},
         t = UI /\ pc'[t] = "set" => screen = "login",
         screen = "login" /\ Opened = 1 /\ pc'[UI] = "set" => access' # None,
         ~started => t = UI
  PROVE  ClientInv'
<1>1. /\ OpenedInv /\ LoginInv /\ HonouredInv /\ ClientTypeOK
      /\ \A q \in Threads : Named(q) /\ Undone(q) /\ Needed(q) /\ Unrefused(q)
  BY Zenon DEF ClientInv, CallInv
<1>2. /\ access \in Tokens \cup {None} /\ refresh \in SessionIds \cup {None}
      /\ access' \in Tokens \cup {None} /\ live \subseteq SessionIds
  BY Zenon, <1>1 DEF ClientTypeOK
<1>3. \A k \in Tokens : k.sid \in SessionIds
  BY DEF Tokens
<1>4. OpenedInv'
  <2>1. \A s \in SessionIds : WasOpened(s)' <=> s <= Opened'
    BY Zenon, <1>1 DEF Calm, OpenedInv
  <2>2. \A s \in live' : WasOpened(s)'
    BY Zenon, <1>1, <1>2 DEF Calm, OpenedInv
  <2>3. access' # None => minted'[access'.sid] > 0
    <3>1. access' # None => access'.sid \in SessionIds
      BY Zenon, <1>2, <1>3
    <3>2. access' # None => WasOpened(access'.sid)
      BY Zenon, <1>1 DEF OpenedInv
    <3>3. ASSUME NEW s \in SessionIds, WasOpened(s) PROVE minted'[s] > 0
      BY Zenon, <3>3 DEF Calm, WasOpened
    <3> QED BY Zenon, <3>1, <3>2, <3>3
  <2>4. refresh' # None => minted'[refresh'] > 0
    <3>1. ASSUME NEW s \in SessionIds, WasOpened(s) PROVE minted'[s] > 0
      BY Zenon, <3>1 DEF Calm, WasOpened
    <3> QED BY Zenon, <1>1, <1>2, <3>1 DEF OpenedInv
  <2> QED BY Zenon, <2>1, <2>2, <2>3, <2>4 DEF OpenedInv, WasOpened
<1>5. HonouredInv'
  BY Zenon, <1>1, CalmFacts DEF HonouredInv, Calm
<1>6. LoginInv'
  <2>1. screen' = "login" => refresh' = None
    BY Zenon, <1>1 DEF LoginInv, Calm
  <2>2. pc'[UI] = "set" => screen' = "login"
    BY Zenon, <1>1, Domains DEF LoginInv, Calm, Frame
  <2>3. started' => Opened' > 0
    BY Zenon, <1>1 DEF LoginInv, Calm
  <2>4. ~started' => screen' = "login" /\ \A q \in Workers : pc'[q] = "idle"
    BY Zenon, <1>1, ClientAssumption, Domains DEF LoginInv, Calm, Frame
  <2>5. ASSUME screen' = "login", pc'[UI] \in {"answered", "set"}
        PROVE  /\ own' = Opened' /\ Opened' > 0
               /\ started' => Opened' > 1
               /\ \A q \in Threads : pc'[q] = "posted" => using'[q] # own'
               /\ pc'[UI] = "set" /\ Opened' = 1 => access' # None
    <3>1. screen = "login" /\ pc[UI] \in {"answered", "set"} /\ own' = own
      BY Zenon, <2>5, Domains DEF Calm, Frame
    <3>2. \A q \in Threads : pc'[q] = "posted" => pc[q] = "posted" /\ using'[q] = using[q]
      BY Zenon, <3>1 DEF Frame
    <3> QED BY Zenon, <1>1, <3>1, <3>2 DEF LoginInv, Calm
  <2> QED BY Zenon, <2>1, <2>2, <2>3, <2>4, <2>5 DEF LoginInv
<1>7. ASSUME NEW q \in Threads \ {t}
      PROVE  Named(q)' /\ Undone(q)' /\ Needed(q)' /\ Unrefused(q)'
  BY Zenon, Unaffected DEF Frame
<1>8. CallInv'
  BY Zenon, <1>7 DEF CallInv
<1> QED BY Zenon, <1>4, <1>5, <1>6, <1>8 DEF ClientInv

-----------------------------------------------------------------------------
(* Types.                                                                  *)

(* The types of what belongs to the threads.                               *)
ThreadTypes ==
    /\ pc \in [Threads -> Phases]
    /\ sent \in [Threads -> Tokens \cup {None}]
    /\ retried \in [Threads -> BOOLEAN] /\ effects \in [Threads -> Nat]
    /\ using = [t \in Threads |-> using[t]]

Busy == {"posted", "granted", "denied"}

LEMMA TypeParts ==
  ASSUME ClientInv
  PROVE  /\ ThreadTypes
         /\ access \in Tokens \cup {None} /\ refresh \in SessionIds \cup {None}
         /\ \A t \in Threads :
               /\ pc[t] \in Phases /\ sent[t] \in Tokens \cup {None} /\ effects[t] \in Nat
               /\ using[t] \in IF pc[t] = "granted" THEN Tokens ELSE SessionIds \cup {None}
               /\ pc[t] \in Busy <=> lock = t
         /\ live \subseteq SessionIds /\ minted \in [SessionIds -> 0 .. MaxToken]
         /\ None \notin Tokens /\ None \notin SessionIds
<1>1. ClientTypeOK /\ Places
  BY DEF ClientInv
<1>2. ThreadTypes
  BY Zenon, <1>1 DEF ClientTypeOK, Places, ThreadTypes
<1>3. \A t \in Threads : pc[t] \in Phases /\ sent[t] \in Tokens \cup {None} /\ effects[t] \in Nat
  BY Zenon, <1>2 DEF ThreadTypes
<1> QED BY Zenon, <1>1, <1>2, <1>3, ClientAssumption DEF ClientTypeOK, Busy

(* The updates of one thread keep these types.                             *)
LEMMA OneTyped ==
  ASSUME ThreadTypes, NEW t \in Threads
  PROVE  /\ \A x \in Phases : [pc EXCEPT ![t] = x] \in [Threads -> Phases]
         /\ \A x \in Tokens \cup {None} : [sent EXCEPT ![t] = x] \in [Threads -> Tokens \cup {None}]
         /\ \A x \in BOOLEAN : [retried EXCEPT ![t] = x] \in [Threads -> BOOLEAN]
         /\ \A n \in Nat : [effects EXCEPT ![t] = n] \in [Threads -> Nat]
         /\ \A x : [using EXCEPT ![t] = x] = [q \in Threads |-> [using EXCEPT ![t] = x][q]]
<1>1. /\ \A x \in Phases : [pc EXCEPT ![t] = x] \in [Threads -> Phases]
      /\ \A n \in Nat : [effects EXCEPT ![t] = n] \in [Threads -> Nat]
  BY DEF ThreadTypes
<1>2. \A x \in Tokens \cup {None} : [sent EXCEPT ![t] = x] \in [Threads -> Tokens \cup {None}]
  BY Zenon DEF ThreadTypes
<1>3. \A x \in BOOLEAN : [retried EXCEPT ![t] = x] \in [Threads -> BOOLEAN]
  BY Zenon DEF ThreadTypes
<1>4. \A x : [using EXCEPT ![t] = x] = [q \in Threads |-> [using EXCEPT ![t] = x][q]]
  <2>1. DOMAIN using = Threads
    BY Zenon DEF ThreadTypes
  <2>2. ASSUME NEW f, DOMAIN f = Threads, NEW x
        PROVE  [f EXCEPT ![t] = x] = [q \in Threads |-> [f EXCEPT ![t] = x][q]]
    BY <2>2
  <2> QED BY Zenon, <2>1, <2>2
<1> QED BY Zenon, <1>1, <1>2, <1>3, <1>4

LEMMA TypesStep ==
  ASSUME ClientInv, NEW t \in Threads, Frame(t), ThreadTypes',
         access' \in Tokens \cup {None}, refresh' \in SessionIds \cup {None},
         screen' \in {"login", "dashboard"}, own' \in SessionIds \cup {None},
         started' \in BOOLEAN, live' \subseteq SessionIds,
         minted' \in [SessionIds -> 0 .. MaxToken], (stale \cup dead \subseteq Issued)',
         using'[t] \in IF pc'[t] = "granted" THEN Tokens ELSE SessionIds \cup {None},
         \/ lock' = lock /\ (pc'[t] \in Busy <=> pc[t] \in Busy)
         \/ lock = None /\ lock' = t /\ pc'[t] \in Busy
         \/ lock = t /\ lock' = None /\ pc'[t] \notin Busy
  PROVE  ClientTypeOK' /\ Places'
<1>1. ClientTypeOK
  BY DEF ClientInv
<1>2. \A q \in Threads : using'[q] \in IF pc'[q] = "granted" THEN Tokens ELSE SessionIds \cup {None}
  BY Zenon, TypeParts DEF Frame
<1>3. lock' \in Threads \cup {None} /\ None \notin Threads
  BY Zenon, <1>1, ClientAssumption DEF ClientTypeOK
<1>4. \A q \in Threads : pc'[q] \in Busy <=> lock' = q
  BY ZenonT(30), <1>3, TypeParts DEF Frame
<1>5. Places'
  BY Zenon DEF ThreadTypes, Places
<1> QED BY Zenon, <1>2, <1>3, <1>4, <1>5 DEF ThreadTypes, ClientTypeOK, Busy

-----------------------------------------------------------------------------
(* Steps of one call that change nothing else.                             *)

Quiet == UNCHANGED <<globals, window, server>>

LEMMA QuietFacts ==
  ASSUME ClientInv, Quiet
  PROVE  /\ Calm
         /\ access' = access /\ refresh' = refresh /\ lock' = lock
         /\ screen' = screen /\ own' = own /\ started' = started
         /\ live' = live /\ minted' = minted /\ stale' = stale /\ dead' = dead
<1>1. /\ access' = access /\ refresh' = refresh /\ lock' = lock
      /\ screen' = screen /\ own' = own /\ started' = started
      /\ live' = live /\ minted' = minted /\ stale' = stale /\ dead' = dead
  BY DEF Quiet, globals, window, server
<1> QED BY Zenon, <1>1 DEF Calm, Opened, WasOpened

LEMMA QuietStep ==
  ASSUME ClientInv, NEW t \in Threads, Frame(t), ThreadTypes', Quiet,
         pc[t] \notin Busy, pc'[t] \notin Busy, pc'[t] # "set",
         using'[t] = using[t] \/ using'[t] = None,
         sent'[t] = sent[t] \/ sent'[t] = access \/ sent'[t] = None,
         effects'[t] \in {0, 1},
         pc'[t] \notin {"idle", "answered"} => effects'[t] = 0,
         pc'[t] \in {"idle", "ready"} => sent'[t] = None,
         pc'[t] \in {"rejected", "renewing"} /\ sent'[t] # None =>
            (t = UI /\ screen = "login") \/ ~Accepted(sent'[t]),
         Honoured /\ screen = "dashboard" =>
            /\ pc'[t] \notin {"rejected", "unrenewed"}
            /\ pc'[t] = "asked" => sent'[t] # None
            /\ pc'[t] = "renewing" => sent'[t] = None,
         t = UI /\ screen = "login" => pc'[t] # "answered",
         ~started => t = UI
  PROVE  ClientInv'
<1>1. /\ Calm
      /\ access' = access /\ refresh' = refresh /\ lock' = lock
      /\ screen' = screen /\ own' = own /\ started' = started
      /\ live' = live /\ minted' = minted /\ stale' = stale /\ dead' = dead
  BY Zenon, QuietFacts
<1>2. ClientTypeOK' /\ Places'
  <2>1. using'[t] \in IF pc'[t] = "granted" THEN Tokens ELSE SessionIds \cup {None}
    BY Zenon, TypeParts DEF Busy
  <2>2. (stale \cup dead \subseteq Issued)'
    BY Zenon, <1>1 DEF ClientInv, ClientTypeOK, Issued
  <2> QED BY Zenon, <1>1, <2>1, <2>2, TypesStep DEF ClientInv, ClientTypeOK
<1>3. Named(t)' /\ Needed(t)' /\ Unrefused(t)'
  <2>1. sent'[t] # None => minted'[sent'[t].sid] > 0
    BY Zenon, <1>1 DEF ClientInv, CallInv, Named, OpenedInv, WasOpened
  <2>2. pc'[t] # "posted" /\ pc'[t] # "granted" /\ pc'[t] # "denied"
    BY DEF Busy
  <2>3. Honoured' <=> Honoured
    BY Zenon, <1>1 DEF Honoured, Calm
  <2> QED BY Zenon, <1>1, <2>1, <2>2, <2>3 DEF Named, Needed, Unrefused, WasOpened
<1>4. Undone(t)'
  <2>1. pc'[t] # "posted"
    BY DEF Busy
  <2> QED BY Zenon, <1>1, <2>1 DEF Undone, Accepted
<1>5. \A q \in Threads \ {t} : pc[q] = "posted" => ~Good(using[q])'
  BY Zenon, <1>1 DEF ClientInv, CallInv, Needed, Good, Accepted, Frame
<1>6. "posted" \in Busy
  BY DEF Busy
<1>7. ClientTypeOK /\ LoginInv /\ HonouredInv
  BY DEF ClientInv
<1>8. screen = "login" /\ Opened = 1 /\ pc'[UI] = "set" => access' # None
  BY Zenon, <1>1, <1>7, Domains DEF LoginInv, Frame
<1>9. Honoured /\ screen = "dashboard" => refresh' = refresh /\ access' # None
  BY Zenon, <1>1, <1>7 DEF HonouredInv
<1> QED BY Zenon, <1>1, <1>2, <1>3, <1>4, <1>5, <1>6, <1>8, <1>9, CalmStep

(* What the parts of a step do to the thread that takes it.                *)
LEMMA Moves ==
  ASSUME ClientInv, NEW t \in Threads, NEW from, NEW to \in Phases, Move(t, from, to),
         UNCHANGED <<sent, retried, using, effects>>
  PROVE  /\ Frame(t) /\ ThreadTypes' /\ pc[t] = from /\ pc'[t] = to
         /\ sent'[t] = sent[t] /\ using'[t] = using[t] /\ effects'[t] = effects[t]
<1>1. ThreadTypes'
  BY Zenon, TypeParts, OneTyped DEF Move, ThreadTypes
<1> QED BY <1>1, Domains DEF Move, Frame

LEMMA Ends ==
  ASSUME ClientInv, NEW t \in Threads, NEW from, Done(t, from)
  PROVE  /\ Frame(t) /\ ThreadTypes' /\ pc[t] = from /\ pc'[t] = "idle"
         /\ sent'[t] = None /\ using'[t] = None /\ effects'[t] = effects[t]
<1>1. "idle" \in Phases /\ FALSE \in BOOLEAN
  BY DEF Phases
<1>2. ThreadTypes'
  BY Zenon, <1>1, TypeParts, OneTyped DEF Done, Forget, Move, ThreadTypes
<1> QED BY <1>2, Domains DEF Done, Forget, Move, Frame

LEMMA Begins ==
  ASSUME ClientInv, NEW t \in Threads, Begin(t), UNCHANGED <<sent, retried, using>>
  PROVE  /\ Frame(t) /\ ThreadTypes' /\ pc'[t] \in {"ready", "renewing"}
         /\ sent'[t] = sent[t] /\ using'[t] = using[t] /\ effects'[t] = 0
<1>1. (IF access \in stale THEN "renewing" ELSE "ready") \in Phases /\ 0 \in Nat
  BY DEF Phases
<1>2. ThreadTypes'
  BY Zenon, <1>1, TypeParts, OneTyped DEF Begin, ThreadTypes
<1> QED BY <1>2, Domains DEF Begin, Frame

LEMMA RenewedFacts ==
  ASSUME ClientInv, NEW t \in Threads, Renewed(t)
  PROVE  /\ Frame(t) /\ ThreadTypes' /\ pc'[t] = "ready"
         /\ sent'[t] = None /\ using'[t] = None /\ effects'[t] = effects[t]
<1>1. "ready" \in Phases /\ (sent[t] # None) \in BOOLEAN
  BY Zenon DEF Phases
<1>2. ThreadTypes'
  BY Zenon, <1>1, TypeParts, OneTyped DEF Renewed, ThreadTypes
<1> QED BY <1>2, Domains DEF Renewed, Frame

LEMMA NotRenewedFacts ==
  ASSUME ClientInv, NEW t \in Threads, NotRenewed(t)
  PROVE  /\ Frame(t) /\ ThreadTypes'
         /\ sent'[t] = sent[t] /\ using'[t] = None /\ effects'[t] = effects[t]
         /\ sent[t] # None => pc'[t] = "unrenewed"
         /\ sent[t] = None =>
               pc'[t] = IF t = UI /\ screen = "dashboard" THEN "answered" ELSE "idle"
<1>1. /\ "unrenewed" \in Phases /\ FALSE \in BOOLEAN
      /\ (IF t = UI /\ screen = "dashboard" THEN "answered" ELSE "idle") \in Phases
  BY DEF Phases
<1>2. ThreadTypes'
  <2> DEFINE to == IF t = UI /\ screen = "dashboard" THEN "answered" ELSE "idle"
  <2>1. CASE sent[t] = None
    <3>1. /\ sent' = [sent EXCEPT ![t] = None] /\ retried' = [retried EXCEPT ![t] = FALSE]
          /\ using' = [using EXCEPT ![t] = None] /\ pc' = [pc EXCEPT ![t] = to]
          /\ effects' = effects
      BY <2>1 DEF NotRenewed, Forget
    <3> HIDE DEF to
    <3>2. to \in Phases
      BY Zenon, <1>1 DEF to
    <3> QED BY Zenon, <1>1, <3>1, <3>2, TypeParts, OneTyped DEF ThreadTypes
  <2>2. CASE sent[t] # None
    <3>1. /\ sent' = sent /\ retried' = retried /\ effects' = effects
          /\ using' = [using EXCEPT ![t] = None] /\ pc' = [pc EXCEPT ![t] = "unrenewed"]
      BY <2>2 DEF NotRenewed
    <3> QED BY Zenon, <1>1, <3>1, TypeParts, OneTyped DEF ThreadTypes
  <2> QED BY Zenon, <2>1, <2>2
<1> QED BY <1>2, Domains DEF NotRenewed, Forget, Frame

LEMMA CallFacts ==
  ASSUME ClientInv, NEW t \in Threads
  PROVE  /\ Named(t) /\ Undone(t) /\ Needed(t) /\ Unrefused(t) /\ effects[t] \in {0, 1}
         /\ pc[t] # "idle" /\ ~started => t = UI
<1>1. Named(t) /\ Undone(t) /\ Needed(t) /\ Unrefused(t)
  BY Zenon DEF ClientInv, CallInv
<1>2. ~started => \A q \in Workers : pc[q] = "idle"
  BY Zenon DEF ClientInv, LoginInv
<1> QED BY <1>1, <1>2 DEF Undone, Threads

(* While the first session is honoured, so is every token of a session.    *)
LEMMA FirstAccepted ==
  ASSUME ClientInv, Honoured, NEW k \in Tokens, WasOpened(k.sid)
  PROVE  Accepted(k)
<1>1. k.sid \in SessionIds /\ k # None
  BY ClientAssumption DEF Tokens
<1>2. k.sid <= 1
  BY Zenon, <1>1 DEF ClientInv, OpenedInv, Honoured
<1>3. k.sid = 1
  BY <1>1, <1>2, ClientAssumption DEF SessionIds
<1> QED BY Zenon, <1>1, <1>3 DEF Honoured, Accepted

-----------------------------------------------------------------------------
(* The steps of api_request.                                               *)

LEMMA CallPreserves ==
  ASSUME ClientInv, NEW t \in Workers, Call(t)
  PROVE  ClientInv'
<1>1. t \in Threads /\ started /\ pc[t] = "idle" /\ Quiet
  BY DEF Call, Threads, Quiet
<1>2. /\ Frame(t) /\ ThreadTypes' /\ pc'[t] \in {"ready", "renewing"}
      /\ sent'[t] = sent[t] /\ using'[t] = using[t] /\ effects'[t] = 0
  BY <1>1, Begins DEF Call
<1>3. sent[t] = None
  BY Zenon, <1>1, CallFacts DEF Undone
<1> QED BY <1>1, <1>2, <1>3, QuietStep DEF Busy

LEMMA SendPreserves ==
  ASSUME ClientInv, NEW t \in Threads, Send(t)
  PROVE  ClientInv'
<1>1. /\ Frame(t) /\ ThreadTypes' /\ pc[t] = "ready" /\ pc'[t] = "asked"
      /\ sent'[t] = access /\ using'[t] = using[t] /\ effects'[t] = effects[t]
  <2>1. ThreadTypes'
    <3>1. "asked" \in Phases
      BY DEF Phases
    <3> QED BY Zenon, <3>1, TypeParts, OneTyped DEF Send, Move, ThreadTypes
  <2> QED BY <2>1, Domains DEF Send, Move, Frame
<1>2. Quiet
  BY DEF Send, Quiet
<1>3. effects[t] = 0
  BY <1>1, CallFacts DEF Undone
<1>4. Honoured /\ screen = "dashboard" => access # None
  BY DEF ClientInv, HonouredInv
<1>5. ~started => t = UI
  BY <1>1, CallFacts
<1> QED BY <1>1, <1>2, <1>3, <1>4, <1>5, QuietStep DEF Busy

LEMMA AcceptPreserves ==
  ASSUME ClientInv, NEW t \in Workers, Accept(t)
  PROVE  ClientInv'
<1>1. t \in Threads /\ t # UI /\ Quiet
  BY ClientAssumption DEF Accept, Threads, Quiet
<1>2. /\ Frame(t) /\ ThreadTypes' /\ pc[t] = "asked" /\ pc'[t] = "answered"
      /\ sent'[t] = sent[t] /\ using'[t] = using[t] /\ effects'[t] = effects[t] + 1
  <2>1. ThreadTypes'
    <3>1. "answered" \in Phases /\ effects[t] + 1 \in Nat
      BY <1>1, TypeParts DEF Phases
    <3> QED BY Zenon, <1>1, <3>1, TypeParts, OneTyped DEF Accept, Move, ThreadTypes
  <2> QED BY <1>1, <2>1, Domains DEF Accept, Move, Frame
<1>3. effects[t] = 0 /\ started
  BY <1>1, <1>2, CallFacts DEF Undone
<1> QED BY <1>1, <1>2, <1>3, QuietStep DEF Busy

LEMMA RejectPreserves ==
  ASSUME ClientInv, NEW t \in Workers, Reject(t)
  PROVE  ClientInv'
<1>1. t \in Threads /\ t # UI /\ Quiet /\ ~Accepted(sent[t])
  BY ClientAssumption DEF Reject, Threads, Quiet
<1>2. /\ Frame(t) /\ ThreadTypes' /\ pc[t] = "asked" /\ pc'[t] = "rejected"
      /\ sent'[t] = sent[t] /\ using'[t] = using[t] /\ effects'[t] = effects[t]
  <2>1. "rejected" \in Phases
    BY DEF Phases
  <2> QED BY Zenon, <1>1, <2>1, Moves DEF Reject
<1>3. effects[t] = 0 /\ started
  BY <1>1, <1>2, CallFacts DEF Undone
<1>4. ~(Honoured /\ screen = "dashboard")
  <2> SUFFICES ASSUME Honoured, screen = "dashboard" PROVE FALSE
    OBVIOUS
  <2>1. sent[t] # None /\ WasOpened(sent[t].sid)
    BY Zenon, <1>1, <1>2, CallFacts DEF Unrefused, Named
  <2>2. sent[t] \in Tokens
    BY Zenon, <1>1, <2>1, TypeParts
  <2> QED BY Zenon, <1>1, <2>1, <2>2, FirstAccepted
<1> QED BY <1>1, <1>2, <1>3, <1>4, QuietStep DEF Busy

LEMMA DonePreserves ==
  ASSUME ClientInv, NEW t \in Threads, NEW from \in {"asked", "answered"}, Done(t, from), Quiet
  PROVE  ClientInv'
<1>1. /\ Frame(t) /\ ThreadTypes' /\ pc[t] = from /\ pc'[t] = "idle"
      /\ sent'[t] = None /\ using'[t] = None /\ effects'[t] = effects[t]
  BY Zenon, Ends
<1>2. effects[t] \in {0, 1} /\ (~started => t = UI)
  BY <1>1, CallFacts
<1> QED BY <1>1, <1>2, QuietStep DEF Busy

LEMMA EndPreserves ==
  ASSUME ClientInv, (\E t \in Workers : Finish(t) \/ Lose(t)) \/ LoseLogin
  PROVE  ClientInv'
<1>1. \E t \in Threads, from \in {"asked", "answered"} : Done(t, from) /\ Quiet
  <2>1. \A t \in Threads : \A from : Done(t, from) /\ UNCHANGED globals => Quiet
    BY DEF Done, Quiet
  <2> QED BY Zenon, <2>1, Domains DEF Finish, Lose, LoseLogin
<1> QED BY Zenon, <1>1, DonePreserves

LEMMA RenewPreserves ==
  ASSUME ClientInv, NEW t \in Threads, Renew(t)
  PROVE  ClientInv'
<1>1. /\ Frame(t) /\ ThreadTypes' /\ pc[t] = "rejected" /\ pc'[t] = "renewing"
      /\ sent'[t] = sent[t] /\ using'[t] = using[t] /\ effects'[t] = effects[t]
  <2>1. "renewing" \in Phases
    BY DEF Phases
  <2> QED BY Zenon, <2>1, Moves DEF Renew
<1>2. Quiet
  BY DEF Renew, Quiet
<1>3. /\ effects[t] = 0
      /\ sent[t] # None => (t = UI /\ screen = "login") \/ ~Accepted(sent[t])
      /\ ~(Honoured /\ screen = "dashboard")
  BY <1>1, CallFacts DEF Undone, Unrefused
<1>4. ~started => t = UI
  BY <1>1, CallFacts
<1> QED BY <1>1, <1>2, <1>3, <1>4, QuietStep DEF Busy

LEMMA LogInPreserves ==
  ASSUME ClientInv, LogIn
  PROVE  ClientInv'
<1>1. UI \in Threads /\ screen = "login" /\ pc[UI] = "idle" /\ Quiet
  BY Domains DEF LogIn, Quiet
<1>2. /\ Frame(UI) /\ ThreadTypes' /\ pc'[UI] \in {"ready", "renewing"}
      /\ sent'[UI] = sent[UI] /\ using'[UI] = using[UI] /\ effects'[UI] = 0
  BY <1>1, Begins DEF LogIn
<1>3. sent[UI] = None
  BY Zenon, <1>1, CallFacts DEF Undone
<1> QED BY <1>1, <1>2, <1>3, QuietStep DEF Busy

LEMMA RejectLoginPreserves ==
  ASSUME ClientInv, RejectLogin
  PROVE  ClientInv'
<1>1. UI \in Threads /\ screen = "login" /\ Quiet
  BY Domains DEF RejectLogin, Quiet
<1>2. /\ Frame(UI) /\ ThreadTypes' /\ pc[UI] = "asked" /\ pc'[UI] = "rejected"
      /\ sent'[UI] = sent[UI] /\ using'[UI] = using[UI] /\ effects'[UI] = effects[UI]
  <2>1. "rejected" \in Phases
    BY DEF Phases
  <2> QED BY Zenon, <1>1, <2>1, Moves DEF RejectLogin
<1>3. effects[UI] = 0
  BY <1>1, <1>2, CallFacts DEF Undone
<1> QED BY <1>1, <1>2, <1>3, QuietStep DEF Busy

-----------------------------------------------------------------------------
(* The steps of _try_refresh.                                              *)

LEMMA SkipPreserves ==
  ASSUME ClientInv, NEW t \in Threads, SkipRefresh(t)
  PROVE  ClientInv'
<1>1. /\ Frame(t) /\ ThreadTypes' /\ pc'[t] = "ready"
      /\ sent'[t] = None /\ using'[t] = None /\ effects'[t] = effects[t]
  BY Zenon, RenewedFacts DEF SkipRefresh
<1>2. pc[t] = "renewing" /\ Quiet
  BY DEF SkipRefresh, WithLock, Renewed, Quiet
<1>3. effects[t] = 0 /\ (~started => t = UI)
  BY <1>2, CallFacts DEF Undone
<1> QED BY <1>1, <1>2, <1>3, QuietStep DEF Busy

LEMMA CannotPreserves ==
  ASSUME ClientInv, NEW t \in Threads, CannotRefresh(t)
  PROVE  ClientInv'
<1>1. /\ Frame(t) /\ ThreadTypes'
      /\ sent'[t] = sent[t] /\ using'[t] = None /\ effects'[t] = effects[t]
      /\ sent[t] # None => pc'[t] = "unrenewed"
      /\ sent[t] = None =>
            pc'[t] = IF t = UI /\ screen = "dashboard" THEN "answered" ELSE "idle"
  BY Zenon, NotRenewedFacts DEF CannotRefresh
<1>2. pc[t] = "renewing" /\ Quiet
  BY DEF CannotRefresh, WithLock, NotRenewed, Quiet
<1>3. effects[t] = 0 /\ (~started => t = UI)
  BY <1>2, CallFacts DEF Undone
<1>4. Honoured /\ screen = "dashboard" => sent[t] = None
  BY <1>2, CallFacts DEF Unrefused
<1>5. CASE sent[t] = None
  BY <1>1, <1>2, <1>3, <1>5, QuietStep DEF Busy
<1>6. CASE sent[t] # None
  BY <1>1, <1>2, <1>3, <1>4, <1>6, QuietStep DEF Busy
<1> QED BY <1>5, <1>6

(* Where no token changes, no refresh becomes needless.                    *)
LEMMA OthersNeeded ==
  ASSUME ClientInv, Calm, access' = access \/ access' = None, NEW t \in Threads, Frame(t)
  PROVE  \A q \in Threads \ {t} : pc[q] = "posted" => ~Good(using[q])'
<1> SUFFICES ASSUME NEW q \in Threads \ {t}, pc[q] = "posted" PROVE ~Good(using[q])'
  OBVIOUS
<1>1. ~Good(using[q]) /\ using'[q] = using[q]
  BY Zenon DEF ClientInv, CallInv, Needed, Frame
<1>2. ASSUME NEW s, s = using[q], s = using'[q] PROVE ~Good(using[q])'
  <2>1. ~Good(s)
    BY Zenon, <1>1, <1>2
  <2>2. ~Good(s)'
    BY Zenon, <2>1, NoneBecomesGood
  <2> QED BY Zenon, <1>2, <2>2 DEF Good
<1> QED BY Zenon, <1>1, <1>2

LEMMA PostPreserves ==
  ASSUME ClientInv, NEW t \in Threads, PostRefresh(t)
  PROVE  ClientInv'
<1>1. /\ Frame(t) /\ ThreadTypes' /\ pc'[t] = "posted"
      /\ sent'[t] = sent[t] /\ using'[t] = refresh /\ effects'[t] = effects[t]
  <2>1. ThreadTypes'
    <3>1. "posted" \in Phases
      BY DEF Phases
    <3> QED BY Zenon, <3>1, TypeParts, OneTyped DEF PostRefresh, ThreadTypes
  <2> QED BY <2>1, Domains DEF PostRefresh, Frame
<1>2. /\ pc[t] = "renewing" /\ lock = None /\ lock' = t /\ refresh # None
      /\ access' = access /\ refresh' = refresh
      /\ screen' = screen /\ own' = own /\ started' = started
      /\ live' = live /\ minted' = minted /\ stale' = stale /\ dead' = dead
  BY DEF PostRefresh, WithLock, window, server
<1>3. Calm
  BY Zenon, <1>2 DEF Calm, Opened, WasOpened
<1>4. screen = "dashboard"
  <2>1. screen # "login" /\ screen \in {"login", "dashboard"}
    BY Zenon, <1>2 DEF ClientInv, ClientTypeOK, LoginInv
  <2> QED BY <2>1
<1>5. ClientTypeOK' /\ Places'
  <2>1. using'[t] \in IF pc'[t] = "granted" THEN Tokens ELSE SessionIds \cup {None}
    BY <1>1, TypeParts
  <2>2. (stale \cup dead \subseteq Issued)'
    BY Zenon, <1>2 DEF ClientInv, ClientTypeOK, Issued
  <2>3. pc'[t] \in Busy
    BY <1>1 DEF Busy
  <2> QED BY Zenon, <1>1, <1>2, <2>1, <2>2, <2>3, TypesStep DEF ClientInv, ClientTypeOK
<1>6. /\ Named(t) /\ Undone(t) /\ Unrefused(t) /\ (~started => t = UI)
      /\ effects[t] = 0 /\ (Honoured /\ screen = "dashboard" => sent[t] = None)
  BY <1>2, CallFacts DEF Undone, Unrefused
<1>7. sent[t] # None => ~Accepted(sent[t])
  <2>1. "login" # "dashboard" /\ "renewing" \in {"rejected", "renewing", "posted"}
    OBVIOUS
  <2> QED BY Zenon, <1>2, <1>4, <1>6, <2>1 DEF Undone
<1>8. ~Good(refresh)
  <2>1. CASE sent[t] # None
    <3>1. access = sent[t]
      BY Zenon, <2>1 DEF PostRefresh, AlreadyRenewed
    <3> QED BY Zenon, <1>7, <2>1, <3>1 DEF Good
  <2>2. CASE sent[t] = None
    <3>1. access = None \/ access \in stale
      BY Zenon, <2>2 DEF PostRefresh, AlreadyRenewed
    <3> QED BY Zenon, <3>1 DEF Good, Accepted
  <2> QED BY Zenon, <2>1, <2>2
<1>9. Named(t)' /\ Needed(t)' /\ Unrefused(t)' /\ Undone(t)'
  <2>1. Named(t)'
    <3>1. WasOpened(refresh)
      BY Zenon, <1>2 DEF ClientInv, OpenedInv
    <3> QED BY <1>1, <1>2, <1>6, <3>1 DEF Named, WasOpened
  <2>2. Needed(t)'
    BY Zenon, <1>1, <1>2, <1>8 DEF Needed, Good, Accepted
  <2>3. Unrefused(t)'
    <3>1. Honoured' <=> Honoured
      BY Zenon, <1>2, <1>3 DEF Honoured, Calm
    <3>2. Honoured /\ screen = "dashboard" => refresh = 1
      BY Zenon DEF ClientInv, HonouredInv
    <3> QED BY <1>1, <1>2, <1>6, <3>1, <3>2 DEF Unrefused
  <2>4. Undone(t)'
    <3>1. sent[t] # None => ~Accepted(sent'[t])
      BY Zenon, <1>1, <1>7
    <3>2. \A k : Accepted(k) <=> (k # None /\ k.sid \in live' /\ k \notin dead')
      BY Zenon, <1>2 DEF Accepted
    <3> QED BY <1>1, <1>6, <3>1, <3>2 DEF Undone, Accepted
  <2> QED BY <2>1, <2>2, <2>3, <2>4
<1>10. \A q \in Threads \ {t} : pc[q] = "posted" => ~Good(using[q])'
  BY Zenon, <1>1, <1>2, <1>3, OthersNeeded
<1>11. Honoured /\ screen = "dashboard" => refresh' = refresh /\ access' # None
  BY Zenon, <1>2 DEF ClientInv, HonouredInv
<1>12. pc'[UI] = "set" => screen = "login"
  BY Zenon, <1>1, Domains DEF ClientInv, LoginInv, Frame
<1> QED BY <1>1, <1>2, <1>3, <1>4, <1>5, <1>6, <1>9, <1>10, <1>11, <1>12, CalmStep

(* A thread that keeps or gives back the lock, or clears the tokens when   *)
(* that loses nothing that is honoured.                                    *)
LEMMA LockStep ==
  ASSUME ClientInv, NEW t \in Threads, Frame(t), ThreadTypes', Calm,
         \/ access' = access /\ refresh' = refresh
         \/ access' = None /\ refresh' = None /\ ~(Honoured /\ screen = "dashboard"),
         own' \in SessionIds \cup {None},
         minted' \in [SessionIds -> 0 .. MaxToken], (stale \cup dead \subseteq Issued)',
         using'[t] \in IF pc'[t] = "granted" THEN Tokens ELSE SessionIds \cup {None},
         \/ lock' = lock /\ (pc'[t] \in Busy <=> pc[t] \in Busy)
         \/ lock = t /\ lock' = None /\ pc'[t] \notin Busy,
         Named(t)', Undone(t)', Unrefused(t)',
         pc'[t] # "posted", pc'[t] # "set",
         t = UI /\ screen = "login" => pc'[t] # "answered",
         ~started => t = UI
  PROVE  ClientInv'
<1>1. /\ access \in Tokens \cup {None} /\ refresh \in SessionIds \cup {None}
      /\ live \subseteq SessionIds /\ OpenedInv /\ LoginInv /\ HonouredInv
      /\ screen \in {"login", "dashboard"} /\ started \in BOOLEAN
  BY Zenon DEF ClientInv, ClientTypeOK
<1>2. ClientTypeOK' /\ Places'
  <2>1. /\ access' \in Tokens \cup {None} /\ refresh' \in SessionIds \cup {None}
        /\ screen' \in {"login", "dashboard"} /\ started' \in BOOLEAN
        /\ live' \subseteq SessionIds
    BY Zenon, <1>1 DEF Calm
  <2> QED BY Zenon, <2>1, TypesStep
<1>3. \A q \in Threads \ {t} : pc[q] = "posted" => ~Good(using[q])'
  BY Zenon, OthersNeeded
<1>4. Needed(t)'
  BY Zenon DEF Needed
<1>5. Honoured /\ screen = "dashboard" => refresh' = refresh /\ access' # None
  BY Zenon, <1>1 DEF HonouredInv
<1>6. screen = "login" /\ Opened = 1 /\ pc'[UI] = "set" => access' # None
  <2> SUFFICES ASSUME screen = "login", Opened = 1, pc'[UI] = "set" PROVE access' # None
    OBVIOUS
  <2>1. t # UI /\ pc[UI] = "set"
    BY Zenon, Domains DEF Frame
  <2>2. started => Opened > 1
    BY Zenon, <1>1, <2>1 DEF LoginInv
  <2>3. ~started => t = UI
    OBVIOUS
  <2> QED BY <2>1, <2>2, <2>3
<1>7. t = UI /\ pc'[t] = "set" => screen = "login"
  BY Zenon
<1>8. t = UI /\ screen = "login" /\ pc'[t] \in {"answered", "set"} => pc[t] \in {"answered", "set"}
  BY Zenon
<1>9. screen = "login" /\ pc'[t] = "posted" => pc[t] = "posted" /\ using'[t] = using[t]
  BY Zenon
<1> QED BY Zenon, <1>2, <1>3, <1>4, <1>5, <1>6, <1>7, <1>8, <1>9, CalmStep

(* Types that a step keeps by leaving the variables alone.                 *)
LEMMA SameTypes ==
  ASSUME ClientInv
  PROVE  /\ own' = own => own' \in SessionIds \cup {None}
         /\ minted' = minted => minted' \in [SessionIds -> 0 .. MaxToken]
         /\ UNCHANGED <<minted, stale, dead>> => (stale \cup dead \subseteq Issued)'
         /\ UNCHANGED <<minted, screen, own, started, live, stale, dead>> => Calm
<1>1. ClientTypeOK
  BY DEF ClientInv
<1>2. UNCHANGED <<minted, stale, dead>> => (stale \cup dead \subseteq Issued)'
  BY <1>1 DEF ClientTypeOK, Issued
<1>3. UNCHANGED <<minted, screen, own, started, live, stale, dead>> => Calm
  BY DEF Calm, Opened, WasOpened
<1> QED BY Zenon, <1>1, <1>2, <1>3 DEF ClientTypeOK

LEMMA DenyPreserves ==
  ASSUME ClientInv, NEW t \in Threads, Deny(t)
  PROVE  ClientInv'
<1>1. /\ Frame(t) /\ ThreadTypes' /\ pc[t] = "posted" /\ pc'[t] = "denied"
      /\ sent'[t] = sent[t] /\ using'[t] = using[t] /\ effects'[t] = effects[t]
  <2>1. "denied" \in Phases
    BY DEF Phases
  <2> QED BY Zenon, <2>1, Moves DEF Deny
<1>2. /\ UNCHANGED <<minted, screen, own, started, live, stale, dead>>
      /\ access' = access /\ refresh' = refresh /\ lock' = lock
  BY DEF Deny, globals, window, server
<1>3. Calm /\ own' \in SessionIds \cup {None} /\ minted' \in [SessionIds -> 0 .. MaxToken]
      /\ (stale \cup dead \subseteq Issued)'
  <2>1. UNCHANGED <<minted, stale, dead>> /\ own' = own /\ minted' = minted
    BY <1>2
  <2> QED BY Zenon, <1>2, <2>1, SameTypes
<1>4. /\ Named(t) /\ Undone(t) /\ Unrefused(t) /\ effects[t] = 0 /\ (~started => t = UI)
  BY <1>1, CallFacts DEF Undone
<1>5. /\ using'[t] \in IF pc'[t] = "granted" THEN Tokens ELSE SessionIds \cup {None}
      /\ pc[t] \in Busy /\ pc'[t] \in Busy
  BY <1>1, TypeParts DEF Busy
<1>6. ~(Honoured /\ screen = "dashboard")
  BY <1>1, <1>4 DEF Deny, Unrefused, Honoured
<1>7. Named(t)' /\ Undone(t)' /\ Unrefused(t)'
  <2>1. Named(t)'
    BY <1>1, <1>2, <1>4 DEF Named, WasOpened
  <2>2. Undone(t)'
    BY <1>1, <1>4 DEF Undone
  <2>3. Unrefused(t)'
    BY Zenon, <1>2, <1>3, <1>6, CalmFacts DEF Unrefused, Calm
  <2> QED BY <2>1, <2>2, <2>3
<1> QED BY <1>1, <1>2, <1>3, <1>4, <1>5, <1>7, LockStep

LEMMA FailsPreserves ==
  ASSUME ClientInv, NEW t \in Threads, RefreshFails(t) \/ RefreshDenied(t)
  PROVE  ClientInv'
<1>1. /\ Frame(t) /\ ThreadTypes'
      /\ sent'[t] = sent[t] /\ using'[t] = None /\ effects'[t] = effects[t]
      /\ sent[t] # None => pc'[t] = "unrenewed"
      /\ sent[t] = None =>
            pc'[t] = IF t = UI /\ screen = "dashboard" THEN "answered" ELSE "idle"
  BY Zenon, NotRenewedFacts DEF RefreshFails, RefreshDenied
<1>2. /\ UNCHANGED <<minted, screen, own, started, live, stale, dead>> /\ lock' = None
      /\ pc[t] \in Busy
  BY DEF RefreshFails, RefreshDenied, NotRenewed, window, server, Busy
<1>3. Calm /\ own' \in SessionIds \cup {None} /\ minted' \in [SessionIds -> 0 .. MaxToken]
      /\ (stale \cup dead \subseteq Issued)'
  <2>1. UNCHANGED <<minted, stale, dead>> /\ own' = own /\ minted' = minted
    BY <1>2
  <2> QED BY Zenon, <1>2, <2>1, SameTypes
<1>4. /\ Named(t) /\ Undone(t) /\ Unrefused(t) /\ effects[t] = 0 /\ (~started => t = UI)
      /\ lock = t
  BY <1>2, CallFacts, TypeParts DEF Undone, Busy
<1>5. \/ access' = access /\ refresh' = refresh
      \/ access' = None /\ refresh' = None /\ ~(Honoured /\ screen = "dashboard")
  <2>1. CASE RefreshFails(t)
    BY <2>1 DEF RefreshFails
  <2>2. CASE RefreshDenied(t)
    BY <2>2, <1>4 DEF RefreshDenied, ClearTokens, Unrefused
  <2> QED BY <2>1, <2>2
<1>6. Honoured /\ screen = "dashboard" => sent[t] = None
  BY <1>2, <1>4 DEF Unrefused, Busy
<1>7. pc'[t] \in {"unrenewed", "answered", "idle"}
  BY <1>1
<1>8. Named(t)' /\ Undone(t)' /\ Unrefused(t)'
  <2>1. Named(t)'
    BY <1>1, <1>2, <1>4, <1>7 DEF Named, WasOpened
  <2>2. Undone(t)'
    <3>1. CASE sent[t] = None
      BY <1>1, <1>4, <3>1 DEF Undone
    <3>2. CASE sent[t] # None
      BY <1>1, <1>4, <3>2 DEF Undone
    <3> QED BY <3>1, <3>2
  <2>3. Unrefused(t)'
    <3>1. Honoured' /\ screen' = "dashboard" => Honoured /\ screen = "dashboard"
      BY Zenon, <1>3, CalmFacts DEF Calm
    <3>2. CASE Honoured /\ screen = "dashboard"
      <4>1. pc'[t] \in {"answered", "idle"}
        BY <1>1, <1>6, <3>2
      <4> QED BY <4>1 DEF Unrefused
    <3> QED BY Zenon, <3>1, <3>2 DEF Unrefused
  <2> QED BY <2>1, <2>2, <2>3
<1>9. t = UI /\ screen = "login" => pc'[t] # "answered"
  BY <1>1
<1>10. using'[t] \in IF pc'[t] = "granted" THEN Tokens ELSE SessionIds \cup {None}
  BY <1>1, <1>7
<1>11. pc'[t] \notin Busy /\ pc'[t] # "posted" /\ pc'[t] # "set"
  BY <1>7 DEF Busy
<1> QED BY Zenon, <1>1, <1>2, <1>3, <1>4, <1>5, <1>8, <1>9, <1>10, <1>11, LockStep

LEMMA GiveUpCallPreserves ==
  ASSUME ClientInv, NEW t \in Threads, GiveUpCall(t)
  PROVE  ClientInv'
<1>1. /\ Frame(t) /\ ThreadTypes' /\ pc[t] \in {"rejected", "unrenewed"} /\ pc'[t] = "idle"
      /\ sent'[t] = None /\ using'[t] = None /\ effects'[t] = effects[t]
  BY Ends DEF GiveUpCall
<1>2. /\ UNCHANGED <<minted, screen, own, started, live, stale, dead>> /\ lock' = lock
      /\ access' = None /\ refresh' = None
  BY DEF GiveUpCall, Done, ClearTokens, window, server
<1>3. Calm /\ own' \in SessionIds \cup {None} /\ minted' \in [SessionIds -> 0 .. MaxToken]
      /\ (stale \cup dead \subseteq Issued)'
  <2>1. UNCHANGED <<minted, stale, dead>> /\ own' = own /\ minted' = minted
    BY <1>2
  <2> QED BY Zenon, <1>2, <2>1, SameTypes
<1>4. effects[t] \in {0, 1} /\ Unrefused(t) /\ (~started => t = UI)
  BY <1>1, CallFacts
<1>5. ~(Honoured /\ screen = "dashboard")
  BY <1>1, <1>4 DEF Unrefused
<1>6. Named(t)' /\ Undone(t)' /\ Unrefused(t)'
  BY <1>1, <1>4 DEF Named, Undone, Unrefused
<1>7. pc[t] \notin Busy /\ pc'[t] \notin Busy
  BY <1>1 DEF Busy
<1> QED BY <1>1, <1>2, <1>3, <1>4, <1>5, <1>6, <1>7, LockStep

LEMMA GrantPreserves ==
  ASSUME ClientInv, NEW t \in Threads, Grant(t)
  PROVE  ClientInv'
<1> DEFINE s == using[t]
<1>1. /\ Frame(t) /\ pc[t] = "posted" /\ pc'[t] = "granted"
      /\ sent'[t] = sent[t] /\ using'[t] = NextToken(s) /\ effects'[t] = effects[t]
  BY Domains DEF Grant, Move, Frame
<1>2. ThreadTypes'
  <2>1. "granted" \in Phases
    BY DEF Phases
  <2> QED BY Zenon, <2>1, TypeParts, OneTyped DEF Grant, Move, ThreadTypes
<1>3. s \in SessionIds /\ minted[s] \in Nat /\ minted[s] > 0 /\ minted[s] < MaxToken
  <2>1. s # None /\ WasOpened(s)
    BY Zenon, <1>1, CallFacts DEF Named
  <2>2. s \in SessionIds \cup {None} /\ minted \in [SessionIds -> 0 .. MaxToken]
    <3>1. using[t] \in IF pc[t] = "granted" THEN Tokens ELSE SessionIds \cup {None}
      BY Zenon, TypeParts
    <3> QED BY <1>1, <3>1, TypeParts
  <2> QED BY <2>1, <2>2 DEF Grant, WasOpened
<1>4. NextToken(s) \in Tokens /\ NextToken(s).sid = s
  BY <1>3, ClientAssumption DEF NextToken, Tokens
<1>5. /\ minted' = [minted EXCEPT ![s] = @ + 1]
      /\ access' = access /\ refresh' = refresh /\ lock' = lock
      /\ screen' = screen /\ own' = own /\ started' = started
      /\ live' = live /\ stale' = stale /\ dead' = dead
  BY DEF Grant, globals, window
<1> HIDE DEF s
<1>6. /\ minted' \in [SessionIds -> 0 .. MaxToken]
      /\ \A r \in SessionIds : minted[r] <= minted'[r] /\ (minted'[r] > 0 <=> minted[r] > 0)
  <2>1. minted \in [SessionIds -> 0 .. MaxToken]
    BY TypeParts
  <2>2. minted' \in [SessionIds -> 0 .. MaxToken]
    BY <1>3, <1>5, <2>1, ClientAssumption
  <2>3. ASSUME NEW r \in SessionIds
        PROVE  minted[r] <= minted'[r] /\ (minted'[r] > 0 <=> minted[r] > 0)
    <3>1. minted[r] \in Nat
      BY <2>1
    <3>2. minted'[r] = IF r = s THEN minted[r] + 1 ELSE minted[r]
      BY <1>5, <2>1
    <3> QED BY <1>3, <3>1, <3>2
  <2> QED BY <2>2, <2>3
<1>7. Calm
  <2>1. Opened' = Opened
    <3>1. {r \in SessionIds : minted'[r] > 0} = {r \in SessionIds : minted[r] > 0}
      BY Zenon, <1>6
    <3> QED BY Zenon, <3>1 DEF Opened
  <2> QED BY Zenon, <1>5, <1>6, <2>1 DEF Calm, WasOpened
<1>8. (stale \cup dead \subseteq Issued)'
  <2>1. stale \cup dead \subseteq Issued
    BY DEF ClientInv, ClientTypeOK
  <2>2. Issued \subseteq Issued'
    <3> SUFFICES ASSUME NEW k \in Tokens, k.n <= minted[k.sid] PROVE k.n <= minted'[k.sid]
      BY DEF Issued
    <3>1. k.n \in Nat /\ k.sid \in SessionIds
      BY ClientAssumption DEF Tokens
    <3>2. minted[k.sid] \in Nat /\ minted'[k.sid] \in Nat /\ minted[k.sid] <= minted'[k.sid]
      BY <1>6, <3>1, TypeParts
    <3> QED BY <3>1, <3>2
  <2> QED BY Zenon, <1>5, <2>1, <2>2
<1>9. /\ Named(t) /\ Undone(t) /\ Unrefused(t) /\ effects[t] = 0 /\ (~started => t = UI)
      /\ own \in SessionIds \cup {None} /\ sent[t] \in Tokens \cup {None}
  <2>1. own \in SessionIds \cup {None}
    BY DEF ClientInv, ClientTypeOK
  <2> QED BY <1>1, <2>1, CallFacts, TypeParts DEF Undone
<1>10. Named(t)' /\ Undone(t)' /\ Unrefused(t)'
  <2>1. Named(t)'
    <3>1. sent[t] # None => sent[t].sid \in SessionIds
      BY <1>9 DEF Tokens
    <3> QED BY <1>1, <1>3, <1>4, <1>6, <1>9, <3>1 DEF Named, WasOpened
  <2>2. Undone(t)'
    BY <1>1, <1>9 DEF Undone
  <2>3. Unrefused(t)'
    <3>1. Honoured' /\ screen' = "dashboard" => Honoured /\ screen = "dashboard"
      BY Zenon, <1>5, <1>7, CalmFacts
    <3> QED BY <1>1, <1>9, <3>1 DEF Unrefused
  <2> QED BY <2>1, <2>2, <2>3
<1>11. pc[t] \in Busy /\ pc'[t] \in Busy
  BY <1>1 DEF Busy
<1> QED BY <1>1, <1>2, <1>4, <1>5, <1>6, <1>7, <1>8, <1>9, <1>10, <1>11, LockStep

-----------------------------------------------------------------------------
(* The other steps that open no session and no window.                     *)

(* The thread that stores a token is the only one that refreshes.          *)
LEMMA StorePreserves ==
  ASSUME ClientInv, NEW t \in Threads, StoreToken(t)
  PROVE  ClientInv'
<1>1. /\ Frame(t) /\ ThreadTypes' /\ pc'[t] = "ready"
      /\ sent'[t] = None /\ using'[t] = None /\ effects'[t] = effects[t]
  BY Zenon, RenewedFacts DEF StoreToken
<1>2. /\ UNCHANGED <<minted, screen, own, started, live, stale, dead>> /\ lock' = None
      /\ pc[t] = "granted" /\ access' = using[t] /\ refresh' = refresh
  BY DEF StoreToken, Renewed, window, server
<1>3. Calm /\ own' \in SessionIds \cup {None} /\ minted' \in [SessionIds -> 0 .. MaxToken]
      /\ (stale \cup dead \subseteq Issued)'
  <2>1. UNCHANGED <<minted, stale, dead>> /\ own' = own /\ minted' = minted
    BY <1>2
  <2> QED BY Zenon, <1>2, <2>1, SameTypes
<1>4. /\ Named(t) /\ effects[t] = 0 /\ (~started => t = UI) /\ lock = t
      /\ using[t] \in Tokens /\ using[t] # None
  BY <1>2, CallFacts, TypeParts DEF Undone, Busy
<1>5. \A q \in Threads \ {t} : pc[q] # "posted"
  BY <1>4, TypeParts DEF Busy
<1>6. ClientTypeOK' /\ Places'
  <2>1. pc'[t] \notin Busy
    BY <1>1 DEF Busy
  <2>2. using'[t] \in IF pc'[t] = "granted" THEN Tokens ELSE SessionIds \cup {None}
    BY <1>1
  <2>3. /\ access' \in Tokens \cup {None} /\ refresh' \in SessionIds \cup {None}
        /\ screen' \in {"login", "dashboard"} /\ started' \in BOOLEAN
        /\ live' \subseteq SessionIds
    BY <1>2, <1>4 DEF ClientInv, ClientTypeOK
  <2> QED BY Zenon, <1>1, <1>2, <1>3, <1>4, <2>1, <2>2, <2>3, TypesStep
<1>7. WasOpened(access'.sid)
  BY Zenon, <1>2, <1>4 DEF Named
<1>8. Named(t)' /\ Undone(t)' /\ Needed(t)' /\ Unrefused(t)'
  BY <1>1, <1>4 DEF Named, Undone, Needed, Unrefused
<1>9. Honoured /\ screen = "dashboard" => refresh' = refresh /\ access' # None
  BY <1>2, <1>4
<1>10. /\ screen = "login" /\ pc'[t] = "posted" => pc[t] = "posted" /\ using'[t] = using[t]
       /\ t = UI /\ screen = "login" /\ pc'[t] \in {"answered", "set"}
             => pc[t] \in {"answered", "set"}
       /\ t = UI /\ pc'[t] = "set" => screen = "login"
       /\ screen = "login" /\ Opened = 1 /\ pc'[UI] = "set" => access' # None
  BY <1>1, <1>2, <1>4
<1> QED BY Zenon, <1>1, <1>2, <1>3, <1>4, <1>5, <1>6, <1>7, <1>8, <1>9, <1>10, CalmStep

(* The logout's call begins, or is skipped.                                *)
LEMMA LogOutPreserves ==
  ASSUME ClientInv, LogOut
  PROVE  ClientInv'
<1>1. /\ UI \in Threads /\ screen = "dashboard" /\ pc[UI] = "idle" /\ own' = refresh
      /\ UNCHANGED <<sent, retried, using>>
      /\ access' = access /\ refresh' = refresh /\ lock' = lock /\ screen' = screen
      /\ started' = started /\ live' = live /\ minted' = minted
      /\ stale' = stale /\ dead' = dead
  BY Domains DEF LogOut, globals, server
<1>2. /\ Frame(UI) /\ ThreadTypes' /\ pc'[UI] \in {"ready", "renewing", "answered"}
      /\ sent'[UI] = sent[UI] /\ using'[UI] = using[UI]
      /\ effects'[UI] \in {0, 1}
      /\ pc'[UI] # "answered" => effects'[UI] = 0
  <2>1. CASE refresh # None
    <3>1. Begin(UI)
      BY <2>1 DEF LogOut
    <3> QED BY <1>1, <3>1, Begins
  <2>2. CASE refresh = None
    <3>1. pc' = [pc EXCEPT ![UI] = "answered"] /\ UNCHANGED effects
      BY <2>2 DEF LogOut
    <3>2. "answered" \in Phases
      BY DEF Phases
    <3>3. ThreadTypes'
      BY Zenon, <1>1, <3>1, <3>2, TypeParts, OneTyped DEF ThreadTypes
    <3>4. effects[UI] \in {0, 1}
      BY <1>1, CallFacts
    <3> QED BY <1>1, <3>1, <3>3, <3>4, Domains DEF Frame
  <2> QED BY <2>1, <2>2
<1>3. Calm
  <2>1. "login" # "dashboard"
    OBVIOUS
  <2> QED BY Zenon, <1>1, <2>1 DEF Calm, Opened, WasOpened
<1>4. /\ own' \in SessionIds \cup {None} /\ minted' \in [SessionIds -> 0 .. MaxToken]
      /\ (stale \cup dead \subseteq Issued)'
  <2>1. UNCHANGED <<minted, stale, dead>>
    BY <1>1
  <2> QED BY Zenon, <1>1, <2>1, TypeParts, SameTypes
<1>5. Named(UI) /\ sent[UI] = None /\ ~(pc[UI] \in Busy) /\ ~(pc'[UI] \in Busy)
  BY <1>1, <1>2, CallFacts DEF Undone, Busy
<1>6. Named(UI)' /\ Undone(UI)' /\ Unrefused(UI)'
  BY <1>1, <1>2, <1>5 DEF Named, Undone, Unrefused
<1>7. using'[UI] \in IF pc'[UI] = "granted" THEN Tokens ELSE SessionIds \cup {None}
  BY <1>1, <1>2, TypeParts
<1>8. screen = "login" => pc'[UI] # "answered"
  BY <1>1
<1> QED BY <1>1, <1>2, <1>3, <1>4, <1>5, <1>6, <1>7, <1>8, LockStep

(* The logout closes its session.                                          *)
LEMMA ClosePreserves ==
  ASSUME ClientInv, CloseSession
  PROVE  ClientInv'
<1>1. /\ screen = "dashboard" /\ UI \in Threads
      /\ UNCHANGED <<sent, retried, using, effects>>
      /\ access' = access /\ refresh' = refresh /\ lock' = lock /\ screen' = screen
      /\ own' = own /\ started' = started /\ live' = live \ {own} /\ minted' = minted
      /\ stale' = stale /\ dead' = dead
  BY Domains DEF CloseSession, globals, window
<1>2. /\ Frame(UI) /\ ThreadTypes' /\ pc[UI] = "asked" /\ pc'[UI] = "answered"
      /\ sent'[UI] = sent[UI] /\ using'[UI] = using[UI] /\ effects'[UI] = effects[UI]
  <2>1. "answered" \in Phases
    BY DEF Phases
  <2> QED BY Zenon, <1>1, <2>1, Moves DEF CloseSession
<1>3. Calm
  BY <1>1 DEF Calm, Opened, WasOpened
<1>4. /\ own' \in SessionIds \cup {None} /\ minted' \in [SessionIds -> 0 .. MaxToken]
      /\ (stale \cup dead \subseteq Issued)'
  <2>1. UNCHANGED <<minted, stale, dead>>
    BY <1>1
  <2> QED BY Zenon, <1>1, <2>1, SameTypes
<1>5. Named(UI) /\ effects[UI] \in {0, 1} /\ ~(pc[UI] \in Busy) /\ ~(pc'[UI] \in Busy)
  BY <1>1, <1>2, CallFacts DEF Busy
<1>6. Named(UI)' /\ Undone(UI)' /\ Unrefused(UI)'
  BY <1>1, <1>2, <1>5 DEF Named, Undone, Unrefused, WasOpened
<1>7. using'[UI] \in IF pc'[UI] = "granted" THEN Tokens ELSE SessionIds \cup {None}
  BY <1>1, <1>2, TypeParts
<1>8. screen = "login" => pc'[UI] # "answered"
  BY <1>1
<1> QED BY <1>1, <1>2, <1>3, <1>4, <1>5, <1>6, <1>7, <1>8, LockStep

(* The login's token; no refresh under way is of its session.              *)
LEMMA SetPreserves ==
  ASSUME ClientInv, SetToken
  PROVE  ClientInv'
<1>1. /\ screen = "login" /\ UI \in Threads
      /\ UNCHANGED <<sent, retried, using, effects>>
      /\ access' = [sid |-> own, n |-> 1] /\ refresh' = refresh /\ lock' = lock
      /\ screen' = screen /\ own' = own /\ started' = started /\ live' = live
      /\ minted' = minted /\ stale' = stale /\ dead' = dead
  BY Domains DEF SetToken, window, server
<1>2. /\ Frame(UI) /\ ThreadTypes' /\ pc[UI] = "answered" /\ pc'[UI] = "set"
      /\ sent'[UI] = sent[UI] /\ using'[UI] = using[UI] /\ effects'[UI] = effects[UI]
  <2>1. "set" \in Phases
    BY DEF Phases
  <2> QED BY Zenon, <1>1, <2>1, Moves DEF SetToken
<1>3. Calm
  BY <1>1 DEF Calm, Opened, WasOpened
<1>4. /\ own' \in SessionIds \cup {None} /\ minted' \in [SessionIds -> 0 .. MaxToken]
      /\ (stale \cup dead \subseteq Issued)'
  <2>1. UNCHANGED <<minted, stale, dead>>
    BY <1>1
  <2> QED BY Zenon, <1>1, <2>1, SameTypes
<1>5. Named(UI) /\ effects[UI] \in {0, 1} /\ pc[UI] \notin Busy /\ pc'[UI] \notin Busy
  BY <1>1, <1>2, CallFacts DEF Busy
<1>6. /\ own = Opened /\ Opened > 0
      /\ \A q \in Threads : pc[q] = "posted" => using[q] # own
  <2>1. pc[UI] \in {"answered", "set"}
    BY <1>2
  <2> QED BY Zenon, <1>1, <2>1 DEF ClientInv, LoginInv
<1>7. own \in SessionIds
  BY Zenon, <1>6, OpenedCount
<1>8. WasOpened(own)
  <2>1. own <= Opened
    BY <1>6, OpenedCount
  <2> QED BY Zenon, <1>7, <2>1 DEF ClientInv, OpenedInv
<1>9. access' \in Tokens /\ access'.sid = own /\ access' # None
  BY <1>1, <1>7, ClientAssumption DEF Tokens
<1>10. ClientTypeOK' /\ Places'
  <2>1. using'[UI] \in IF pc'[UI] = "granted" THEN Tokens ELSE SessionIds \cup {None}
    BY <1>1, <1>2, TypeParts
  <2>2. /\ access' \in Tokens \cup {None} /\ refresh' \in SessionIds \cup {None}
        /\ screen' \in {"login", "dashboard"} /\ started' \in BOOLEAN
        /\ live' \subseteq SessionIds
    BY <1>1, <1>9 DEF ClientInv, ClientTypeOK
  <2> QED BY Zenon, <1>1, <1>2, <1>4, <1>5, <2>1, <2>2, TypesStep
<1>11. Named(UI)' /\ Undone(UI)' /\ Needed(UI)' /\ Unrefused(UI)'
  BY <1>1, <1>2, <1>5 DEF Named, Undone, Needed, Unrefused, WasOpened
<1>12. \A q \in Threads \ {UI} : pc[q] = "posted" => ~Good(using[q])'
  BY Zenon, <1>1, <1>2, <1>6, <1>9 DEF Good, Frame
<1>13. refresh' = refresh \/ refresh' = None
  BY <1>1
<1> QED BY <1>1, <1>2, <1>3, <1>8, <1>9, <1>10, <1>11, <1>12, <1>13, CalmStep

(* Steps of the world, and stuttering.                                     *)
LEMMA WorldPreserves ==
  ASSUME ClientInv,
         UNCHANGED <<globals, thread, window, minted>>, live' \subseteq live,
         dead \subseteq dead', stale \subseteq stale', stale' \cup dead' \subseteq Issued
  PROVE  ClientInv'
<1>1. /\ UNCHANGED <<pc, sent, retried, using, effects>>
      /\ access' = access /\ refresh' = refresh /\ lock' = lock /\ screen' = screen
      /\ own' = own /\ started' = started /\ minted' = minted /\ UI \in Threads
  BY Domains DEF globals, thread, window
<1>2. Calm
  BY <1>1 DEF Calm, Opened, WasOpened
<1>3. Frame(UI) /\ ThreadTypes'
  BY <1>1, TypeParts DEF Frame, ThreadTypes
<1>4. own' \in SessionIds \cup {None} /\ minted' \in [SessionIds -> 0 .. MaxToken]
  BY <1>1, SameTypes
<1>5. (stale \cup dead \subseteq Issued)'
  BY <1>1 DEF Issued
<1>6. ClientTypeOK' /\ Places'
  <2>1. using'[UI] \in IF pc'[UI] = "granted" THEN Tokens ELSE SessionIds \cup {None}
    BY <1>1, TypeParts
  <2>2. /\ access' \in Tokens \cup {None} /\ refresh' \in SessionIds \cup {None}
        /\ screen' \in {"login", "dashboard"} /\ started' \in BOOLEAN
        /\ live' \subseteq SessionIds
    BY <1>1 DEF ClientInv, ClientTypeOK
  <2>3. pc'[UI] = pc[UI]
    BY <1>1
  <2> QED BY Zenon, <1>1, <1>3, <1>4, <1>5, <2>1, <2>2, <2>3, TypesStep
<1>7. pc[UI] = "posted" => ~Good(using[UI])'
  <2> SUFFICES ASSUME pc[UI] = "posted" PROVE ~Good(using[UI])'
    OBVIOUS
  <2>1. ~Good(using[UI])
    BY Zenon, <1>1 DEF ClientInv, CallInv, Needed
  <2>2. ASSUME NEW s, s = using[UI], ~Good(s) PROVE ~Good(using[UI])'
    <3>1. ~Good(s)'
      BY Zenon, <1>1, <1>2, <2>2, NoneBecomesGood
    <3> QED BY Zenon, <1>1, <2>2, <3>1 DEF Good
  <2> QED BY Zenon, <2>1, <2>2
<1>8. Named(UI)' /\ Undone(UI)' /\ Needed(UI)' /\ Unrefused(UI)'
  BY Zenon, <1>1, <1>2, <1>7, Unaffected
<1>9. \A q \in Threads \ {UI} : pc[q] = "posted" => ~Good(using[q])'
  BY Zenon, <1>1, <1>2, <1>3, OthersNeeded
<1>10. /\ Honoured /\ screen = "dashboard" => refresh' = refresh /\ access' # None
       /\ pc'[UI] = "set" => screen = "login"
       /\ screen = "login" /\ Opened = 1 /\ pc'[UI] = "set" => access' # None
  <2>1. LoginInv /\ HonouredInv
    BY DEF ClientInv
  <2>2. screen = "login" /\ Opened = 1 /\ pc[UI] = "set" => access # None
    BY Zenon, <2>1 DEF LoginInv
  <2>3. pc[UI] = "set" => screen = "login"
    BY Zenon, <2>1 DEF LoginInv
  <2>4. Honoured /\ screen = "dashboard" => access # None
    BY Zenon, <2>1 DEF HonouredInv
  <2> QED BY Zenon, <1>1, <2>2, <2>3, <2>4
<1> QED BY Zenon, <1>1, <1>2, <1>3, <1>6, <1>8, <1>9, <1>10, CalmStep

-----------------------------------------------------------------------------
(* The steps of the window, and the server's that opens a session.         *)

(* What stays of another thread's call when sessions are only opened and   *)
(* none becomes good.                                                      *)
LEMMA OthersKept ==
  ASSUME ClientInv, NEW t \in Threads, Frame(t),
         \A s \in SessionIds : WasOpened(s) => minted'[s] > 0,
         \A k \in Tokens : WasOpened(k.sid) /\ ~Accepted(k) => ~(k.sid \in live' /\ k \notin dead'),
         NEW q \in Threads \ {t}, q = UI => screen' = "login" \/ screen = "dashboard",
         access' = access \/ access' = None, stale' = stale
  PROVE  Named(q)' /\ Undone(q)' /\ Needed(q)'
<1>1. pc'[q] = pc[q] /\ sent'[q] = sent[q] /\ using'[q] = using[q] /\ effects'[q] = effects[q]
  BY DEF Frame
<1>2. Named(q) /\ Undone(q) /\ Needed(q) /\ OpenedInv
  BY Zenon, CallFacts DEF ClientInv
<1>3. /\ sent[q] # None => sent[q] \in Tokens /\ sent[q].sid \in SessionIds
      /\ pc[q] = "posted" => using[q] \in SessionIds
      /\ pc[q] = "granted" => using[q].sid \in SessionIds
      /\ access # None => access \in Tokens
  <2>1. \A k \in Tokens : k.sid \in SessionIds
    BY DEF Tokens
  <2>2. "posted" # "granted"
    OBVIOUS
  <2>3. pc[q] = "posted" => using[q] # None
    BY Zenon, <1>2 DEF Named
  <2> QED BY Zenon, <2>1, <2>2, <2>3, TypeParts
<1>4. Named(q)'
  <2>1. /\ sent[q] # None => minted'[sent[q].sid] > 0
        /\ pc[q] = "posted" => minted'[using[q]] > 0
        /\ pc[q] = "granted" => minted'[using[q].sid] > 0
    BY Zenon, <1>2, <1>3 DEF Named
  <2> QED BY Zenon, <1>1, <1>2, <2>1 DEF Named, WasOpened
<1>5. Undone(q)'
  <2>1. ASSUME sent[q] # None, ~Accepted(sent[q])
        PROVE  ~(sent[q].sid \in live' /\ sent[q] \notin dead')
    BY Zenon, <1>2, <1>3, <2>1 DEF Named
  <2>2. q = UI /\ screen = "login" => screen' = "login"
    OBVIOUS
  <2> QED BY Zenon, <1>1, <1>2, <2>1, <2>2 DEF Undone, Accepted
<1>6. Needed(q)'
  <2> SUFFICES ASSUME pc[q] = "posted", access' # None, access'.sid \in live', access' \notin dead',
                      access'.sid = using[q], access' \notin stale
               PROVE  FALSE
    BY Zenon, <1>1 DEF Needed, Good, Accepted
  <2>1. access' = access /\ access # None
    BY Zenon
  <2>2. Accepted(access)
    BY Zenon, <1>2, <1>3, <2>1 DEF OpenedInv
  <2> QED BY Zenon, <1>2, <2>1, <2>2 DEF Needed, Good
<1> QED BY Zenon, <1>4, <1>5, <1>6

(* What opening a session changes.                                         *)
LEMMA OneMoreOpened ==
  ASSUME ClientInv, OpenOwnSession
  PROVE  /\ own' \in SessionIds /\ own' = Opened + 1 /\ ~WasOpened(own') /\ Opened' = Opened + 1
         /\ minted' \in [SessionIds -> 0 .. MaxToken]
         /\ \A s \in SessionIds : minted'[s] = IF s = own' THEN 1 ELSE minted[s]
<1>1. Opened \in Nat /\ Opened < MaxSession /\ own' = Opened + 1
      /\ minted' = [minted EXCEPT ![own'] = 1]
  BY OpenedCount DEF OpenOwnSession
<1>2. own' \in SessionIds /\ own' > Opened
  BY <1>1, ClientAssumption DEF SessionIds
<1>3. minted \in [SessionIds -> 0 .. MaxToken] /\ 1 \in 0 .. MaxToken
  BY ClientAssumption, TypeParts
<1>4. minted' \in [SessionIds -> 0 .. MaxToken]
      /\ \A s \in SessionIds : minted'[s] = IF s = own' THEN 1 ELSE minted[s]
  BY <1>1, <1>2, <1>3
<1>5. ~(minted[own'] > 0)
  <2>1. ~(own' <= Opened)
    BY <1>1
  <2>2. \A s \in SessionIds : minted[s] > 0 <=> s <= Opened
    BY Zenon DEF ClientInv, OpenedInv, WasOpened
  <2> QED BY Zenon, <1>2, <2>1, <2>2
<1>6. Opened' = Opened + 1
  <2> DEFINE Old == {s \in SessionIds : minted[s] > 0}
  <2>1. {s \in SessionIds : minted'[s] > 0} = Old \cup {own'}
    BY <1>2, <1>4
  <2>2. IsFiniteSet(Old)
    <3>1. IsFiniteSet(SessionIds) /\ Old \subseteq SessionIds
      BY ClientAssumption, FS_Interval DEF SessionIds
    <3> QED BY Zenon, <3>1, FS_Subset
  <2>3. own' \notin Old
    BY <1>5
  <2>4. Cardinality(Old \cup {own'}) = Cardinality(Old) + 1
    <3> HIDE DEF Old
    <3> QED BY <2>2, <2>3, FS_AddElement
  <2> QED BY <2>1, <2>4 DEF Opened
<1> QED BY <1>1, <1>2, <1>4, <1>5, <1>6 DEF WasOpened

LEMMA OpenPreserves ==
  ASSUME ClientInv, OpenOwnSession
  PROVE  ClientInv'
<1>1. /\ screen = "login" /\ UI \in Threads
      /\ UNCHANGED <<sent, retried, using, effects>>
      /\ access' = access /\ refresh' = refresh /\ lock' = lock /\ screen' = screen
      /\ started' = started /\ live' = live \cup {own'} /\ stale' = stale /\ dead' = dead
  BY Domains DEF OpenOwnSession, globals
<1>2. /\ Frame(UI) /\ ThreadTypes' /\ pc[UI] = "asked" /\ pc'[UI] = "answered"
      /\ sent'[UI] = sent[UI] /\ using'[UI] = using[UI] /\ effects'[UI] = effects[UI]
  <2>1. "answered" \in Phases
    BY DEF Phases
  <2> QED BY Zenon, <1>1, <2>1, Moves DEF OpenOwnSession
<1>3. /\ own' \in SessionIds /\ own' = Opened + 1 /\ ~WasOpened(own') /\ Opened' = Opened + 1
      /\ minted' \in [SessionIds -> 0 .. MaxToken]
      /\ \A s \in SessionIds : minted'[s] = IF s = own' THEN 1 ELSE minted[s]
      /\ Opened \in Nat /\ minted \in [SessionIds -> 0 .. MaxToken]
  BY OneMoreOpened, OpenedCount, TypeParts
<1>4. /\ \A s \in SessionIds : minted[s] <= minted'[s] /\ (WasOpened(s) => minted'[s] > 0)
      /\ \A s \in SessionIds : minted'[s] > 0 => WasOpened(s) \/ s = own'
      /\ minted'[own'] > 0
  <2>1. \A s \in SessionIds : minted[s] \in Nat
    BY <1>3, ClientAssumption
  <2> QED BY <1>3, <2>1 DEF WasOpened
<1>5. OpenedInv /\ LoginInv /\ ClientTypeOK
  BY DEF ClientInv
<1>6. ClientTypeOK' /\ Places'
  <2>1. using'[UI] \in IF pc'[UI] = "granted" THEN Tokens ELSE SessionIds \cup {None}
    BY <1>1, <1>2, TypeParts
  <2>2. (stale \cup dead \subseteq Issued)'
    <3>1. Issued \subseteq Issued'
      <4> SUFFICES ASSUME NEW k \in Tokens, k.n <= minted[k.sid] PROVE k.n <= minted'[k.sid]
        BY DEF Issued
      <4>1. k.n \in Nat /\ k.sid \in SessionIds
        BY ClientAssumption DEF Tokens
      <4>2. minted[k.sid] <= minted'[k.sid]
        BY Zenon, <1>4, <4>1
      <4>3. \A m \in [SessionIds -> 0 .. MaxToken] : m[k.sid] \in Nat
        BY <4>1, ClientAssumption
      <4>4. minted[k.sid] \in Nat /\ minted'[k.sid] \in Nat
        BY Zenon, <1>3, <4>3
      <4> QED BY <4>1, <4>2, <4>4
    <3> QED BY Zenon, <1>1, <1>5, <3>1 DEF ClientTypeOK
  <2>3. /\ live' \subseteq SessionIds /\ pc[UI] \notin Busy /\ pc'[UI] \notin Busy
        /\ access' \in Tokens \cup {None} /\ refresh' \in SessionIds \cup {None}
        /\ screen' \in {"login", "dashboard"} /\ started' \in BOOLEAN
        /\ own' \in SessionIds \cup {None}
    BY <1>1, <1>2, <1>3, <1>5 DEF ClientTypeOK, Busy
  <2> QED BY Zenon, <1>1, <1>2, <1>3, <2>1, <2>2, <2>3, TypesStep
<1>7. OpenedInv'
  <2>1. \A s \in SessionIds : minted'[s] > 0 <=> s <= Opened'
    <3> SUFFICES ASSUME NEW s \in SessionIds PROVE minted'[s] > 0 <=> s <= Opened'
      OBVIOUS
    <3>1. s \in Nat /\ (WasOpened(s) <=> s <= Opened)
      BY <1>5, ClientAssumption DEF OpenedInv, SessionIds
    <3> QED BY <1>3, <1>4, <3>1
  <2>2. \A s \in live' : minted'[s] > 0
    BY Zenon, <1>1, <1>4, <1>5 DEF OpenedInv, ClientTypeOK
  <2>3. access' # None => minted'[access'.sid] > 0
    <3>1. access # None => access.sid \in SessionIds
      BY <1>5 DEF ClientTypeOK, Tokens
    <3> QED BY Zenon, <1>1, <1>4, <1>5, <3>1 DEF OpenedInv
  <2>4. refresh' # None => minted'[refresh'] > 0
    BY Zenon, <1>1, <1>4, <1>5 DEF OpenedInv, ClientTypeOK
  <2> QED BY Zenon, <2>1, <2>2, <2>3, <2>4 DEF OpenedInv, WasOpened
<1>8. LoginInv'
  <2>1. \A q \in Threads : pc'[q] = "posted" => using'[q] # own'
    <3> SUFFICES ASSUME NEW q \in Threads, pc'[q] = "posted" PROVE using'[q] # own'
      OBVIOUS
    <3>1. q # UI
      BY <1>2
    <3>2. pc[q] = "posted" /\ using'[q] = using[q]
      BY Zenon, <1>2, <3>1 DEF Frame
    <3>3. WasOpened(using[q])
      BY Zenon, <3>2, CallFacts DEF Named
    <3>4. ASSUME NEW s, s = using[q], s = own' PROVE FALSE
      <4>1. WasOpened(s)
        BY Zenon, <3>3, <3>4
      <4> QED BY Zenon, <1>3, <3>4, <4>1 DEF WasOpened
    <3> QED BY Zenon, <3>2, <3>4
  <2>2. Opened' > 0 /\ (started' => Opened' > 1) /\ own' = Opened' /\ pc'[UI] # "set"
    <3>1. started => Opened > 0
      BY Zenon, <1>5 DEF LoginInv
    <3> QED BY <1>1, <1>2, <1>3, <3>1
  <2>3. ~started => \A q \in Workers : pc'[q] = "idle"
    BY Zenon, <1>2, <1>5, ClientAssumption, Domains DEF LoginInv, Frame
  <2>4. refresh' = None
    BY Zenon, <1>1, <1>5 DEF LoginInv
  <2> QED BY Zenon, <1>1, <2>1, <2>2, <2>3, <2>4 DEF LoginInv
<1>9. screen' # "dashboard"
  BY <1>1
<1>10. HonouredInv' /\ \A q \in Threads : Unrefused(q)'
  BY Zenon, <1>9 DEF HonouredInv, Unrefused
<1>11. Named(UI)' /\ Undone(UI)' /\ Needed(UI)'
  <2>1. Named(UI) /\ effects[UI] \in {0, 1}
    BY <1>1, CallFacts
  <2>2. sent[UI] # None => minted'[sent[UI].sid] > 0
    <3>1. sent[UI] # None => sent[UI].sid \in SessionIds
      BY <1>1, TypeParts DEF Tokens
    <3> QED BY Zenon, <1>4, <2>1, <3>1 DEF Named
  <2> QED BY <1>2, <2>1, <2>2 DEF Named, Undone, Needed, WasOpened
<1>12. \A q \in Threads \ {UI} : Named(q)' /\ Undone(q)' /\ Needed(q)'
  <2>1. \A k \in Tokens : WasOpened(k.sid) /\ ~Accepted(k) => ~(k.sid \in live' /\ k \notin dead')
    <3> SUFFICES ASSUME NEW k \in Tokens, WasOpened(k.sid), k.sid \in live', k \notin dead'
                 PROVE  Accepted(k)
      BY Zenon
    <3>1. k.sid # own'
      <4>1. ASSUME NEW s, s = k.sid, s = own' PROVE FALSE
        <5>1. WasOpened(s)
          BY Zenon, <4>1
        <5> QED BY Zenon, <1>3, <4>1, <5>1 DEF WasOpened
      <4> QED BY Zenon, <4>1
    <3>2. k # None
      BY Zenon, TypeParts
    <3> QED BY Zenon, <1>1, <3>1, <3>2 DEF Accepted
  <2> QED BY Zenon, <1>1, <1>2, <1>4, <2>1, OthersKept
<1> QED BY Zenon, <1>6, <1>7, <1>8, <1>10, <1>11, <1>12 DEF ClientInv, CallInv

(* The dashboard opens; before the first one no worker has a call.         *)
LEMMA ShowPreserves ==
  ASSUME ClientInv, SetRefreshToken
  PROVE  ClientInv'
<1>1. /\ pc[UI] = "set" /\ UI \in Threads /\ screen' = "dashboard" /\ started' = TRUE
      /\ refresh' = own /\ access' = access /\ lock' = lock /\ own' = own
      /\ live' = live /\ minted' = minted /\ stale' = stale /\ dead' = dead
  BY Domains DEF SetRefreshToken, Move, server
<1>2. /\ Frame(UI) /\ ThreadTypes' /\ pc'[UI] = "idle"
      /\ sent'[UI] = None /\ using'[UI] = None /\ effects'[UI] = effects[UI]
  <2>1. "idle" \in Phases /\ FALSE \in BOOLEAN
    BY DEF Phases
  <2>2. ThreadTypes'
    BY Zenon, <1>1, <2>1, TypeParts, OneTyped DEF SetRefreshToken, Forget, Move, ThreadTypes
  <2> QED BY <1>1, <2>2, Domains DEF SetRefreshToken, Forget, Move, Frame
<1>3. OpenedInv /\ LoginInv /\ ClientTypeOK
  BY DEF ClientInv
<1>4. /\ screen = "login" /\ own = Opened /\ Opened > 0 /\ (started => Opened > 1)
      /\ (Opened = 1 => access # None)
      /\ ~started => \A q \in Workers : pc[q] = "idle"
  BY Zenon, <1>1, <1>3 DEF LoginInv
<1>5. own \in SessionIds /\ Opened \in Nat
  BY Zenon, <1>4, OpenedCount
<1>6. WasOpened(own)
  <2>1. own <= Opened
    BY <1>4, <1>5
  <2> QED BY Zenon, <1>3, <1>5, <2>1 DEF OpenedInv
<1>7. Opened' = Opened /\ \A s : WasOpened(s) => minted'[s] > 0
  BY Zenon, <1>1 DEF Opened, WasOpened
<1>8. ClientTypeOK' /\ Places'
  <2>1. using'[UI] \in IF pc'[UI] = "granted" THEN Tokens ELSE SessionIds \cup {None}
    BY <1>2
  <2>2. (stale \cup dead \subseteq Issued)'
    BY Zenon, <1>1, <1>3 DEF ClientTypeOK, Issued
  <2>3. pc[UI] \notin Busy /\ pc'[UI] \notin Busy
    BY <1>1, <1>2 DEF Busy
  <2>4. /\ access' \in Tokens \cup {None} /\ refresh' \in SessionIds \cup {None}
        /\ screen' \in {"login", "dashboard"} /\ started' \in BOOLEAN
        /\ own' \in SessionIds \cup {None} /\ live' \subseteq SessionIds
        /\ minted' \in [SessionIds -> 0 .. MaxToken]
    BY <1>1, <1>3, <1>5 DEF ClientTypeOK
  <2> QED BY Zenon, <1>1, <1>2, <2>1, <2>2, <2>3, <2>4, TypesStep
<1>9. OpenedInv'
  BY Zenon, <1>1, <1>3, <1>6, <1>7 DEF OpenedInv, WasOpened
<1>10. screen' # "login" /\ pc'[UI] # "set"
  BY <1>1, <1>2
<1>11. LoginInv'
  BY Zenon, <1>1, <1>4, <1>7, <1>10 DEF LoginInv
<1>12. Honoured' => Opened = 1 /\ ~started
  BY <1>4, <1>7 DEF Honoured
<1>13. HonouredInv'
  BY Zenon, <1>1, <1>4, <1>12 DEF HonouredInv
<1>14. ASSUME NEW q \in Threads PROVE Unrefused(q)'
  <2>1. Honoured' => pc'[q] = "idle"
    <3>1. q # UI => q \in Workers
      BY DEF Threads
    <3> QED BY Zenon, <1>2, <1>4, <1>12, <3>1 DEF Frame
  <2> QED BY <2>1 DEF Unrefused
<1>15. Named(UI)' /\ Undone(UI)' /\ Needed(UI)'
  <2>1. effects[UI] \in {0, 1}
    BY <1>1, CallFacts
  <2> QED BY <1>2, <2>1 DEF Named, Undone, Needed
<1>16. \A q \in Threads \ {UI} : Named(q)' /\ Undone(q)' /\ Needed(q)'
  <2>1. \A k \in Tokens : WasOpened(k.sid) /\ ~Accepted(k) => ~(k.sid \in live' /\ k \notin dead')
    BY Zenon, <1>1, TypeParts DEF Accepted
  <2> QED BY Zenon, <1>1, <1>2, <1>7, <2>1, OthersKept
<1> QED BY Zenon, <1>8, <1>9, <1>11, <1>13, <1>14, <1>15, <1>16 DEF ClientInv, CallInv

LEMMA LoggedOutPreserves ==
  ASSUME ClientInv, LoggedOut
  PROVE  ClientInv'
<1>1. /\ screen = "dashboard" /\ UI \in Threads /\ screen' = "login" /\ started' = started
      /\ refresh' = None /\ access' = None /\ lock' = lock /\ own' = own
      /\ live' = live /\ minted' = minted /\ stale' = stale /\ dead' = dead
      /\ pc[UI] \in {"asked", "answered"}
  BY Domains DEF LoggedOut, ClearTokens, server
<1>2. /\ Frame(UI) /\ ThreadTypes' /\ pc'[UI] = "idle"
      /\ sent'[UI] = None /\ using'[UI] = None /\ effects'[UI] = effects[UI]
  <2>1. "idle" \in Phases /\ FALSE \in BOOLEAN
    BY DEF Phases
  <2>2. ThreadTypes'
    BY Zenon, <1>1, <2>1, TypeParts, OneTyped DEF LoggedOut, Forget, ThreadTypes
  <2> QED BY <1>1, <2>2, Domains DEF LoggedOut, Forget, Frame
<1>3. OpenedInv /\ LoginInv /\ ClientTypeOK
  BY DEF ClientInv
<1>4. started
  <2>1. screen # "login"
    BY <1>1
  <2> QED BY Zenon, <1>3, <2>1 DEF LoginInv
<1>5. Opened' = Opened /\ \A s : WasOpened(s) => minted'[s] > 0
  BY Zenon, <1>1 DEF Opened, WasOpened
<1>6. ClientTypeOK' /\ Places'
  <2>1. using'[UI] \in IF pc'[UI] = "granted" THEN Tokens ELSE SessionIds \cup {None}
    BY <1>2
  <2>2. (stale \cup dead \subseteq Issued)'
    BY Zenon, <1>1, <1>3 DEF ClientTypeOK, Issued
  <2>3. pc[UI] \notin Busy /\ pc'[UI] \notin Busy
    BY <1>1, <1>2 DEF Busy
  <2>4. /\ access' \in Tokens \cup {None} /\ refresh' \in SessionIds \cup {None}
        /\ screen' \in {"login", "dashboard"} /\ started' \in BOOLEAN
        /\ own' \in SessionIds \cup {None} /\ live' \subseteq SessionIds
        /\ minted' \in [SessionIds -> 0 .. MaxToken]
    BY <1>1, <1>3 DEF ClientTypeOK
  <2> QED BY Zenon, <1>1, <1>2, <2>1, <2>2, <2>3, <2>4, TypesStep
<1>7. OpenedInv'
  BY Zenon, <1>1, <1>3, <1>5 DEF OpenedInv, WasOpened
<1>8. screen' # "dashboard" /\ pc'[UI] \notin {"answered", "set"}
  BY <1>1, <1>2
<1>9. LoginInv'
  BY Zenon, <1>1, <1>3, <1>4, <1>5, <1>8 DEF LoginInv
<1>10. HonouredInv' /\ \A q \in Threads : Unrefused(q)'
  BY Zenon, <1>8 DEF HonouredInv, Unrefused
<1>11. Named(UI)' /\ Undone(UI)' /\ Needed(UI)'
  <2>1. effects[UI] \in {0, 1}
    BY <1>1, CallFacts
  <2> QED BY <1>2, <2>1 DEF Named, Undone, Needed
<1>12. \A q \in Threads \ {UI} : Named(q)' /\ Undone(q)' /\ Needed(q)'
  <2>1. \A k \in Tokens : WasOpened(k.sid) /\ ~Accepted(k) => ~(k.sid \in live' /\ k \notin dead')
    BY Zenon, <1>1, TypeParts DEF Accepted
  <2> QED BY Zenon, <1>1, <1>2, <1>5, <2>1, OthersKept
<1> QED BY Zenon, <1>6, <1>7, <1>9, <1>10, <1>11, <1>12 DEF ClientInv, CallInv

-----------------------------------------------------------------------------
LEMMA ClientInitInv ==
  ASSUME ClientInit
  PROVE  ClientInv
<1>1. /\ pc = [t \in Threads |-> "idle"] /\ sent = [t \in Threads |-> None]
      /\ retried = [t \in Threads |-> FALSE] /\ using = [t \in Threads |-> None]
      /\ effects = [t \in Threads |-> 0] /\ minted = [s \in SessionIds |-> 0]
      /\ access = None /\ refresh = None /\ lock = None /\ own = None
      /\ screen = "login" /\ started = FALSE /\ live = {} /\ stale = {} /\ dead = {}
  BY DEF ClientInit
<1>2. \A t \in Threads : pc[t] = "idle" /\ sent[t] = None /\ using[t] = None /\ effects[t] = 0
  BY <1>1
<1>3. Opened = 0 /\ \A s \in SessionIds : ~WasOpened(s)
  <2>1. \A s \in SessionIds : ~(minted[s] > 0)
    BY <1>1
  <2>2. {s \in SessionIds : minted[s] > 0} = {}
    BY <2>1
  <2> QED BY <2>1, <2>2, FS_EmptySet DEF Opened, WasOpened
<1>4. None \notin Threads /\ UI \in Threads /\ Workers \subseteq Threads /\ MaxToken \in Nat
  BY ClientAssumption DEF Threads
<1>5. ClientTypeOK
  <2>1. /\ sent \in [Threads -> Tokens \cup {None}] /\ retried \in [Threads -> BOOLEAN]
        /\ effects \in [Threads -> Nat] /\ minted \in [SessionIds -> 0 .. MaxToken]
    BY <1>1, <1>4
  <2>2. \A t \in Threads : using[t] \in IF pc[t] = "granted" THEN Tokens ELSE SessionIds \cup {None}
    BY <1>2
  <2>3. \A t \in Threads : pc[t] \in {"posted", "granted", "denied"} <=> lock = t
    BY <1>1, <1>2, <1>4
  <2>4. stale \cup dead \subseteq Issued
    BY <1>1
  <2> QED BY <1>1, <2>1, <2>2, <2>3, <2>4 DEF ClientTypeOK
<1>6. Places
  BY <1>1 DEF Places, Phases
<1>7. OpenedInv
  BY <1>1, <1>3, ClientAssumption DEF OpenedInv, SessionIds
<1>8. LoginInv /\ HonouredInv
  BY <1>1, <1>2, <1>4 DEF LoginInv, HonouredInv
<1>9. CallInv
  BY <1>1, <1>2 DEF CallInv, Named, Undone, Needed, Unrefused
<1> QED BY <1>5, <1>6, <1>7, <1>8, <1>9 DEF ClientInv

LEMMA ClientStep ==
  ASSUME ClientInv, [ClientNext]_clientVars
  PROVE  ClientInv'
<1>1. ASSUME NEW t \in Workers, Call(t) \/ Answering(t) PROVE ClientInv'
  BY Zenon, <1>1, CallPreserves, AcceptPreserves, RejectPreserves, EndPreserves DEF Answering
<1>2. CASE LogIn \/ LogOut
  BY Zenon, <1>2, LogInPreserves, LogOutPreserves
<1>3. CASE AnsweringUI
  BY Zenon, <1>3, OpenPreserves, ClosePreserves, RejectLoginPreserves, EndPreserves,
     SetPreserves, ShowPreserves, LoggedOutPreserves DEF AnsweringUI
<1>4. ASSUME NEW t \in Threads, Proceeding(t) PROVE ClientInv'
  BY Zenon, <1>4, SendPreserves, RenewPreserves, GiveUpCallPreserves, StorePreserves,
     FailsPreserves DEF Proceeding
<1>5. ASSUME NEW t \in Threads, Refreshing(t) PROVE ClientInv'
  BY Zenon, <1>5, SkipPreserves, CannotPreserves, PostPreserves DEF Refreshing
<1>6. ASSUME NEW t \in Threads, Grant(t) \/ Deny(t) \/ RefreshFails(t) PROVE ClientInv'
  BY Zenon, <1>6, GrantPreserves, DenyPreserves, FailsPreserves
<1>7. stale \cup dead \subseteq Issued
  BY DEF ClientInv, ClientTypeOK
<1>8. ASSUME NEW k \in Issued, GoStale(k) \/ GoDead(k) PROVE ClientInv'
  <2>1. /\ UNCHANGED <<globals, thread, window, minted>> /\ live' \subseteq live
        /\ dead \subseteq dead' /\ stale \subseteq stale' /\ stale' \cup dead' \subseteq Issued
    BY <1>7, <1>8 DEF GoStale, GoDead
  <2> QED BY Zenon, <2>1, WorldPreserves
<1>9. ASSUME NEW s \in SessionIds, SessionEnds(s) PROVE ClientInv'
  <2>1. /\ UNCHANGED <<globals, thread, window, minted>> /\ live' \subseteq live
        /\ dead \subseteq dead' /\ stale \subseteq stale' /\ stale' \cup dead' \subseteq Issued
    BY <1>7, <1>9 DEF SessionEnds
  <2> QED BY Zenon, <2>1, WorldPreserves
<1>10. CASE UNCHANGED clientVars
  <2>1. /\ UNCHANGED <<globals, thread, window, minted>> /\ live' \subseteq live
        /\ dead \subseteq dead' /\ stale \subseteq stale' /\ stale' \cup dead' \subseteq Issued
    BY <1>7, <1>10 DEF clientVars, server
  <2> QED BY Zenon, <2>1, WorldPreserves
<1> QED BY Zenon, <1>1, <1>2, <1>3, <1>4, <1>5, <1>6, <1>8, <1>9, <1>10 DEF ClientNext

LEMMA ClientInvariant == ClientSpec => []ClientInv
BY ClientInitInv, ClientStep, PTL DEF ClientSpec

(* The types of the client's variables, and that only the lock's holder    *)
(* has a refresh under way.                                                *)
THEOREM ClientTypeCorrect == ClientSpec => []ClientTypeOK
<1>1. ClientInv => ClientTypeOK
  BY DEF ClientInv
<1> QED BY <1>1, ClientInvariant, PTL

(* No call takes effect twice, though it is repeated after a refresh:      *)
(* api_request repeats only what a 401 refused.                            *)
THEOREM AtMostOneEffectHolds == ClientSpec => []AtMostOneEffect
<1>1. ClientInv => AtMostOneEffect
  BY CallFacts DEF AtMostOneEffect
<1> QED BY <1>1, ClientInvariant, PTL

(* In the first login of a process no overlap of refreshes, stale tokens,  *)
(* outages and lost answers makes the client drop the credentials that the *)
(* server honours.                                                         *)
THEOREM HonouredSessionIsKeptHolds == ClientSpec => []HonouredSessionIsKept
<1>1. ClientInv => HonouredSessionIsKept
  BY DEF ClientInv, HonouredInv, Honoured, HonouredSessionIsKept
<1> QED BY <1>1, ClientInvariant, PTL

(* No thread has a token renewed that is still good, however many find it  *)
(* stale or rejected at the same time.                                     *)
THEOREM GrantsAreNeededHolds == ClientSpec => GrantsAreNeeded
<1>1. ASSUME ClientInv
      PROVE  \A t \in Threads : Grant(t) =>
                ~(Accepted(access) /\ access.sid = using[t] /\ access \notin stale)
  <2> SUFFICES ASSUME NEW t \in Threads, Grant(t)
               PROVE  ~(Accepted(access) /\ access.sid = using[t] /\ access \notin stale)
    OBVIOUS
  <2>1. Needed(t)
    BY Zenon, <1>1, CallFacts
  <2>2. pc[t] = "posted"
    BY DEF Grant, Move
  <2> QED BY Zenon, <2>1, <2>2 DEF Needed, Good
<1> QED BY <1>1, ClientInvariant, PTL DEF GrantsAreNeeded
=============================================================================
