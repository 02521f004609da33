---------------------------- MODULE ClientSession ----------------------------
(***************************************************************************)
(* The desktop client's credentials: api_request and _try_refresh of       *)
(* api_clients/api_helper.py, login and logout of auth_service.py, the     *)
(* watchdog and the loop of login window and dashboard in                  *)
(* clients/desktop/main.py.                                                *)
(*                                                                         *)
(* One process for all its logins.  The user interface's thread and worker *)
(* threads call the API; a worker may outlive the window, and the login,   *)
(* that started it.  The two tokens are global variables that every thread *)
(* reads and writes; a lock is held while a refresh is under way, but not  *)
(* by those who set or clear the tokens otherwise.                         *)
(*                                                                         *)
(* Threads other than the user interface's are started by a dashboard.     *)
(*                                                                         *)
(* The server (Sessions): a refresh token names a session; an access token *)
(* is accepted while its session is live, unless it is dead: expired by    *)
(* the server's clock or issued before the password's last change.  The    *)
(* client goes by its own clock: it takes a token for stale a little       *)
(* before it should expire.                                                *)
(*                                                                         *)
(* Abstractions.  A step of a thread is the code between two waits, for    *)
(* the lock or for an answer.  A request that cannot reach the server, or  *)
(* whose answer is lost, ends the same way; any answer but 200 and 401 to  *)
(* a refresh too.  Every endpoint but login and logout demands a token.    *)
(***************************************************************************)
EXTENDS Integers, FiniteSets

CONSTANTS
    Workers, UI,  \* threads
    None,         \* no token, session, thread
    MaxSession,   \* bound: logins
    MaxToken,     \* bound: access tokens of a session
    MaxAge        \* bound: tokens that become stale or dead

Threads == Workers \cup {UI}
SessionIds == 1 .. MaxSession
Tokens == [sid : SessionIds, n : 1 .. MaxToken]

ASSUME ClientAssumption ==
    /\ UI \notin Workers /\ None \notin Threads \cup SessionIds \cup Tokens
    /\ {MaxSession, MaxAge} \subseteq Nat /\ MaxToken \in Nat \ {0}

VARIABLES
    access, refresh,  \* _SESSION_TOKEN, _REFRESH_TOKEN
    lock,     \* who holds _TOKEN_REFRESH_LOCK
    pc,       \* what each thread waits for
    sent,     \* the token of its request, or of its refresh's answer
    retried,  \* is this its second attempt
    using,    \* the refresh token it posts, then the answer's token
    effects,  \* history: how often its call took effect
    screen,   \* the window that is open: login or dashboard
    own,      \* the session that the login opens, or the logout closes
    started,  \* has there been a dashboard
    live,     \* the server's sessions that are not revoked
    minted,   \* access tokens each session has got
    stale,    \* tokens the client takes for expired
    dead      \* tokens the server rejects though their session is live

globals == <<access, refresh, lock>>
thread == <<pc, sent, retried, using, effects>>
server == <<live, minted, stale, dead>>
window == <<screen, own, started>>
clientVars == <<globals, thread, window, server>>

ClientInit ==
    /\ access = None /\ refresh = None /\ lock = None
    /\ pc = [t \in Threads |-> "idle"]
    /\ sent = [t \in Threads |-> None]
    /\ retried = [t \in Threads |-> FALSE]
    /\ using = [t \in Threads |-> None]
    /\ effects = [t \in Threads |-> 0]
    /\ screen = "login" /\ own = None /\ started = FALSE
    /\ live = {} /\ minted = [s \in SessionIds |-> 0]
    /\ stale = {} /\ dead = {}

Move(t, from, to) ==
    /\ pc[t] = from
    /\ pc' = [pc EXCEPT ![t] = to]

Opened == Cardinality({s \in SessionIds : minted[s] > 0})
Accepted(token) == token # None /\ token.sid \in live /\ token \notin dead

(* A thread's private variables when it is done.                           *)
Forget(t) ==
    /\ sent' = [sent EXCEPT ![t] = None]
    /\ retried' = [retried EXCEPT ![t] = FALSE]
    /\ using' = [using EXCEPT ![t] = None]

-----------------------------------------------------------------------------
(* api_request.                                                            *)

(* The call begins; a stale token is refreshed first.                      *)
Begin(t) ==
    /\ effects' = [effects EXCEPT ![t] = 0]
    /\ pc' = [pc EXCEPT ![t] = IF access \in stale THEN "renewing" ELSE "ready"]

Call(t) ==
    /\ started /\ pc[t] = "idle"
    /\ Begin(t)
    /\ UNCHANGED <<globals, sent, retried, using, window, server>>

(* An attempt is sent, with the token of this moment.                      *)
Send(t) ==
    /\ Move(t, "ready", "asked")
    /\ sent' = [sent EXCEPT ![t] = access]
    /\ UNCHANGED <<globals, retried, using, effects, window, server>>

(* The server accepts and acts.                                            *)
Accept(t) ==
    /\ Accepted(sent[t])
    /\ Move(t, "asked", "answered")
    /\ effects' = [effects EXCEPT ![t] = @ + 1]
    /\ UNCHANGED <<globals, sent, retried, using, window, server>>

Reject(t) ==
    /\ ~Accepted(sent[t])
    /\ Move(t, "asked", "rejected")
    /\ UNCHANGED <<globals, sent, retried, using, effects, window, server>>

(* The worker's call is over.                                              *)
Done(t, from) ==
    /\ Move(t, from, "idle")
    /\ Forget(t)
    /\ UNCHANGED <<effects, window, server>>

Finish(t) ==
    /\ Done(t, "answered")
    /\ UNCHANGED globals

(* Mutant: what may not have been done is sent once more.                  *)
LoseThenRetry(t) ==
    \/ /\ ~retried[t]
       /\ \/ Move(t, "asked", "ready")
          \/ Move(t, "answered", "ready")
       /\ retried' = [retried EXCEPT ![t] = TRUE]
       /\ UNCHANGED <<globals, sent, using, effects, window, server>>
    \/ /\ retried[t]
       /\ Done(t, "asked") \/ Done(t, "answered")
       /\ UNCHANGED globals

(* The server is not reached, or its answer does not arrive: an error.     *)
Lose(t) ==
    /\ Done(t, "asked") \/ Done(t, "answered")
    /\ UNCHANGED globals

(* A 401 to the first attempt, made with a token, calls for a refresh.     *)
Renewable(t) == ~retried[t] /\ sent[t] # None

Renew(t) ==
    /\ Renewable(t)
    /\ Move(t, "rejected", "renewing")
    /\ UNCHANGED <<globals, sent, retried, using, effects, window, server>>

(* Mutant: the tokens are kept.                                            *)
KeepTokens == UNCHANGED <<access, refresh>>

(* Mutant: clear_tokens takes the lock, which is not reentrant.            *)
ClearUnderLock == lock = None /\ access' = None /\ refresh' = None

ClearTokens == access' = None /\ refresh' = None

(* A 401 that ends the call.                                               *)
GiveUpCall(t) ==
    /\ \/ ~Renewable(t) /\ Done(t, "rejected")
       \/ Done(t, "unrenewed")
    /\ ClearTokens
    /\ UNCHANGED lock

-----------------------------------------------------------------------------
(* _try_refresh.  sent[t] is the rejected token, None before an attempt.   *)

(* True: the call goes on, for the second time if it was rejected.         *)
Renewed(t) ==
    /\ pc' = [pc EXCEPT ![t] = "ready"]
    /\ retried' = [retried EXCEPT ![t] = sent[t] # None]
    /\ using' = [using EXCEPT ![t] = None]
    /\ sent' = [sent EXCEPT ![t] = None]
    /\ UNCHANGED <<effects, window>>

(* False: before the first attempt the call fails, the tokens are kept; a  *)
(* logout goes on without it.                                              *)
NotRenewed(t) ==
    /\ IF sent[t] = None
       THEN /\ Forget(t)
            /\ pc' = [pc EXCEPT ![t] =
                 IF t = UI /\ screen = "dashboard" THEN "answered" ELSE "idle"]
       ELSE /\ pc' = [pc EXCEPT ![t] = "unrenewed"]
            /\ using' = [using EXCEPT ![t] = None]
            /\ UNCHANGED <<sent, retried>>
    /\ UNCHANGED <<effects, window>>

(* Mutant: nobody else can have refreshed.                                 *)
AlreadyRenewedNever(t) == FALSE

(* The token was replaced while this thread waited.                        *)
AlreadyRenewed(t) ==
    IF sent[t] # None THEN access # sent[t] /\ access # None
    ELSE access # None /\ access \notin stale

WithLock(t) == pc[t] = "renewing" /\ lock = None

SkipRefresh(t) ==
    /\ WithLock(t)
    /\ refresh # None
    /\ AlreadyRenewed(t)
    /\ Renewed(t)
    /\ UNCHANGED <<globals, server>>

(* There is no refresh token, or no token any more.                        *)
CannotRefresh(t) ==
    /\ WithLock(t)
    /\ \/ refresh = None
       \/ sent[t] # None /\ access = None
    /\ NotRenewed(t)
    /\ UNCHANGED <<globals, server>>

PostRefresh(t) ==
    /\ WithLock(t)
    /\ refresh # None
    /\ ~AlreadyRenewed(t)
    /\ sent[t] # None => access # None
    /\ lock' = t
    /\ using' = [using EXCEPT ![t] = refresh]
    /\ pc' = [pc EXCEPT ![t] = "posted"]
    /\ UNCHANGED <<access, refresh, sent, retried, effects, window, server>>

(* The server issues a new token, or answers 401.                          *)
NextToken(s) == [sid |-> s, n |-> minted[s] + 1]

Grant(t) ==
    /\ Move(t, "posted", "granted")
    /\ using[t] \in live
    /\ minted[using[t]] < MaxToken
    /\ minted' = [minted EXCEPT ![using[t]] = @ + 1]
    /\ using' = [using EXCEPT ![t] = NextToken(using[t])]
    /\ UNCHANGED <<globals, sent, retried, effects, window, live, stale, dead>>

Deny(t) ==
    /\ Move(t, "posted", "denied")
    /\ using[t] \notin live
    /\ UNCHANGED <<globals, sent, retried, using, effects, window, server>>

StoreToken(t) ==
    /\ pc[t] = "granted"
    /\ access' = using[t]
    /\ lock' = None
    /\ Renewed(t)
    /\ UNCHANGED <<refresh, server>>

RefreshDenied(t) ==
    /\ pc[t] = "denied"
    /\ ClearTokens
    /\ lock' = None
    /\ NotRenewed(t)
    /\ UNCHANGED server

(* Mutant: an outage ends the session.                                     *)
RefreshFailsLogsOut(t) ==
    /\ pc[t] \in {"posted", "granted", "denied"}
    /\ lock' = None
    /\ NotRenewed(t)
    /\ ClearTokens
    /\ UNCHANGED server

(* No answer arrives, or one that says nothing about the token.            *)
RefreshFails(t) ==
    /\ pc[t] \in {"posted", "granted", "denied"}
    /\ lock' = None
    /\ NotRenewed(t)
    /\ UNCHANGED <<access, refresh, server>>

-----------------------------------------------------------------------------
(* Login and logout, by the user interface.  Their calls are calls; their  *)
(* endpoints demand no token, so they are never rejected for one.          *)

(* verify_user_login                                                       *)
LogIn ==
    /\ screen = "login" /\ pc[UI] = "idle"
    /\ Begin(UI)
    /\ UNCHANGED <<globals, sent, retried, using, window, server>>

(* logout, by the user, by the watchdog after an hour or when there is no  *)
(* token; without a refresh token it only clears.                          *)
LogOut ==
    /\ screen = "dashboard" /\ pc[UI] = "idle"
    /\ own' = refresh
    /\ IF refresh # None
       THEN Begin(UI)
       ELSE pc' = [pc EXCEPT ![UI] = "answered"] /\ UNCHANGED effects
    /\ UNCHANGED <<globals, sent, retried, using, screen, started, server>>

OpenOwnSession ==
    /\ screen = "login"
    /\ Opened < MaxSession
    /\ Move(UI, "asked", "answered")
    /\ own' = Opened + 1
    /\ live' = live \cup {own'}
    /\ minted' = [minted EXCEPT ![own'] = 1]
    /\ UNCHANGED <<globals, sent, retried, using, effects, screen, started, stale, dead>>

CloseSession ==
    /\ screen = "dashboard"
    /\ Move(UI, "asked", "answered")
    /\ live' = live \ {own}
    /\ UNCHANGED <<globals, sent, retried, using, effects, window, minted, stale, dead>>

(* set_token, then set_refresh_token; the dashboard opens.                 *)
SetToken ==
    /\ screen = "login"
    /\ Move(UI, "answered", "set")
    /\ access' = [sid |-> own, n |-> 1]
    /\ UNCHANGED <<refresh, lock, sent, retried, using, effects, window, server>>

SetRefreshToken ==
    /\ Move(UI, "set", "idle")
    /\ refresh' = own
    /\ screen' = "dashboard" /\ started' = TRUE
    /\ Forget(UI)
    /\ UNCHANGED <<access, lock, own, effects, server>>

(* The wrong password: a 401 like any other.                               *)
RejectLogin ==
    /\ screen = "login"
    /\ Move(UI, "asked", "rejected")
    /\ UNCHANGED <<globals, sent, retried, using, effects, window, server>>

(* The login is not answered.                                              *)
LoseLogin ==
    /\ screen = "login"
    /\ Done(UI, "asked") \/ Done(UI, "answered")
    /\ UNCHANGED globals

(* However the logout's call ends, clear_tokens; the login window opens    *)
(* and clears them again.                                                  *)
LoggedOut ==
    /\ screen = "dashboard" /\ pc[UI] \in {"asked", "answered"}
    /\ ClearTokens
    /\ screen' = "login"
    /\ pc' = [pc EXCEPT ![UI] = "idle"]
    /\ Forget(UI)
    /\ UNCHANGED <<lock, own, started, effects, server>>

-----------------------------------------------------------------------------
(* The rest of the world.                                                  *)

Aged == Cardinality(stale) + Cardinality(dead)
Issued == {k \in Tokens : k.n <= minted[k.sid]}

GoStale(k) ==
    /\ k \notin stale /\ Aged < MaxAge
    /\ stale' = stale \cup {k}
    /\ UNCHANGED <<globals, thread, window, live, minted, dead>>

GoDead(k) ==
    /\ k \notin dead /\ Aged < MaxAge
    /\ dead' = dead \cup {k}
    /\ UNCHANGED <<globals, thread, window, live, minted, stale>>

(* An administrator revokes the session, or it expires.                    *)
SessionEnds(s) ==
    /\ s \in live
    /\ live' = live \ {s}
    /\ UNCHANGED <<globals, thread, window, minted, stale, dead>>

(* What a thread does between two waits, and what it waits for.            *)
Proceeding(t) ==
    \/ Send(t) \/ Renew(t) \/ GiveUpCall(t)
    \/ StoreToken(t) \/ RefreshDenied(t)

Refreshing(t) == SkipRefresh(t) \/ CannotRefresh(t) \/ PostRefresh(t)

Answering(t) == Accept(t) \/ Reject(t) \/ Finish(t) \/ Lose(t)

AnsweringUI ==
    \/ OpenOwnSession \/ CloseSession \/ RejectLogin \/ LoseLogin
    \/ SetToken \/ SetRefreshToken \/ LoggedOut

ClientNext ==
    \/ \E t \in Workers : Call(t) \/ Answering(t)
    \/ LogIn \/ LogOut \/ AnsweringUI
    \/ \E t \in Threads :
        Proceeding(t) \/ Refreshing(t) \/ Grant(t) \/ Deny(t) \/ RefreshFails(t)
    \/ \E k \in Issued : GoStale(k) \/ GoDead(k)
    \/ \E s \in SessionIds : SessionEnds(s)

ClientSpec == ClientInit /\ [][ClientNext]_clientVars

-----------------------------------------------------------------------------
(* Safety.                                                                 *)

(* Types of all variables; the lock's holder, and nobody else, has a       *)
(* refresh under way.                                                      *)
ClientTypeOK ==
    /\ access \in Tokens \cup {None} /\ refresh \in SessionIds \cup {None}
    /\ sent \in [Threads -> Tokens \cup {None}]
    /\ retried \in [Threads -> BOOLEAN] /\ effects \in [Threads -> Nat]
    /\ \A t \in Threads :
          using[t] \in IF pc[t] = "granted" THEN Tokens ELSE SessionIds \cup {None}
    /\ screen \in {"login", "dashboard"} /\ own \in SessionIds \cup {None}
    /\ started \in BOOLEAN
    /\ live \subseteq SessionIds /\ minted \in [SessionIds -> 0 .. MaxToken]
    /\ stale \cup dead \subseteq Issued
    /\ lock \in Threads \cup {None}
    /\ \A t \in Threads : pc[t] \in {"posted", "granted", "denied"} <=> lock = t

(* A call that is repeated after a refresh has not been acted upon before: *)
(* api_request repeats only what a 401 refused.                            *)
AtMostOneEffect == \A t \in Threads : effects[t] <= 1

(* Nobody refreshes a token that is still good: threads that find the      *)
(* token rejected or stale at the same time share one refresh, and one     *)
(* that waited for the lock looks again.                                   *)
GrantsAreNeeded ==
    [][\A t \in Threads : Grant(t) =>
         ~(Accepted(access) /\ access.sid = using[t] /\ access \notin stale)]_clientVars

(* Stale tokens, overlapping refreshes, outages and lost answers alone     *)
(* never log the user out: in the first login of a process, while the      *)
(* server honours its session and every token it gave for it, the          *)
(* dashboard has its credentials.                                          *)
HonouredSessionIsKept ==
    (Opened = 1 /\ live = {1} /\ dead = {} /\ screen = "dashboard" /\ pc[UI] = "idle")
        => (refresh = 1 /\ access # None)

-----------------------------------------------------------------------------
(* Claims of the code that it does not keep.                               *)

(* logout: "always clears local credentials".  While the login window      *)
(* waits for its user no token is left.                                    *)
LoggedOutHasNoToken ==
    (screen = "login" /\ pc[UI] = "idle") => (access = None /\ refresh = None)

(* _try_refresh: "A temporary refresh failure should not erase a           *)
(* still-valid refresh token."  A call that gives up after one erases none *)
(* whose session is live.                                                  *)
TemporaryFailureKeepsRefreshToken ==
    [][\A t \in Threads :
         (GiveUpCall(t) /\ pc[t] = "unrenewed" /\ refresh \in live) => refresh' = refresh]_clientVars

-----------------------------------------------------------------------------
(* Liveness.  Threads take their steps and every wait has a timeout.  The  *)
(* lock is not handed out in order, but no thread holds it for ever, so    *)
(* nobody is always too late.  For DeadSessionEndsAtLogin: someone uses    *)
(* the program, and the server is not always out of reach.                 *)

TimesOut(t) == pc[t] = "posted" /\ RefreshFails(t)

Fairness ==
    /\ \A t \in Threads :
        /\ WF_clientVars(Proceeding(t)) /\ SF_clientVars(Refreshing(t))
        /\ WF_clientVars(Grant(t) \/ Deny(t) \/ TimesOut(t))
    /\ \A t \in Workers : WF_clientVars(Answering(t))
    /\ WF_clientVars(AnsweringUI)

Use ==
    /\ \A t \in Workers : SF_clientVars(Call(t)) /\ SF_clientVars(Reject(t))
    /\ \A t \in Threads : SF_clientVars(Deny(t)) /\ SF_clientVars(RefreshDenied(t))
    /\ WF_clientVars(access = None /\ LogOut)

FairClientSpec == ClientSpec /\ Fairness /\ Use

(* No call waits for ever, whoever holds the lock.                         *)
EveryCallEnds == \A t \in Threads : (pc[t] # "idle") ~> (pc[t] = "idle")

(* A dashboard whose session the server has ended returns to the login     *)
(* window, through the 401 that clears the tokens and the watchdog that    *)
(* finds none, unless a token of an earlier login was left (see            *)
(* LoggedOutHasNoToken).                                                   *)
DeadSessionEndsAtLogin ==
    (screen = "dashboard" /\ own \notin live)
        ~> (screen = "login" \/ (access # None /\ access.sid # own))
-----------------------------------------------------------------------------
(* The inductive invariant behind the safety properties.                   *)

Phases == {"idle", "ready", "asked", "answered", "set", "rejected", "renewing",
           "unrenewed", "posted", "granted", "denied"}

Places ==
    /\ pc \in [Threads -> Phases]
    /\ using = [t \in Threads |-> using[t]]

WasOpened(s) == minted[s] > 0

(* Sessions are opened one after the other, and the tokens are of those.   *)
OpenedInv ==
    /\ \A s \in SessionIds : WasOpened(s) <=> s <= Opened
    /\ \A s \in live : WasOpened(s)
    /\ access # None => WasOpened(access.sid)
    /\ refresh # None => WasOpened(refresh)

(* A login's session is the newest, and no refresh is of it yet; before    *)
(* the first dashboard no worker does anything.                            *)
LoginInv ==
    /\ screen = "login" => refresh = None
    /\ pc[UI] = "set" => screen = "login"
    /\ started => Opened > 0
    /\ ~started => screen = "login" /\ \A t \in Workers : pc[t] = "idle"
    /\ screen = "login" /\ pc[UI] \in {"answered", "set"} =>
          /\ own = Opened /\ Opened > 0
          /\ started => Opened > 1
          /\ \A t \in Threads : pc[t] = "posted" => using[t] # own
          /\ pc[UI] = "set" /\ Opened = 1 => access # None

(* While the first session is honoured, the dashboard has its tokens.      *)
Honoured == Opened = 1 /\ 1 \in live /\ dead = {}
HonouredInv == Honoured /\ screen = "dashboard" => refresh = 1 /\ access # None

(* What holds of a thread's call.  Its tokens are of sessions that were    *)
(* opened.                                                                 *)
Named(t) ==
    /\ sent[t] # None => WasOpened(sent[t].sid)
    /\ pc[t] = "posted" => using[t] # None /\ WasOpened(using[t])
    /\ pc[t] = "granted" => WasOpened(using[t].sid)

(* Nothing has been done for a call that will be sent, or sent again; one  *)
(* that was refused, but for a login, had a token that will not be         *)
(* accepted any more.                                                      *)
Undone(t) ==
    /\ effects[t] \in {0, 1}
    /\ pc[t] \notin {"idle", "answered", "set"} => effects[t] = 0
    /\ pc[t] \in {"idle", "ready"} => sent[t] = None
    /\ pc[t] \in {"rejected", "renewing", "posted"} /\ sent[t] # None =>
          (t = UI /\ screen = "login") \/ ~Accepted(sent[t])

(* The token it refreshes is not a good one.                               *)
Good(s) == Accepted(access) /\ access.sid = s /\ access \notin stale
Needed(t) == pc[t] = "posted" => ~Good(using[t])

(* While the first session is honoured, nothing it asks is refused.        *)
Unrefused(t) ==
    Honoured /\ screen = "dashboard" =>
        /\ pc[t] \notin {"rejected", "unrenewed", "denied"}
        /\ pc[t] = "asked" => sent[t] # None
        /\ pc[t] \in {"renewing", "posted", "granted"} => sent[t] = None
        /\ pc[t] = "posted" => using[t] = 1

CallInv == \A t \in Threads : Named(t) /\ Undone(t) /\ Needed(t) /\ Unrefused(t)

ClientInv == ClientTypeOK /\ Places /\ OpenedInv /\ LoginInv /\ HonouredInv /\ CallInv
=============================================================================
