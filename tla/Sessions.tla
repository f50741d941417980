-------------------------------- MODULE Sessions --------------------------------
(***************************************************************************)
(* The login sessions of one user: LoginAction, RefreshAction and          *)
(* TokenService on the server; TokenManager in the tabs of one browser,    *)
(* which keep an access token each and share the stored refresh token.     *)
(*                                                                         *)
(* Every statement or transaction of the server is a step of its own;      *)
(* requests, logins and revocations interleave.  A request may be lost     *)
(* before or after the server acted on it.  An access token may expire at  *)
(* any time, so a tab may refresh at any time.  The expiry of a session    *)
(* (30 days, rolled by each rotation) is left out, and with it the purge   *)
(* of lineage rows as old as that.                                         *)
(***************************************************************************)
EXTENDS Naturals, FiniteSets

CONSTANTS Tab,
          Request,      \* POST /auth/refresh, each sent once
          MaxLogins,    \* bound: sessions created
          MaxTokens,    \* bound: refresh tokens issued
          MaxClears,    \* bound: times a tab clears its tokens
          MaxSessions,  \* auth.max_sessions_per_user
          None

Session == 1..MaxLogins
Token == 1..MaxTokens

ASSUME SessionsAssumption ==
    /\ MaxLogins \in Nat /\ MaxTokens \in Nat /\ MaxClears \in Nat
    /\ MaxSessions \in Nat \ {0}
    /\ None \notin Request /\ None \notin Nat

VARIABLES
    session,   \* sessions: the current refresh token, revoked or not
    lineage,   \* refresh_token_lineage: the session that consumed a token
    issued,    \* refresh tokens issued so far
    login,     \* per session: what LoginAction still does
    req,       \* refresh requests
    tab,       \* TokenManager of each tab
    store      \* localStorage: the refresh token, or 0

vars == <<session, lineage, issued, login, req, tab, store>>

-------------------------------------------------------------------------------
(* Types *)

SessionRow == [state : {"none", "live", "revoked"}, hash : Token \cup {0}]

Login == [pc : {"idle", "select", "evict", "answered"}, overflow : SUBSET Session]
NoLogin == [pc |-> "idle", overflow |-> {}]

(* heir: the token rotated in, sent back in an answer that is "ok".        *)
Refresh == [pc : {"free", "sent", "found", "lineage", "revoke", "issue", "answered", "body", "done"},
            tab : Tab \cup {None}, epoch : 0..MaxClears, token : Token \cup {0},
            session : Session \cup {0}, heir : Token \cup {0},
            result : {"none", "ok", "reused", "invalid", "error"}, lost : BOOLEAN]
NoRefresh == [pc |-> "free", tab |-> None, epoch |-> 0, token |-> 0, session |-> 0, heir |-> 0,
              result |-> "none", lost |-> FALSE]

(* flight: refreshInFlight; login and asked: the login under way and the   *)
(* epoch it was posted in; access: the epoch in which the tab asked for the *)
(* access token it holds, if it holds one.                                 *)
TokenManager == [access : (0..MaxClears) \cup {None}, epoch : 0..MaxClears, flight : Request \cup {None},
                 login : Session \cup {0}, asked : 0..MaxClears]

TypeOK ==
    /\ session \in [Session -> SessionRow]
    /\ lineage \in [Token -> Session \cup {0}]
    /\ issued \in 0..MaxTokens
    /\ login \in [Session -> Login]
    /\ req \in [Request -> Refresh]
    /\ tab \in [Tab -> TokenManager]
    /\ \A t \in Tab : tab[t].flight # None =>             \* or the tab never refreshes again
          req[tab[t].flight].tab = t /\ req[tab[t].flight].pc \notin {"free", "done"}
    /\ store \in Token \cup {0}

Init ==
    /\ session = [s \in Session |-> [state |-> "none", hash |-> 0]]
    /\ lineage = [k \in Token |-> 0]
    /\ issued = 0
    /\ login = [s \in Session |-> NoLogin]
    /\ req = [q \in Request |-> NoRefresh]
    /\ tab = [t \in Tab |-> [access |-> None, epoch |-> 0, flight |-> None, login |-> 0, asked |-> 0]]
    /\ store = 0

-------------------------------------------------------------------------------
(* Helpers *)

Live == {s \in Session : session[s].state = "live"}
Revoked(s) == [session EXCEPT ![s].state = "revoked"]

Step(q, pc) == req' = [req EXCEPT ![q].pc = pc]
Answer(q, result) == req' = [req EXCEPT ![q].pc = "answered", ![q].result = result]
Done(q) == [req EXCEPT ![q].pc = "done"]

(* clear()                                                                 *)
Cleared(t) == [tab[t] EXCEPT !.epoch = @ + 1, !.flight = None, !.access = None]
MayClear(t) == tab[t].epoch < MaxClears

(* What was asked for in an epoch is answered in it (TokenManager.doRefresh *)
(* and ApiClient.requestInner compare; else 'Session changed').            *)
AnyEpoch(t, epoch) == TRUE                                  \* mutant: not compared
SameEpoch(t, epoch) == epoch = tab[t].epoch

(* finally: refreshInFlight is reset if it is still this request.          *)
LandedNever(q, manager) == manager                          \* mutant: no finally
Landed(q, manager) == IF manager.flight = q THEN [manager EXCEPT !.flight = None] ELSE manager

-------------------------------------------------------------------------------
(* LoginAction *)

(* The tab forgets its tokens and posts the credentials; a session is made. *)
establishSession(t, s) ==
    /\ tab[t].login = 0 /\ MayClear(t) /\ issued < MaxTokens
    /\ session[s].state = "none" /\ \A r \in Session : r < s => session[r].state # "none"
    /\ session' = [session EXCEPT ![s] = [state |-> "live", hash |-> issued + 1]]
    /\ issued' = issued + 1
    /\ login' = [login EXCEPT ![s].pc = "select"]
    /\ tab' = [tab EXCEPT ![t] = [Cleared(t) EXCEPT !.login = s, !.asked = tab[t].epoch + 1]]
    /\ store' = 0
    /\ UNCHANGED <<lineage, req>>

(* All but the MaxSessions - 1 most recently used others are selected ...  *)
KeptMax(others) == {K \in SUBSET others :                   \* mutant: off by one
    Cardinality(K) = IF Cardinality(others) < MaxSessions THEN Cardinality(others) ELSE MaxSessions}
Kept(others) ==
    {K \in SUBSET others :
        Cardinality(K) = IF Cardinality(others) < MaxSessions THEN Cardinality(others) ELSE MaxSessions - 1}

evictOverflowSessions(s) ==
    /\ login[s].pc = "select"
    /\ \E K \in Kept(Live \ {s}) : login' = [login EXCEPT ![s] = [pc |-> "evict", overflow |-> (Live \ {s}) \ K]]
    /\ UNCHANGED <<session, lineage, issued, req, tab, store>>

(* ... and revoked one after the other; then an access token is issued.    *)
evict(s) ==
    /\ login[s].pc = "evict"
    /\ \E r \in login[s].overflow :
        /\ session' = Revoked(r)
        /\ login' = [login EXCEPT ![s].overflow = @ \ {r}]
    /\ UNCHANGED <<lineage, issued, req, tab, store>>

loginIssues(s) ==
    /\ login[s].pc = "evict" /\ login[s].overflow = {}
    /\ login' = [login EXCEPT ![s].pc = "answered"]
    /\ UNCHANGED <<session, lineage, issued, req, tab, store>>

(* installSession(), unless the tab has cleared its tokens since.  The     *)
(* refresh token is the one the session was made with.                     *)
installSession(t) ==
    LET s == tab[t].login
    IN /\ s # 0 /\ login[s].pc = "answered" /\ SameEpoch(t, tab[t].asked)
       /\ tab' = [tab EXCEPT ![t] = [@ EXCEPT !.login = 0, !.access = tab[t].asked]]
       /\ store' = session[s].hash
       /\ login' = [login EXCEPT ![s] = NoLogin]
       /\ UNCHANGED <<session, lineage, issued, req>>

(* The answer is lost, or the tab has moved on ('Session changed'): nothing *)
(* is installed.                                                           *)
loginFails(t) ==
    /\ tab[t].login # 0
    /\ tab' = [tab EXCEPT ![t].login = 0]
    /\ UNCHANGED <<session, lineage, issued, login, req, store>>

(* logout, logoutAll, remote revocation, a changed password, an admin.     *)
revokeSession(s) ==
    /\ s \in Live /\ session' = Revoked(s)
    /\ UNCHANGED <<lineage, issued, login, req, tab, store>>

-------------------------------------------------------------------------------
(* TokenManager *)

(* A 401: the first caller sends the stored token, the others wait for it. *)
refresh(t, q) ==
    /\ tab[t].flight = None /\ store # 0 /\ req[q] = NoRefresh
    /\ req' = [req EXCEPT ![q] = [NoRefresh EXCEPT !.pc = "sent", !.tab = t, !.epoch = tab[t].epoch, !.token = store]]
    /\ tab' = [tab EXCEPT ![t].flight = q]
    /\ UNCHANGED <<session, lineage, issued, login, store>>

(* logout(): what it asks of the server is revokeSession.                  *)
clear(t) ==
    /\ MayClear(t)
    /\ tab' = [tab EXCEPT ![t] = Cleared(t)]
    /\ store' = 0
    /\ UNCHANGED <<session, lineage, issued, login, req>>

Current(q) == SameEpoch(req[q].tab, req[q].epoch)

(* The head of an answer arrives: it is for an earlier session of the tab, *)
(* or a refusal, after which everything is cleared, or its body is read.   *)
Arrives(q) == req[q].pc = "answered" /\ ~req[q].lost

ignored(q) ==
    /\ (Arrives(q) \/ req[q].pc = "body") /\ ~Current(q)
    /\ req' = Done(q) /\ tab' = [tab EXCEPT ![req[q].tab] = Landed(q, @)]
    /\ UNCHANGED <<session, lineage, issued, login, store>>

refused(q) ==
    LET t == req[q].tab
    IN /\ Arrives(q) /\ Current(q) /\ req[q].result # "ok" /\ MayClear(t)
       /\ req' = Done(q) /\ tab' = [tab EXCEPT ![t] = Cleared(t)] /\ store' = 0
       /\ UNCHANGED <<session, lineage, issued, login>>

bodyFollows(q) ==
    /\ Arrives(q) /\ Current(q) /\ req[q].result = "ok"
    /\ Step(q, "body")
    /\ UNCHANGED <<session, lineage, issued, login, tab, store>>

setTokens(q) ==
    LET t == req[q].tab
    IN /\ req[q].pc = "body" /\ Current(q)
       /\ req' = Done(q)
       /\ tab' = [tab EXCEPT ![t] = [Landed(q, @) EXCEPT !.access = req[q].epoch]]
       /\ store' = req[q].heir
       /\ UNCHANGED <<session, lineage, issued, login>>

(* The connection breaks: refresh() returns null and keeps what is stored, *)
(* whatever the server does with the request.                              *)
lose(q) ==
    /\ req[q].pc \notin {"free", "done"} /\ ~req[q].lost
    /\ req' = [req EXCEPT ![q].lost = TRUE, ![q].pc = IF @ \in {"answered", "body"} THEN "done" ELSE @]
    /\ tab' = [tab EXCEPT ![req[q].tab] = Landed(q, @)]
    /\ UNCHANGED <<session, lineage, issued, login, store>>

-------------------------------------------------------------------------------
(* RefreshAction *)

Holder(q) == {s \in Session : session[s].hash = req[q].token}

execute(q) ==
    /\ req[q].pc = "sent"
    /\ \/ Holder(q) = {} /\ Step(q, "lineage")
       \/ \E s \in Holder(q) :
            \/ s \in Live /\ req' = [req EXCEPT ![q].pc = "found", ![q].session = s]
            \/ s \notin Live /\ Answer(q, "invalid")
    /\ UNCHANGED <<session, lineage, issued, login, tab, store>>

(* UPDATE ... WHERE refresh_token_hash = token AND revoked_at IS NULL       *)
MayRotateSame(q) == session[req[q].session].hash = req[q].token   \* mutant: revoked or not
MayRotate(q) == session[req[q].session].hash = req[q].token /\ req[q].session \in Live

(* Mutant: the consumed token is not recorded.                             *)
rotateUnrecorded(q) ==
    /\ req[q].pc = "found"
    /\ IF MayRotate(q)
       THEN /\ issued < MaxTokens /\ issued' = issued + 1
            /\ session' = [session EXCEPT ![req[q].session].hash = issued + 1]
            /\ req' = [req EXCEPT ![q].pc = "issue", ![q].heir = issued + 1]
       ELSE Step(q, "lineage") /\ UNCHANGED <<session, issued>>
    /\ UNCHANGED <<lineage, login, tab, store>>

(* The token is replaced and recorded as consumed, in one transaction; or  *)
(* no row was there to update.                                             *)
rotateRefreshToken(q) ==
    LET s == req[q].session
    IN /\ req[q].pc = "found"
       /\ IF MayRotate(q)
          THEN /\ issued < MaxTokens /\ issued' = issued + 1
               /\ session' = [session EXCEPT ![s].hash = issued + 1]
               /\ lineage' = [lineage EXCEPT ![req[q].token] = s]
               /\ req' = [req EXCEPT ![q].pc = "issue", ![q].heir = issued + 1]
          ELSE Step(q, "lineage") /\ UNCHANGED <<session, lineage, issued>>
       /\ UNCHANGED <<login, tab, store>>

issueAccessToken(q) ==
    /\ req[q].pc = "issue" /\ Answer(q, "ok")
    /\ UNCHANGED <<session, lineage, issued, login, tab, store>>

detectReuseOrFail(q) ==
    LET s == lineage[req[q].token]
    IN /\ req[q].pc = "lineage"
       /\ \/ s = 0 /\ Answer(q, "invalid")
          \/ s # 0 /\ s \in Live /\ req' = [req EXCEPT ![q].pc = "revoke", ![q].session = s]
          \/ s # 0 /\ s \notin Live /\ Answer(q, "reused")
       /\ UNCHANGED <<session, lineage, issued, login, tab, store>>

revokeReused(q) ==
    /\ req[q].pc = "revoke"
    /\ session' = Revoked(req[q].session) /\ Answer(q, "reused")
    /\ UNCHANGED <<lineage, issued, login, tab, store>>

(* The server fails (5xx) between two of its steps.                        *)
serverFails(q) ==
    /\ req[q].pc \in {"sent", "found", "lineage", "revoke", "issue"} /\ Answer(q, "error")
    /\ UNCHANGED <<session, lineage, issued, login, tab, store>>

-------------------------------------------------------------------------------
(* Specification *)

Server(q) ==
    execute(q) \/ rotateRefreshToken(q) \/ issueAccessToken(q)
        \/ detectReuseOrFail(q) \/ revokeReused(q) \/ serverFails(q)

Client(q) == ignored(q) \/ refused(q) \/ bodyFollows(q) \/ setTokens(q) \/ lose(q)

Next ==
    \/ \E t \in Tab, s \in Session : establishSession(t, s)
    \/ \E s \in Session : evictOverflowSessions(s) \/ evict(s) \/ loginIssues(s) \/ revokeSession(s)
    \/ \E t \in Tab : installSession(t) \/ loginFails(t) \/ clear(t)
    \/ \E t \in Tab, q \in Request : refresh(t, q)
    \/ \E q \in Request : Server(q) \/ Client(q)

Spec == Init /\ [][Next]_vars

-------------------------------------------------------------------------------
(* Properties *)

(* Of the requests that present one refresh token at most one is given a   *)
(* successor, however they overlap (TokenService::rotateRefreshToken, R5); *)
(* any other is told of the reuse, never just "invalid", and by then the   *)
(* session is revoked (RefreshAction::detectReuseOrFail, R6).              *)
OneHeir ==
    \A p, q \in Request :
        p # q /\ req[p].token = req[q].token /\ req[p].heir # 0 =>
            /\ req[q].heir = 0
            /\ req[q].result \in {"reused", "invalid"} =>
                  req[q].result = "reused" /\ req[p].session \notin Live

(* A session once revoked stays so and its token is never rotated, though  *)
(* requests that found it live are still under way.                        *)
RevokedIsFinal ==
    [][\A s \in Session : session[s].state = "revoked" => session'[s] = session[s]]_vars

(* A tab that holds an access token asked for it since its last clear():   *)
(* after a logout, or a refused refresh, neither the answer to a refresh   *)
(* nor the answer to a login sent before gives the tab a session, though   *)
(* both may still arrive (the epoch in TokenManager.doRefresh, ApiClient). *)
ClearedStaysCleared == \A t \in Tab : tab[t].access \in {None, tab[t].epoch}

(* When no login is under way, the user has at most MaxSessions sessions,  *)
(* though logins evict without a lock (LoginAction::evictOverflowSessions). *)
SessionLimit ==
    (\A s \in Session : login[s].pc \in {"idle", "answered"}) => Cardinality(Live) <= MaxSessions

===============================================================================
