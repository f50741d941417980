----------------------------- MODULE SessionsProofs -----------------------------
(***************************************************************************)
(* Proofs about Sessions, for any number of tabs, requests, sessions and   *)
(* tokens, and any limit of sessions.                                      *)
(***************************************************************************)
EXTENDS Sessions, FiniteSetTheorems, TLAPS

(* A token whose session was revoked before the token was consumed.        *)
Dead(k) == \E s \in Session : session[s].state = "revoked" /\ session[s].hash = k

(* A token is the current one of one session, or it was consumed.          *)
TableOK ==
    /\ \A s \in Session : /\ session[s].hash <= issued
                          /\ session[s].state = "none" <=> session[s].hash = 0
    /\ \A s, r \in Session : s # r /\ session[s].hash = session[r].hash => session[s].hash = 0
    /\ \A k \in Token : lineage[k] # 0 =>
          /\ k <= issued /\ session[lineage[k]].state # "none"
          /\ \A s \in Session : session[s].hash # k
    /\ \A k \in Token : k <= issued => lineage[k] # 0 \/ \E s \in Session : session[s].hash = k
    /\ \A s \in Session : \A r \in login[s].overflow : session[r].state # "none"
    /\ store <= issued

(* What a request has read is still true, or was made untrue by a rotation *)
(* that the tables remember.                                               *)
ServerOK(q) ==
    LET r == req[q] IN
    /\ r.pc = "free" => r = NoRefresh
    /\ r.pc # "free" => r.token \in Token /\ r.token <= issued
    /\ r.pc \in {"sent", "found", "lineage", "revoke"} => r.heir = 0
    /\ r.pc = "found" =>
          /\ r.session \in Session /\ session[r.session].state # "none"
          /\ session[r.session].hash = r.token \/ lineage[r.token] = r.session
    /\ r.pc = "lineage" => lineage[r.token] # 0 \/ Dead(r.token)
    /\ r.pc = "revoke" => r.session # 0 /\ lineage[r.token] = r.session
    /\ r.heir <= issued /\ (r.heir # 0 => r.session # 0 /\ lineage[r.token] = r.session)
    /\ r.result = "invalid" => Dead(r.token)
    /\ r.result = "reused" => lineage[r.token] # 0 /\ session[lineage[r.token]].state = "revoked"

(* A request is of a tab, in the epoch of now or an earlier one.           *)
ClientOK(q) ==
    LET r == req[q] IN
    r.pc # "free" =>
        /\ r.tab \in Tab
        /\ r.epoch <= tab[r.tab].epoch

(* Of the requests with one token, one at most has an heir.                *)
HeirUnique ==
    \A p, q \in Request : p # q /\ req[p].token = req[q].token /\ req[p].heir # 0 => req[q].heir = 0

IInv ==
    /\ TypeOK
    /\ TableOK
    /\ \A q \in Request : ServerOK(q) /\ ClientOK(q)
    /\ HeirUnique
    /\ ClearedStaysCleared

(* How the tables may change.                                              *)
Grows ==
    /\ issued' \in Nat /\ issued <= issued'
    /\ \A k \in Token : lineage[k] # 0 => lineage'[k] = lineage[k]
    /\ \A s \in Session : session[s].state = "revoked" => session'[s] = session[s]
    /\ \A s \in Session : session[s].state # "none" =>
          /\ session'[s].state # "none"
          /\ session'[s].hash = session[s].hash \/ lineage'[session[s].hash] = s

-------------------------------------------------------------------------------

(* Nobody is logged in at first.                                           *)
LEMMA InitIInv == Init => IInv
<1> SUFFICES ASSUME Init PROVE IInv
  OBVIOUS
<1> USE DEF Init
<1>1. TypeOK
  BY SessionsAssumption DEF TypeOK, SessionRow, Login, NoLogin, Refresh, NoRefresh, TokenManager, Session, Token
<1>2. TableOK
  BY SessionsAssumption DEF TableOK, NoLogin, Session, Token
<1>3. \A q \in Request : ServerOK(q) /\ ClientOK(q)
  BY DEF ServerOK, ClientOK, NoRefresh, Dead
<1>4. HeirUnique /\ ClearedStaysCleared
  BY DEF HeirUnique, ClearedStaysCleared, NoRefresh
<1> QED
  BY <1>1, <1>2, <1>3, <1>4 DEF IInv

(* What the actions leave of a request that is not theirs.                 *)
LEMMA OthersStay ==
    ASSUME IInv, Grows, NEW q \in Request, req'[q] = req[q]
    PROVE  ServerOK(q)'
<1>1. TypeOK /\ TableOK /\ ServerOK(q)
  BY DEF IInv
<1>2. /\ req[q] \in Refresh
      /\ session \in [Session -> SessionRow] /\ lineage \in [Token -> Session \cup {0}]
      /\ issued \in 0..MaxTokens
  BY <1>1 DEF TypeOK
<1>3. ASSUME Dead(req[q].token) PROVE Dead(req[q].token)'
  BY <1>3 DEF Dead, Grows
<1>4. /\ req[q].token \in Token \cup {0} /\ req[q].session \in Session \cup {0}
      /\ 0 \notin Session /\ issued \in Nat /\ req[q].heir \in Nat
      /\ \A k \in Token : k \in Nat
  BY <1>2, SessionsAssumption DEF Refresh, Session, Token
<1>5. req[q].pc # "free" => req[q].token \in Token /\ req[q].token <= issued'
  BY <1>1, <1>2, <1>4, SessionsAssumption DEF ServerOK, Grows, Token
<1>6. ASSUME req[q].pc = "found"
      PROVE  /\ session'[req[q].session].state # "none"
             /\ session'[req[q].session].hash = req[q].token \/ lineage'[req[q].token] = req[q].session
  BY <1>1, <1>5, <1>6, <1>4 DEF ServerOK, Grows
<1>7. ASSUME req[q].token \in Token, lineage[req[q].token] # 0
      PROVE  /\ lineage'[req[q].token] = lineage[req[q].token]
             /\ lineage[req[q].token] \in Session
             /\ session[lineage[req[q].token]].state = "revoked"
                    => session'[lineage[req[q].token]].state = "revoked"
  BY <1>7, <1>2 DEF Grows
<1>8. ASSUME req[q].pc = "lineage" PROVE lineage'[req[q].token] # 0 \/ Dead(req[q].token)'
  BY <1>1, <1>3, <1>5, <1>7, <1>8 DEF ServerOK
<1>9. issued' \in Nat /\ req[q].heir <= issued'
  BY <1>1, <1>2, <1>4 DEF ServerOK, Grows
<1>10. req[q].pc = "free" => req[q] = NoRefresh
  BY <1>1 DEF ServerOK
<1>11. req[q].heir # 0 \/ req[q].result \in {"invalid", "reused"} => req[q].pc # "free"
  BY <1>10 DEF NoRefresh
<1> QED
  BY <1>1, <1>3, <1>5, <1>6, <1>7, <1>8, <1>9, <1>10, <1>11 DEF ServerOK

(* A step keeps the tables right and only lets them grow.                  *)
LEMMA TableStep == ASSUME IInv, [Next]_vars PROVE TableOK' /\ Grows
<1> USE DEF TypeOK, TableOK, Grows, SessionRow
<1>0. /\ TypeOK /\ TableOK
      /\ \A q \in Request : ServerOK(q)
  BY DEF IInv
<1>n. issued \in Nat /\ store \in Nat /\ \A r \in Session : session[r].hash \in Nat
  BY <1>0, SessionsAssumption DEF Token
<1>1. ASSUME NEW t \in Tab, NEW s \in Session, establishSession(t, s)
      PROVE  TableOK' /\ Grows
  <2>1. /\ session[s].state = "none" /\ issued < MaxTokens /\ UNCHANGED lineage
        /\ session' = [session EXCEPT ![s] = [state |-> "live", hash |-> issued + 1]]
        /\ issued' = issued + 1 /\ store' = 0
    BY <1>1 DEF establishSession
  <2>4. \A r \in Session : login'[r].overflow = login[r].overflow
    BY <1>0, <1>1 DEF establishSession
  <2>2. session[s].hash = 0 /\ \A k \in Token : lineage[k] # s
    BY <1>0, <2>1, SessionsAssumption DEF Session
  <2>3. /\ session'[s] = [state |-> "live", hash |-> issued + 1]
        /\ \A r \in Session : r # s => session'[r] = session[r]
    BY <1>0, <2>1
  <2>5. \A k \in Token : lineage'[k] # 0 =>
          /\ k <= issued' /\ session'[lineage'[k]].state # "none"
          /\ \A r \in Session : session'[r].hash # k
    <3> SUFFICES ASSUME NEW k \in Token, lineage[k] # 0
                 PROVE  /\ k <= issued' /\ session'[lineage[k]].state # "none"
                        /\ \A r \in Session : session'[r].hash # k
      BY <2>1
    <3>1. k \in Nat /\ lineage[k] \in Session
      BY <1>0, SessionsAssumption DEF Token
    <3>2. k <= issued /\ session[lineage[k]].state # "none" /\ \A r \in Session : session[r].hash # k
      BY <1>0
    <3>3. k <= issued' /\ k # issued + 1
      BY <1>n, <2>1, <3>1, <3>2
    <3>4. lineage[k] # s
      BY <2>1, <3>2
    <3> QED
      BY <2>3, <3>1, <3>2, <3>3, <3>4
  <2>6. \A k \in Token : k <= issued' => lineage'[k] # 0 \/ \E r \in Session : session'[r].hash = k
    <3> SUFFICES ASSUME NEW k \in Token, k <= issued' PROVE lineage'[k] # 0 \/ \E r \in Session : session'[r].hash = k
      OBVIOUS
    <3>1. k \in Nat \ {0}
      BY SessionsAssumption DEF Token
    <3>2. CASE k = issued + 1
      BY <2>3, <3>2
    <3>3. CASE k <= issued
      <4>1. lineage[k] # 0 \/ \E r \in Session : session[r].hash = k
        BY <1>0, <3>3
      <4>2. \A r \in Session : session[r].hash = k => r # s
        BY <2>2, <3>1
      <4> QED
        BY <2>1, <2>3, <4>1, <4>2
    <3> QED
      BY <1>0, <2>1, <3>1, <3>2, <3>3
  <2>7. \A x, y \in Session : x # y /\ session'[x].hash = session'[y].hash => session'[x].hash = 0
    BY <1>0, <2>1, <2>3, SessionsAssumption DEF Session, Token
  <2>8. Grows
    BY <1>0, <2>1, <2>3, <2>4, SessionsAssumption DEF Session, Token
  <2>9. \A r \in Session : session'[r].hash <= issued' /\ (session'[r].state = "none" <=> session'[r].hash = 0)
    BY <1>0, <1>n, <2>1, <2>3
  <2>10. \A r \in Session : \A x \in login'[r].overflow : session'[x].state # "none"
    <3>1. \A r \in Session : login[r].overflow \subseteq Session
      BY <1>0 DEF Login
    <3> QED
      BY <1>0, <2>3, <2>4, <3>1
  <2>11. store' <= issued'
    BY <1>n, <2>1
  <2> QED
    BY ONLY <2>5, <2>6, <2>7, <2>8, <2>9, <2>10, <2>11 DEF TableOK
<1>2. ASSUME NEW s \in Session, evict(s) \/ revokeSession(s)
      PROVE  TableOK' /\ Grows
  <2>1. PICK r \in Session : session' = Revoked(r) /\ session[r].state # "none"
    BY <1>0, <1>2 DEF evict, revokeSession, Live, Login
  <2> QED
    <3>1. /\ UNCHANGED <<lineage, issued, store>>
          /\ \A t \in Session : login'[t].overflow \subseteq login[t].overflow
          /\ \A t \in Session : login[t].overflow \subseteq Session
      <4>1. \A t \in Session : login[t].overflow \subseteq Session
        BY <1>0 DEF Login
      <4>2. CASE evict(s)
        <5>1. PICK r1 : login' = [login EXCEPT ![s].overflow = @ \ {r1}]
          BY <4>2 DEF evict
        <5>2. login \in [Session -> Login]
          BY <1>0
        <5>3. \A t \in Session : login'[t].overflow \subseteq login[t].overflow
          BY <5>1, <5>2 DEF Login
        <5> QED
          BY <4>1, <4>2, <5>3 DEF evict
      <4> QED
        BY <1>2, <4>1, <4>2 DEF revokeSession
    <3>2. /\ \A x \in Session : session'[x].hash = session[x].hash
          /\ \A x \in Session : session'[x].state = "none" <=> session[x].state = "none"
          /\ \A x \in Session : session[x].state = "revoked" => session'[x] = session[x]
      BY <1>0, <2>1 DEF Revoked
    <3>3. /\ \A t \in Session : \A x \in login'[t].overflow : session'[x].state # "none"
          /\ \A k \in Token : lineage[k] # 0 => lineage[k] \in Session
          /\ issued \in Nat
      BY <1>0, <3>1, <3>2
    <3>4. Grows
      BY <1>0, <3>1, <3>2, <3>3
    <3>5. TableOK'
      BY <1>0, <3>1, <3>2, <3>3
    <3> QED
      BY <3>4, <3>5
<1>3. ASSUME NEW q \in Request, rotateRefreshToken(q)
      PROVE  TableOK' /\ Grows
  <2> DEFINE s == req[q].session
             k == req[q].token
  <2>1. /\ s \in Session /\ session[s].state # "none" /\ k \in Token /\ k <= issued
        /\ req[q].pc = "found"
    BY <1>0, <1>3 DEF rotateRefreshToken, ServerOK
  <2>2. CASE ~MayRotate(q)
    BY <1>0, <1>3, <2>2 DEF rotateRefreshToken
  <2>3. CASE MayRotate(q)
    <3>1. /\ issued' = issued + 1 /\ issued < MaxTokens
          /\ session' = [session EXCEPT ![s].hash = issued + 1]
          /\ lineage' = [lineage EXCEPT ![k] = s]
          /\ store' = store /\ login' = login /\ session[s].hash = k
      BY <1>3, <2>3 DEF rotateRefreshToken, MayRotate
    <3>2. session[s].state # "revoked"
      BY <2>3 DEF MayRotate, Live
    <3> HIDE DEF s, k
    <3> QED
      <4>1. /\ session'[s].hash = issued + 1 /\ session'[s].state = session[s].state
            /\ \A r \in Session : r # s => session'[r] = session[r]
            /\ lineage'[k] = s /\ \A j \in Token : j # k => lineage'[j] = lineage[j]
            /\ issued \in Nat /\ k \in Nat \ {0} /\ lineage[k] = 0
        BY <1>0, <2>1, <3>1, SessionsAssumption DEF Session, Token
      <4>2. \A r \in Session : r # s => session[r].hash # k
        BY <1>0, <2>1, <3>1, <4>1
      <4>3. Grows
        BY <1>0, <2>1, <3>1, <4>1, <3>2
      <4>4. \A j \in Token : lineage'[j] # 0 =>
              /\ j <= issued' /\ session'[lineage'[j]].state # "none"
              /\ \A r \in Session : session'[r].hash # j
        BY <1>0, <2>1, <3>1, <4>1, <4>2, SessionsAssumption DEF Session, Token
      <4>5. ASSUME NEW j \in Token, j <= issued' PROVE lineage'[j] # 0 \/ \E r \in Session : session'[r].hash = j
        <5>1. s # 0 /\ j \in Nat
          BY <2>1, SessionsAssumption DEF Session, Token
        <5>2. CASE j = issued + 1
          BY <2>1, <4>1, <5>2
        <5>3. CASE j = k
          BY <4>1, <5>1, <5>3
        <5>4. CASE j <= issued /\ j # k
          <6>1. lineage[j] # 0 \/ \E r \in Session : session[r].hash = j
            BY <1>0, <5>4
          <6>2. \A r \in Session : session[r].hash = j => r # s
            BY <3>1, <5>4
          <6> QED
            BY <4>1, <5>4, <6>1, <6>2
        <5> QED
          BY <3>1, <4>1, <4>5, <5>1, <5>2, <5>3, <5>4
      <4>6. \A x, y \in Session : x # y /\ session'[x].hash = session'[y].hash => session'[x].hash = 0
        BY <1>0, <2>1, <3>1, <4>1, SessionsAssumption DEF Session, Token
      <4>7. \A r \in Session : session'[r].hash <= issued' /\ (session'[r].state = "none" <=> session'[r].hash = 0)
        BY <1>0, <1>n, <2>1, <3>1, <4>1
      <4>8. \A r \in Session : \A x \in login'[r].overflow : session'[x].state # "none"
        <5>1. \A r \in Session : login[r].overflow \subseteq Session
          BY <1>0 DEF Login
        <5> QED
          BY <1>0, <2>1, <3>1, <4>1, <5>1
      <4>9. store' <= issued'
        BY <1>0, <1>n, <3>1
      <4> QED
        BY ONLY <4>3, <4>4, <4>5, <4>6, <4>7, <4>8, <4>9 DEF TableOK
  <2> QED
    BY <2>2, <2>3
<1>4. ASSUME NEW q \in Request, revokeReused(q)
      PROVE  TableOK' /\ Grows
  <2> DEFINE s == req[q].session
  <2>1. s \in Session /\ session[s].state # "none"
    BY <1>0, <1>4 DEF revokeReused, ServerOK
  <2>2. session' = [session EXCEPT ![s].state = "revoked"] /\ UNCHANGED <<lineage, issued, login, store>>
    BY <1>4 DEF revokeReused, Revoked
  <2> HIDE DEF s
  <2>3. session[s].state = "revoked" => session' = session
    BY <1>0, <2>1, <2>2
  <2> QED
    BY <1>0, <2>1, <2>2, <2>3, SessionsAssumption DEF Session, Token
<1>5. ASSUME NEW t \in Tab, installSession(t)
      PROVE  TableOK' /\ Grows
  <2>1. \A s \in Session : login'[s].overflow \subseteq login[s].overflow
    BY <1>0, <1>5 DEF installSession, NoLogin
  <2> QED
    BY <1>0, <1>5, <2>1 DEF installSession, TokenManager
<1>6. ASSUME NEW q \in Request, setTokens(q)
      PROVE  TableOK' /\ Grows
  BY <1>0, <1>6 DEF setTokens, ServerOK
<1>7. ASSUME UNCHANGED <<session, lineage, issued>>, store' \in {0, store},
             \A s \in Session : \A r \in login'[s].overflow : session[r].state # "none"
      PROVE  TableOK' /\ Grows
  BY <1>0, <1>7
<1>8. ASSUME NEW s \in Session, evictOverflowSessions(s)
      PROVE  TableOK' /\ Grows
  <2>1. UNCHANGED <<session, lineage, issued, store>>
    BY <1>8 DEF evictOverflowSessions
  <2>2. \A t \in Session : \A r \in login'[t].overflow : r \in login[t].overflow \/ r \in Live
    BY <1>0, <1>8 DEF evictOverflowSessions
  <2> QED
    BY <1>7, <1>0, <2>1, <2>2 DEF Live
<1>9. ASSUME NEW s \in Session, loginIssues(s)
      PROVE  TableOK' /\ Grows
  <2>1. \A t \in Session : login'[t].overflow \subseteq login[t].overflow
    BY <1>0, <1>9 DEF loginIssues
  <2> QED
    BY <1>7, <1>0, <1>9, <2>1 DEF loginIssues
<1> QED
  BY <1>0, <1>1, <1>2, <1>3, <1>4, <1>5, <1>6, <1>7, <1>8, <1>9
     DEF Next, Server, Client, vars, loginFails, clear,
         refresh, execute, issueAccessToken, detectReuseOrFail, serverFails, ignored, refused, bodyFollows, lose

(* Every request still says the truth about the tables after a step: the   *)
(* others because tables only grow, the one that moved by what it read.    *)
LEMMA ServerStep == ASSUME IInv, [Next]_vars PROVE \A q \in Request : ServerOK(q)'
<1>1. Grows
  BY TableStep
<1>2. ASSUME req' = req PROVE \A q \in Request : ServerOK(q)'
  BY <1>1, <1>2, OthersStay
<1>3. ASSUME NEW q \in Request, ServerOK(q)', \A p \in Request : p # q => req'[p] = req[p]
      PROVE  \A p \in Request : ServerOK(p)'
  BY <1>1, <1>3, OthersStay
<1>0. /\ TypeOK /\ TableOK /\ req \in [Request -> Refresh] /\ 0 \notin Session
      /\ \A q \in Request : ServerOK(q)
  BY SessionsAssumption DEF IInv, TypeOK, Session
<1> USE DEF Step, Answer, Done
(* Steps that leave the tables and what the request has read alone.        *)
<1>4. ASSUME NEW q \in Request, UNCHANGED <<session, lineage, issued>>,
             req[q].pc # "free",
             \A p \in Request : p # q => req'[p] = req[p],
             /\ req'[q].pc \in {"issue", "answered", "body", "done", req[q].pc}
             /\ req'[q].result \in {"ok", "error", req[q].result}
             /\ req'[q].token = req[q].token /\ req'[q].heir = req[q].heir
             /\ req'[q].session = req[q].session
      PROVE  \A p \in Request : ServerOK(p)'
  <2>1. ServerOK(q)'
    BY <1>0, <1>4 DEF ServerOK, Dead
  <2> QED
    BY <1>3, <1>4, <2>1
<1>5. ASSUME NEW q \in Request, execute(q)
      PROVE  \A p \in Request : ServerOK(p)'
  <2>0. /\ req[q].token \in Token /\ req[q].token <= issued /\ req[q].heir = 0 /\ req[q].pc = "sent"
    BY <1>0, <1>5 DEF execute, ServerOK
  <2>1. CASE Holder(q) = {} /\ Step(q, "lineage")
    <3>1. lineage[req[q].token] # 0
      BY <1>0, <2>0, <2>1 DEF Holder, TableOK
    <3>2. ServerOK(q)'
      BY <1>0, <1>5, <2>0, <2>1, <3>1 DEF execute, ServerOK, Dead, Refresh
    <3> QED
      BY <1>0, <1>3, <2>1, <3>2
  <2>2. ASSUME NEW s \in Holder(q), s \in Live, req' = [req EXCEPT ![q].pc = "found", ![q].session = s]
        PROVE  \A p \in Request : ServerOK(p)'
    <3>1. s \in Session /\ session[s].state = "live" /\ session[s].hash = req[q].token
      BY <2>2 DEF Holder, Live
    <3>3. /\ req'[q].pc = "found" /\ req'[q].session = s
          /\ req'[q].token = req[q].token /\ req'[q].heir = 0 /\ req'[q].result = req[q].result
      BY <1>0, <2>0, <2>2 DEF Refresh
    <3>4. UNCHANGED <<session, lineage, issued>>
      BY <1>5 DEF execute
    <3>2. ServerOK(q)'
      BY <1>0, <2>0, <3>1, <3>3, <3>4 DEF ServerOK, Dead
    <3> QED
      BY <1>0, <1>3, <2>2, <3>2
  <2>3. ASSUME NEW s \in Holder(q), s \notin Live, Answer(q, "invalid")
        PROVE  \A p \in Request : ServerOK(p)'
    <3>0. s \in Session /\ session[s] \in SessionRow /\ session[s].hash = req[q].token /\ req[q].token # 0
      BY <1>0, <2>0, <2>3, SessionsAssumption DEF Holder, TypeOK, Token
    <3>1. s \in Session /\ session[s].state = "revoked" /\ session[s].hash = req[q].token
      BY <1>0, <2>3, <3>0 DEF Live, SessionRow, TableOK
    <3>3. /\ req'[q].pc = "answered" /\ req'[q].result = "invalid"
          /\ req'[q].token = req[q].token /\ req'[q].heir = 0
      BY <1>0, <2>0, <2>3 DEF Refresh
    <3>4. UNCHANGED <<session, lineage, issued>>
      BY <1>5 DEF execute
    <3>2. ServerOK(q)'
      BY <1>0, <2>0, <3>1, <3>3, <3>4 DEF ServerOK, Dead
    <3> QED
      BY <1>0, <1>3, <2>3, <3>2
  <2> QED
    BY <1>5, <2>1, <2>2, <2>3 DEF execute
<1>6. ASSUME NEW q \in Request, rotateRefreshToken(q)
      PROVE  \A p \in Request : ServerOK(p)'
  <2>0. /\ req[q].token \in Token /\ req[q].token <= issued /\ req[q].heir = 0 /\ req[q].pc = "found"
        /\ req[q].session \in Session /\ session[req[q].session].state # "none"
        /\ session[req[q].session].hash = req[q].token \/ lineage[req[q].token] = req[q].session
    BY <1>0, <1>6 DEF rotateRefreshToken, ServerOK
  <2>1. CASE ~MayRotate(q)
    <3>1. lineage[req[q].token] # 0 \/ Dead(req[q].token)
      BY <1>0, <2>0, <2>1 DEF MayRotate, Dead, Live, TypeOK, SessionRow
    <3>2. ServerOK(q)'
      BY <1>0, <1>6, <2>0, <2>1, <3>1 DEF rotateRefreshToken, ServerOK, Dead, Refresh
    <3> QED
      BY <1>0, <1>3, <1>6, <2>1, <3>2 DEF rotateRefreshToken
  <2>2. CASE MayRotate(q)
    <3>1. /\ issued' = issued + 1 /\ lineage' = [lineage EXCEPT ![req[q].token] = req[q].session]
          /\ req' = [req EXCEPT ![q].pc = "issue", ![q].heir = issued + 1]
      BY <1>6, <2>2 DEF rotateRefreshToken
    <3>2. issued \in Nat /\ lineage'[req[q].token] = req[q].session /\ req[q].token \in Nat
      BY <1>0, <2>0, <3>1, SessionsAssumption DEF TypeOK, Token
    <3>3. req[q].result \notin {"invalid", "reused"}
      BY <1>0, <2>0, <2>2, <1>6 DEF ServerOK, MayRotate, Live, Dead, TableOK
    <3>4. ServerOK(q)'
      BY <1>0, <2>0, <3>1, <3>2, <3>3 DEF ServerOK, Refresh
    <3> QED
      BY <1>0, <1>3, <3>1, <3>4
  <2> QED
    BY <2>1, <2>2
<1>7. ASSUME NEW q \in Request, detectReuseOrFail(q)
      PROVE  \A p \in Request : ServerOK(p)'
  <2> DEFINE s == lineage[req[q].token]
  <2>0. /\ req[q].token \in Token /\ req[q].token <= issued /\ req[q].heir = 0 /\ req[q].pc = "lineage"
        /\ s # 0 \/ Dead(req[q].token)
        /\ s # 0 => s \in Session /\ session[s].state # "none"
    BY <1>0, <1>7 DEF detectReuseOrFail, ServerOK, TableOK, TypeOK
  <2>1. CASE Answer(q, "invalid") /\ s = 0
    <3>1. ServerOK(q)'
      BY <1>0, <1>7, <2>0, <2>1 DEF detectReuseOrFail, ServerOK, Dead, Refresh
    <3> QED
      BY <1>0, <1>3, <2>1, <3>1
  <2>2. CASE s # 0 /\ req' = [req EXCEPT ![q].pc = "revoke", ![q].session = s]
    <3>1. ServerOK(q)'
      BY <1>0, <1>7, <2>0, <2>2, SMTT(20) DEF detectReuseOrFail, ServerOK, Dead, Refresh
    <3> QED
      BY <1>0, <1>3, <2>2, <3>1
  <2>3. CASE s # 0 /\ s \notin Live /\ Answer(q, "reused")
    <3>1. session[s].state = "revoked"
      BY <1>0, <2>0, <2>3 DEF Live, TypeOK, SessionRow
    <3>2. ServerOK(q)'
      BY <1>0, <1>7, <2>0, <2>3, <3>1, SMTT(20) DEF detectReuseOrFail, ServerOK, Dead, Refresh
    <3> QED
      BY <1>0, <1>3, <2>3, <3>2
  <2> QED
    BY <1>7, <2>1, <2>2, <2>3 DEF detectReuseOrFail
<1>8. ASSUME NEW q \in Request, revokeReused(q)
      PROVE  \A p \in Request : ServerOK(p)'
  <2> DEFINE s == req[q].session
  <2>0. /\ req[q].token \in Token /\ req[q].token <= issued /\ req[q].heir = 0 /\ req[q].pc = "revoke"
        /\ s \in Session /\ lineage[req[q].token] = s
    BY <1>0, <1>8 DEF revokeReused, ServerOK, TypeOK
  <2>1. /\ session'[s].state = "revoked" /\ UNCHANGED <<lineage, issued>>
        /\ req' = [req EXCEPT ![q].pc = "answered", ![q].result = "reused"]
    BY <1>0, <1>8, <2>0 DEF revokeReused, Revoked, TypeOK, SessionRow
  <2>2. ServerOK(q)'
    BY <1>0, <2>0, <2>1 DEF ServerOK, Refresh
  <2> QED
    BY <1>0, <1>3, <2>1, <2>2
<1>9. ASSUME NEW t \in Tab, NEW q \in Request, refresh(t, q)
      PROVE  \A p \in Request : ServerOK(p)'
  <2>1. store \in Token /\ store <= issued
    BY <1>0, <1>9 DEF refresh, TypeOK, TableOK
  <2>2. ServerOK(q)'
    BY <1>0, <1>9, <2>1 DEF refresh, ServerOK, NoRefresh, TypeOK
  <2> QED
    BY <1>0, <1>3, <1>9, <2>2 DEF refresh
<1>10. ASSUME NEW q \in Request,
              ignored(q) \/ refused(q) \/ bodyFollows(q) \/ setTokens(q) \/ lose(q)
                \/ issueAccessToken(q) \/ serverFails(q)
       PROVE  \A p \in Request : ServerOK(p)'
  <2>1. req[q] \in Refresh /\ req[q].pc # "free" /\ UNCHANGED <<session, lineage, issued>>
    BY <1>0, <1>10 DEF ignored, refused, bodyFollows, setTokens, lose, issueAccessToken, serverFails, Arrives
  <2>2. \A p \in Request : p # q => req'[p] = req[p]
    BY <1>0, <1>10 DEF ignored, refused, bodyFollows, setTokens, lose, issueAccessToken, serverFails
  <2>3. /\ req'[q].token = req[q].token /\ req'[q].heir = req[q].heir /\ req'[q].session = req[q].session
        /\ req'[q].pc \in {"issue", "answered", "body", "done", req[q].pc}
        /\ req'[q].result \in {"ok", "error", req[q].result}
    BY <1>0, <2>1, <1>10
       DEF ignored, refused, bodyFollows, setTokens, lose, issueAccessToken, serverFails, Refresh
  <2> QED
    BY <1>4, <2>1, <2>2, <2>3
<1> QED
  BY <1>2, <1>5, <1>6, <1>7, <1>8, <1>9, <1>10
     DEF Next, Server, Client, vars, establishSession, evictOverflowSessions, evict, loginIssues, revokeSession,
         installSession, loginFails, clear

(* A request of a tab keeps its epoch; the tab's grows when it clears, and *)
(* then it has no access token.                                            *)
LEMMA ClientStep ==
    ASSUME IInv, [Next]_vars
    PROVE  (\A q \in Request : ClientOK(q)') /\ ClearedStaysCleared'
<1>0. /\ TypeOK /\ ClearedStaysCleared
      /\ \A q \in Request : ClientOK(q)
      /\ \A q \in Request : req[q].epoch \in Nat
      /\ \A t \in Tab : tab[t].epoch \in Nat
  BY SessionsAssumption DEF IInv, TypeOK, Refresh, TokenManager
<1> DEFINE
      (* A tab stays as it is, or is given a token, or moves on without.   *)
      Moves(t) ==
          /\ tab'[t].epoch \in Nat /\ tab[t].epoch <= tab'[t].epoch
          /\ tab'[t].access \in {None, tab'[t].epoch}
      Keeps(q) == req'[q].pc # "free" =>
          req[q].pc # "free" /\ req'[q].tab = req[q].tab /\ req'[q].epoch = req[q].epoch
<1>1. ASSUME \A t \in Tab : Moves(t), \A q \in Request : Keeps(q)
      PROVE  (\A q \in Request : ClientOK(q)') /\ ClearedStaysCleared'
  BY <1>0, <1>1 DEF ClientOK, ClearedStaysCleared
<1>2. UNCHANGED tab => \A t \in Tab : Moves(t)
  BY <1>0 DEF ClearedStaysCleared
<1>3. UNCHANGED req => \A q \in Request : Keeps(q)
  OBVIOUS
<1>4. ASSUME NEW t \in Tab, NEW q \in Request, refresh(t, q)
      PROVE  (\A p \in Request : ClientOK(p)') /\ ClearedStaysCleared'
  <2>1. /\ req'[q].tab = t /\ req'[q].epoch = tab[t].epoch
        /\ \A p \in Request : p # q => req'[p] = req[p]
        /\ tab'[t].epoch = tab[t].epoch /\ tab'[t].access = tab[t].access
        /\ \A u \in Tab : u # t => tab'[u] = tab[u]
    BY <1>0, <1>4 DEF refresh, TypeOK, TokenManager, NoRefresh
  <2> QED
    BY <1>0, <2>1 DEF ClientOK, ClearedStaysCleared
<1>5. ASSUME NEW t \in Tab, (\E s \in Session : establishSession(t, s)) \/ installSession(t) \/ loginFails(t) \/ clear(t)
      PROVE  (\A p \in Request : ClientOK(p)') /\ ClearedStaysCleared'
  <2>1. UNCHANGED req
    BY <1>5 DEF establishSession, installSession, loginFails, clear
  <2>2. \A u \in Tab : u # t => tab'[u] = tab[u]
    BY <1>0, <1>5 DEF establishSession, installSession, loginFails, clear, TypeOK
  <2>3. tab[t] \in TokenManager /\ tab \in [Tab -> TokenManager] /\ tab[t].epoch \in Nat
        /\ tab[t].access \in {None, tab[t].epoch}
    BY <1>0 DEF TypeOK, ClearedStaysCleared
  <2>4. Moves(t)
    <3>1. CASE (\E s \in Session : establishSession(t, s)) \/ clear(t)
      <4>1. \/ tab' = [tab EXCEPT ![t] = Cleared(t)]
            \/ \E s : tab' = [tab EXCEPT ![t] = [Cleared(t) EXCEPT !.login = s, !.asked = tab[t].epoch + 1]]
        BY <3>1 DEF establishSession, clear
      <4>2. Cleared(t).epoch = tab[t].epoch + 1 /\ Cleared(t).access = None
        BY <2>3 DEF Cleared, TokenManager
      <4>3. \A s, e : LET m == [Cleared(t) EXCEPT !.login = s, !.asked = e]
                     IN  m.epoch = Cleared(t).epoch /\ m.access = Cleared(t).access
        BY <2>3 DEF Cleared, TokenManager
      <4>4. ASSUME tab' = [tab EXCEPT ![t] = Cleared(t)]
            PROVE  tab'[t].epoch = tab[t].epoch + 1 /\ tab'[t].access = None
        BY <2>3, <4>2, <4>4
      <4>5. ASSUME NEW s, tab' = [tab EXCEPT ![t] = [Cleared(t) EXCEPT !.login = s, !.asked = tab[t].epoch + 1]]
            PROVE  tab'[t].epoch = tab[t].epoch + 1 /\ tab'[t].access = None
        <5> DEFINE m == [Cleared(t) EXCEPT !.login = s, !.asked = tab[t].epoch + 1]
        <5>1. m.epoch = Cleared(t).epoch /\ m.access = Cleared(t).access
          BY <4>3
        <5>2. tab' = [tab EXCEPT ![t] = m]
          BY <4>5
        <5> HIDE DEF m
        <5> QED
          BY <2>3, <4>2, <5>1, <5>2
      <4>6. tab'[t].epoch = tab[t].epoch + 1 /\ tab'[t].access = None
        BY <4>1, <4>4, <4>5
      <4> QED
        BY <2>3, <4>6
    <3>2. CASE installSession(t)
      <4>1. tab'[t].epoch = tab[t].epoch /\ tab'[t].access = tab[t].epoch
        BY <2>3, <3>2 DEF installSession, SameEpoch, TokenManager
      <4> QED
        BY <2>3, <4>1
    <3>3. CASE loginFails(t)
      <4>1. tab'[t].epoch = tab[t].epoch /\ tab'[t].access = tab[t].access
        BY <2>3, <3>3 DEF loginFails, TokenManager
      <4> QED
        BY <2>3, <4>1
    <3> QED
      BY <1>5, <3>1, <3>2, <3>3
  <2> QED
    BY <1>0, <1>1, <1>3, <2>1, <2>2, <2>4 DEF ClearedStaysCleared
<1>6. ASSUME NEW q \in Request, Client(q)
      PROVE  (\A p \in Request : ClientOK(p)') /\ ClearedStaysCleared'
  <2> DEFINE t == req[q].tab
  <2>0. req[q].pc # "free" /\ t \in Tab
    BY <1>0, <1>6 DEF Client, ignored, refused, bodyFollows, setTokens, lose, Arrives, ClientOK
  <2>1. \A p \in Request : Keeps(p)
    BY <1>0, <1>6, <2>0
       DEF Client, ignored, refused, bodyFollows, setTokens, lose, Step, Done, TypeOK, Refresh
  <2>2. \A u \in Tab : u # t => tab'[u] = tab[u]
    BY <1>0, <1>6, <2>0 DEF Client, ignored, refused, bodyFollows, setTokens, lose, TypeOK
  <2>3. CASE setTokens(q)
    <3>1. req[q].epoch = tab[t].epoch
      BY <2>3 DEF setTokens, Current, SameEpoch
    <3>2. tab'[t].epoch = tab[t].epoch /\ tab'[t].access = tab[t].epoch
      BY <1>0, <2>0, <2>3, <3>1 DEF setTokens, Landed, TypeOK, TokenManager
    <3> QED
      BY <1>0, <1>1, <2>1, <2>2, <3>2 DEF ClearedStaysCleared
  <2>4. CASE ~setTokens(q)
    <3>0. tab[t] \in TokenManager /\ tab \in [Tab -> TokenManager] /\ tab[t].epoch \in Nat
          /\ tab[t].access \in {None, tab[t].epoch}
      BY <1>0, <2>0 DEF TypeOK, ClearedStaysCleared
    <3>1. Moves(t)
      <4>1. CASE refused(q)
        <5>1. tab'[t].epoch = tab[t].epoch + 1 /\ tab'[t].access = None
          BY <2>0, <3>0, <4>1 DEF refused, Cleared, TokenManager
        <5> QED
          BY <3>0, <5>1
      <4>2. CASE ignored(q) \/ bodyFollows(q) \/ lose(q)
        <5>1. tab'[t].epoch = tab[t].epoch /\ tab'[t].access = tab[t].access
          BY <2>0, <3>0, <4>2 DEF ignored, bodyFollows, lose, Landed, TokenManager
        <5> QED
          BY <3>0, <5>1
      <4> QED
        BY <1>6, <2>4, <4>1, <4>2 DEF Client
    <3> QED
      BY <1>0, <1>1, <2>1, <2>2, <3>1 DEF ClearedStaysCleared
  <2> QED
    BY <2>3, <2>4
<1>7. ASSUME NEW q \in Request, Server(q)
      PROVE  (\A p \in Request : ClientOK(p)') /\ ClearedStaysCleared'
  <2>1. UNCHANGED tab /\ req[q].pc # "free"
    BY <1>7 DEF Server, execute, rotateRefreshToken, issueAccessToken, detectReuseOrFail, revokeReused, serverFails
  <2>2. /\ \A p \in Request : p # q => req'[p] = req[p]
        /\ req'[q].tab = req[q].tab /\ req'[q].epoch = req[q].epoch
    BY <1>0, <1>7 DEF Server, execute, rotateRefreshToken, issueAccessToken, detectReuseOrFail, revokeReused,
                      serverFails, Step, Answer, TypeOK, Refresh
  <2> QED
    BY <1>1, <1>2, <2>1, <2>2
<1> QED
  BY <1>1, <1>2, <1>3, <1>4, <1>5, <1>6, <1>7
     DEF Next, vars, evictOverflowSessions, evict, loginIssues, revokeSession

(* Only a rotation makes an heir; its token was consumed by nobody before. *)
LEMMA HeirStep == ASSUME IInv, [Next]_vars PROVE HeirUnique'
<1>0. /\ TypeOK /\ TableOK /\ HeirUnique
      /\ \A q \in Request : ServerOK(q)
  BY DEF IInv
<1>1. ASSUME \A q \in Request : req'[q].heir # 0 => req'[q].heir = req[q].heir,
             \A q \in Request : req'[q].heir # 0 => req'[q].token = req[q].token,
             \A q \in Request : req[q].heir = 0 => req'[q].heir = 0,
             \A p, q \in Request : req'[p].heir # 0 /\ req'[q].heir # 0
                 => req'[p].token = req[p].token /\ req'[q].token = req[q].token
      PROVE  HeirUnique'
  BY <1>0, <1>1 DEF HeirUnique
<1>2. ASSUME NEW q \in Request, rotateRefreshToken(q) PROVE HeirUnique'
  <2>1. CASE ~MayRotate(q)
    BY <1>0, <1>2, <2>1, <1>1 DEF rotateRefreshToken, Step, TypeOK, Refresh
  <2>2. CASE MayRotate(q)
    <3>1. /\ req' = [req EXCEPT ![q].pc = "issue", ![q].heir = issued + 1]
          /\ req[q].token \in Token
          /\ req[q].session \in Session /\ session[req[q].session].hash = req[q].token
      BY <1>0, <1>2, <2>2 DEF rotateRefreshToken, MayRotate, ServerOK
    <3>2. \A p \in Request : req[p].token = req[q].token => req[p].heir = 0
      BY <1>0, <3>1 DEF ServerOK, TableOK
    <3>3. /\ \A p \in Request : p # q => req'[p] = req[p]
          /\ req'[q].token = req[q].token
      BY <1>0, <3>1 DEF TypeOK, Refresh
    <3> QED
      BY <1>0, <3>2, <3>3 DEF HeirUnique
  <2> QED
    BY <2>1, <2>2
<1>3. ASSUME NEW t \in Tab, NEW q \in Request, refresh(t, q) PROVE HeirUnique'
  <2>1. req'[q].heir = 0 /\ \A p \in Request : p # q => req'[p] = req[p]
    BY <1>0, <1>3 DEF refresh, NoRefresh, TypeOK
  <2> QED
    BY <1>0, <2>1 DEF HeirUnique
<1>4. ASSUME NEW q \in Request, execute(q) \/ detectReuseOrFail(q) \/ revokeReused(q) \/ issueAccessToken(q)
                \/ serverFails(q) \/ Client(q)
      PROVE  HeirUnique'
  <2>1. /\ \A p \in Request : p # q => req'[p] = req[p]
        /\ req'[q].token = req[q].token /\ req'[q].heir = req[q].heir
    BY <1>0, <1>4, SMTT(20) DEF execute, detectReuseOrFail, revokeReused, issueAccessToken, serverFails, Client, ignored,
                      refused, bodyFollows, setTokens, lose, Step, Answer, Done, TypeOK, Refresh
  <2> QED
    BY <1>0, <2>1 DEF HeirUnique
<1>5. ASSUME UNCHANGED req PROVE HeirUnique'
  BY <1>0, <1>5 DEF HeirUnique
<1> QED
  BY <1>2, <1>3, <1>4, <1>5
     DEF Next, Server, vars, establishSession, evictOverflowSessions, evict, loginIssues, revokeSession,
         installSession, loginFails, clear

(* Every variable keeps its type, and no tab waits for a request that is   *)
(* done or another's.                                                      *)
LEMMA TypeStep == ASSUME IInv, [Next]_vars PROVE TypeOK'
<1> DEFINE
      Flights == \A t \in Tab : tab[t].flight # None =>
                    req[tab[t].flight].tab = t /\ req[tab[t].flight].pc \notin {"free", "done"}
<1>1. session \in [Session -> SessionRow] /\ lineage \in [Token -> Session \cup {0}] /\ issued \in 0..MaxTokens
  BY DEF IInv, TypeOK
<1>2. login \in [Session -> Login] /\ store \in Token \cup {0}
  BY DEF IInv, TypeOK
<1>3. tab \in [Tab -> TokenManager]
  BY DEF IInv, TypeOK
<1>4. req \in [Request -> Refresh]
  BY DEF IInv, TypeOK
<1>5. Flights
  BY DEF IInv, TypeOK
<1>6. \A q \in Request : ServerOK(q) /\ ClientOK(q)
  BY DEF IInv
<1>7. 0 \notin Session /\ None \notin Request /\ MaxTokens \in Nat /\ MaxClears \in Nat
  BY SessionsAssumption DEF Session
<1>8. ASSUME /\ session' \in [Session -> SessionRow] /\ lineage' \in [Token -> Session \cup {0}]
             /\ issued' \in 0..MaxTokens
             /\ login' \in [Session -> Login] /\ store' \in Token \cup {0}
             /\ tab' \in [Tab -> TokenManager] /\ req' \in [Request -> Refresh] /\ Flights'
      PROVE  TypeOK'
  BY <1>8 DEF TypeOK
(* The tabs that moved wait for nothing new.                               *)
<1>9. ASSUME \A t \in Tab : tab'[t].flight \in {None, tab[t].flight}, UNCHANGED req
      PROVE  Flights'
  BY <1>5, <1>9
<1>10. \A t \in Tab : MayClear(t) => Cleared(t) \in TokenManager /\ Cleared(t).flight = None
  <2> SUFFICES ASSUME NEW t \in Tab, MayClear(t)
               PROVE  Cleared(t) \in TokenManager /\ Cleared(t).flight = None
    OBVIOUS
  <2>1. tab[t].epoch + 1 \in 0..MaxClears
    BY <1>3, <1>7 DEF MayClear, TokenManager
  <2> QED
    BY <1>3, <2>1 DEF Cleared, TokenManager
<1>11. ASSUME NEW t \in Tab, NEW s \in Session, establishSession(t, s) PROVE TypeOK'
  <2>1. /\ issued < MaxTokens /\ issued' = issued + 1 /\ UNCHANGED <<lineage, req>> /\ store' = 0
        /\ session' = [session EXCEPT ![s] = [state |-> "live", hash |-> issued + 1]]
        /\ login' = [login EXCEPT ![s].pc = "select"]
        /\ tab' = [tab EXCEPT ![t] = [Cleared(t) EXCEPT !.login = s, !.asked = tab[t].epoch + 1]] /\ MayClear(t)
    BY <1>11 DEF establishSession
  <2>2. issued' \in 0..MaxTokens /\ issued + 1 \in Token
    BY <1>1, <1>7, <2>1 DEF Token
  <2>3. session' \in [Session -> SessionRow]
    BY <1>1, <2>1, <2>2 DEF SessionRow
  <2>4. login' \in [Session -> Login]
    BY <1>2, <2>1 DEF Login
  <2>5. Cleared(t) \in TokenManager /\ Cleared(t).flight = None
    BY <1>10, <2>1
  <2>6. [Cleared(t) EXCEPT !.login = s, !.asked = tab[t].epoch + 1] \in TokenManager /\ [Cleared(t) EXCEPT !.login = s, !.asked = tab[t].epoch + 1].flight = None
    <3>1. tab[t].epoch + 1 \in 0..MaxClears
      BY <1>3, <1>7, <2>1 DEF MayClear, TokenManager
    <3> QED
      BY <2>5, <3>1 DEF TokenManager
  <2>7. tab' \in [Tab -> TokenManager] /\ \A u \in Tab : tab'[u].flight \in {None, tab[u].flight}
    BY <1>3, <2>1, <2>6
  <2> QED
    BY <1>1, <1>2, <1>4, <1>8, <1>9, <2>1, <2>2, <2>3, <2>4, <2>7
<1>12. ASSUME NEW s \in Session, evictOverflowSessions(s) \/ evict(s) \/ loginIssues(s) \/ revokeSession(s)
       PROVE TypeOK'
  <2>1. UNCHANGED <<lineage, issued, req, tab, store>>
    BY <1>12 DEF evictOverflowSessions, evict, loginIssues, revokeSession
  <2>2. session' \in [Session -> SessionRow]
    BY <1>1, <1>12 DEF evictOverflowSessions, evict, loginIssues, revokeSession, Revoked, SessionRow
  <2>3. login' \in [Session -> Login]
    <3>1. CASE evictOverflowSessions(s)
      <4>1. PICK K : login' = [login EXCEPT ![s] = [pc |-> "evict", overflow |-> (Live \ {s}) \ K]]
        BY <3>1 DEF evictOverflowSessions
      <4>2. [pc |-> "evict", overflow |-> (Live \ {s}) \ K] \in Login
        BY DEF Live, Login
      <4> QED
        BY <1>2, <4>1, <4>2
    <3>2. CASE evict(s)
      <4>1. PICK r : login' = [login EXCEPT ![s].overflow = @ \ {r}]
        BY <3>2 DEF evict
      <4> QED
        BY <1>2, <4>1 DEF Login
    <3>3. CASE loginIssues(s)
      BY <1>2, <3>3 DEF loginIssues, Login
    <3>4. CASE revokeSession(s)
      BY <1>2, <3>4 DEF revokeSession
    <3> QED
      BY <1>12, <3>1, <3>2, <3>3, <3>4
  <2> QED
    BY <1>1, <1>2, <1>3, <1>4, <1>8, <1>9, <2>1, <2>2, <2>3
<1>13. ASSUME NEW t \in Tab, installSession(t) \/ loginFails(t) \/ clear(t) PROVE TypeOK'
  <2>1. UNCHANGED <<session, lineage, issued, req>>
    BY <1>13 DEF installSession, loginFails, clear
  <2>2. login' \in [Session -> Login] /\ store' \in Token \cup {0}
    BY <1>1, <1>2, <1>3, <1>13 DEF installSession, loginFails, clear, Login, NoLogin, SessionRow, TokenManager
  <2>3. \E m \in TokenManager : m.flight \in {None, tab[t].flight} /\ tab' = [tab EXCEPT ![t] = m]
    <3>1. CASE clear(t)
      <4>1. Cleared(t) \in TokenManager /\ Cleared(t).flight = None
        BY <1>10, <3>1 DEF clear
      <4> QED
        BY <3>1, <4>1 DEF clear
    <3>2. CASE loginFails(t)
      <4>1. /\ [tab[t] EXCEPT !.login = 0] \in TokenManager
            /\ [tab[t] EXCEPT !.login = 0].flight = tab[t].flight
        BY <1>3 DEF TokenManager
      <4> QED
        BY <3>2, <4>1 DEF loginFails
    <3>3. CASE installSession(t)
      <4>1. /\ [tab[t] EXCEPT !.login = 0, !.access = tab[t].asked] \in TokenManager
            /\ [tab[t] EXCEPT !.login = 0, !.access = tab[t].asked].flight = tab[t].flight
        BY <1>3 DEF TokenManager
      <4> QED
        BY <3>3, <4>1 DEF installSession
    <3> QED
      BY <1>13, <3>1, <3>2, <3>3
  <2>4. tab' \in [Tab -> TokenManager] /\ \A u \in Tab : tab'[u].flight \in {None, tab[u].flight}
    BY <1>3, <2>3
  <2> QED
    BY <1>1, <1>4, <1>8, <1>9, <2>1, <2>2, <2>4
<1>14. ASSUME NEW t \in Tab, NEW q \in Request, refresh(t, q) PROVE TypeOK'
  <2> DEFINE r == [NoRefresh EXCEPT !.pc = "sent", !.tab = t, !.epoch = tab[t].epoch, !.token = store]
  <2>1. /\ req' = [req EXCEPT ![q] = r] /\ req[q].pc = "free" /\ store # 0
        /\ tab' = [tab EXCEPT ![t].flight = q]
        /\ UNCHANGED <<session, lineage, issued, login, store>>
    BY <1>14 DEF refresh, NoRefresh
  <2>2. tab[t].epoch \in 0..MaxClears /\ store \in Token
    BY <1>2, <1>3, <2>1 DEF TokenManager
  <2>3. r \in Refresh /\ r.tab = t /\ r.pc = "sent"
    BY <1>7, <2>2 DEF Refresh, NoRefresh
  <2>4. /\ tab' \in [Tab -> TokenManager] /\ tab'[t].flight = q
        /\ \A u \in Tab : u # t => tab'[u] = tab[u]
    BY <1>3, <2>1 DEF TokenManager
  <2> HIDE DEF r
  <2>5. req' \in [Request -> Refresh] /\ req'[q] = r /\ \A p \in Request : p # q => req'[p] = req[p]
    BY <1>4, <2>1, <2>3
  <2>6. \A u \in Tab : tab[u].flight \in Request \cup {None}
    BY <1>3 DEF TokenManager
  <2>7. Flights'
    BY <1>5, <2>1, <2>3, <2>4, <2>5, <2>6
  <2> QED
    BY <1>1, <1>2, <1>8, <2>1, <2>4, <2>5, <2>7
(* One request moves and stays with its tab, which may stop waiting for it.*)
<1>15. ASSUME NEW q \in Request, NEW r \in Refresh, r.tab = req[q].tab, r.pc # "free",
              req' = [req EXCEPT ![q] = r], tab' \in [Tab -> TokenManager],
              \A t \in Tab : tab'[t].flight \in {None, tab[t].flight},
              r.pc = "done" => \A t \in Tab : tab'[t].flight # q
       PROVE  req' \in [Request -> Refresh] /\ Flights'
  <2>1. req' \in [Request -> Refresh] /\ req'[q] = r /\ \A p \in Request : p # q => req'[p] = req[p]
    BY <1>4, <1>15
  <2>2. \A u \in Tab : tab'[u].flight \in Request \cup {None}
    BY <1>15 DEF TokenManager
  <2> QED
    BY <1>5, <1>15, <2>1, <2>2
<1>16. ASSUME NEW q \in Request, Server(q) PROVE TypeOK'
  <2>1. UNCHANGED <<login, tab, store>> /\ req[q].pc \notin {"free", "answered", "body", "done"}
    BY <1>16 DEF Server, execute, rotateRefreshToken, issueAccessToken, detectReuseOrFail, revokeReused, serverFails
  <2>2. /\ req[q] \in Refresh /\ req[q].token \in Token
        /\ req[q].pc \in {"found", "revoke"} => req[q].session \in Session
    BY <1>4, <1>6, <2>1 DEF ServerOK, Refresh
  <2>3. ASSUME NEW r \in Refresh, r.tab = req[q].tab, r.pc \notin {"free", "done"}, req' = [req EXCEPT ![q] = r],
               session' \in [Session -> SessionRow], lineage' \in [Token -> Session \cup {0}], issued' \in 0..MaxTokens
        PROVE  TypeOK'
    <3>1. req' \in [Request -> Refresh] /\ Flights'
      BY <1>3, <1>15, <2>1, <2>3
    <3> QED
      BY <1>2, <1>3, <1>8, <2>1, <2>3, <3>1
  <2>4. ASSUME req'[q] \in Refresh, req'[q].tab = req[q].tab, req'[q].pc \notin {"free", "done"},
               req' = [req EXCEPT ![q] = req'[q]],
               session' \in [Session -> SessionRow], UNCHANGED <<lineage, issued>>
        PROVE  TypeOK'
    BY <1>1, <2>3, <2>4
  <2>5. CASE execute(q)
    <3>1. UNCHANGED <<session, lineage, issued>>
      BY <2>5 DEF execute
    <3>2. /\ req'[q] \in Refresh /\ req'[q].tab = req[q].tab /\ req'[q].pc \in {"lineage", "found", "answered"}
          /\ req' = [req EXCEPT ![q] = req'[q]]
      <4>1. CASE Step(q, "lineage")
        BY <1>4, <2>2, <4>1 DEF Step, Refresh
      <4>2. CASE Answer(q, "invalid")
        BY <1>4, <2>2, <4>2 DEF Answer, Refresh
      <4>3. ASSUME NEW s \in Session, req' = [req EXCEPT ![q].pc = "found", ![q].session = s]
            PROVE  /\ req'[q] \in Refresh /\ req'[q].tab = req[q].tab /\ req'[q].pc \in {"lineage", "found", "answered"}
                   /\ req' = [req EXCEPT ![q] = req'[q]]
        BY <1>4, <2>2, <4>3 DEF Refresh
      <4> QED
        BY <2>5, <4>1, <4>2, <4>3 DEF execute, Holder
    <3> QED
      BY <1>1, <2>4, <3>1, <3>2
  <2>6. CASE rotateRefreshToken(q)
    <3>1. CASE ~MayRotate(q)
      <4>1. UNCHANGED <<session, lineage, issued>> /\ req' = [req EXCEPT ![q].pc = "lineage"]
        BY <2>6, <3>1 DEF rotateRefreshToken, Step
      <4>2. /\ req'[q] \in Refresh /\ req'[q].tab = req[q].tab /\ req'[q].pc = "lineage"
            /\ req' = [req EXCEPT ![q] = req'[q]]
        BY <1>4, <2>2, <4>1 DEF Refresh
      <4> QED
        BY <1>1, <2>4, <4>1, <4>2
    <3>2. CASE MayRotate(q)
      <4>1. /\ issued < MaxTokens /\ issued' = issued + 1 /\ req[q].session \in Session
            /\ session' = [session EXCEPT ![req[q].session].hash = issued + 1]
            /\ lineage' = [lineage EXCEPT ![req[q].token] = req[q].session]
            /\ req' = [req EXCEPT ![q].pc = "issue", ![q].heir = issued + 1]
        BY <2>2, <2>6, <3>2 DEF rotateRefreshToken
      <4>2. issued + 1 \in Token /\ issued' \in 0..MaxTokens
        BY <1>1, <1>7, <4>1 DEF Token
      <4>3. session' \in [Session -> SessionRow] /\ lineage' \in [Token -> Session \cup {0}]
        BY <1>1, <2>2, <4>1, <4>2 DEF SessionRow
      <4>4. /\ req'[q] \in Refresh /\ req'[q].tab = req[q].tab /\ req'[q].pc = "issue"
            /\ req' = [req EXCEPT ![q] = req'[q]]
        BY <1>4, <2>2, <4>1, <4>2 DEF Refresh
      <4> QED
        BY <2>3, <4>2, <4>3, <4>4
    <3> QED
      BY <3>1, <3>2
  <2>7. CASE detectReuseOrFail(q)
    <3>1. UNCHANGED <<session, lineage, issued>> /\ lineage[req[q].token] \in Session \cup {0}
      BY <1>1, <2>2, <2>7 DEF detectReuseOrFail
    <3>2. /\ req'[q] \in Refresh /\ req'[q].tab = req[q].tab /\ req'[q].pc \in {"revoke", "answered"}
          /\ req' = [req EXCEPT ![q] = req'[q]]
      BY <1>4, <2>2, <2>7, <3>1 DEF detectReuseOrFail, Answer, Refresh
    <3> QED
      BY <1>1, <2>4, <3>1, <3>2
  <2>8. CASE issueAccessToken(q) \/ revokeReused(q) \/ serverFails(q)
    <3>1. /\ UNCHANGED <<lineage, issued>>
          /\ session' \in [Session -> SessionRow]
      BY <1>1, <2>8 DEF issueAccessToken, revokeReused, serverFails, Revoked, SessionRow
    <3>2. /\ req'[q] \in Refresh /\ req'[q].tab = req[q].tab /\ req'[q].pc = "answered"
          /\ req' = [req EXCEPT ![q] = req'[q]]
      BY <1>4, <2>2, <2>8 DEF issueAccessToken, revokeReused, serverFails, Answer, Refresh
    <3> QED
      BY <2>4, <3>1, <3>2
  <2> QED
    BY <1>16, <2>5, <2>6, <2>7, <2>8 DEF Server
<1>17. ASSUME NEW q \in Request, Client(q) PROVE TypeOK'
  <2> DEFINE t == req[q].tab
  <2>1. /\ UNCHANGED <<session, lineage, issued, login>> /\ t \in Tab
        /\ req[q] \in Refresh /\ req[q].pc # "free"
    BY <1>4, <1>6, <1>17 DEF Client, ignored, refused, bodyFollows, setTokens, lose, Arrives, ClientOK
  <2>2. store' \in Token \cup {0}
    BY <1>2, <1>17, <2>1 DEF Client, ignored, refused, bodyFollows, setTokens, lose, Refresh
  <2>3. ASSUME NEW r \in Refresh, r.tab = t, r.pc # "free", req' = [req EXCEPT ![q] = r],
               NEW m \in TokenManager, tab' = [tab EXCEPT ![t] = m], m.flight \in {None, tab[t].flight},
               r.pc = "done" => m.flight # q
        PROVE  TypeOK'
    <3>1. /\ tab' \in [Tab -> TokenManager]
          /\ \A u \in Tab : tab'[u].flight \in {None, tab[u].flight}
      BY <1>3, <2>1, <2>3
    <3>2. r.pc = "done" => \A u \in Tab : tab'[u].flight # q
      BY <1>3, <1>5, <1>7, <2>1, <2>3
    <3>3. req' \in [Request -> Refresh] /\ Flights'
      BY <1>15, <2>3, <3>1, <3>2
    <3> QED
      BY <1>1, <1>2, <1>8, <2>1, <2>2, <3>1, <3>3
  <2>4. /\ Landed(q, tab[t]) \in TokenManager /\ Landed(q, tab[t]).flight \in {None, tab[t].flight}
        /\ Landed(q, tab[t]).flight # q
    BY <1>3, <1>7, <2>1 DEF Landed, TokenManager
  <2>5. /\ [req[q] EXCEPT !.pc = "done"] \in Refresh /\ [req[q] EXCEPT !.pc = "done"].tab = t
        /\ [req[q] EXCEPT !.pc = "done"].pc = "done"
    BY <2>1 DEF Refresh
  <2>6. CASE ignored(q)
    BY <2>3, <2>4, <2>5, <2>6 DEF ignored, Done
  <2>7. CASE refused(q)
    <3>1. Cleared(t) \in TokenManager /\ Cleared(t).flight = None
      BY <1>10, <2>1, <2>7 DEF refused
    <3> QED
      BY <1>7, <2>3, <2>5, <2>7, <3>1 DEF refused, Done
  <2>8. CASE bodyFollows(q)
    <3>1. /\ [req[q] EXCEPT !.pc = "body"] \in Refresh /\ [req[q] EXCEPT !.pc = "body"].tab = t
          /\ [req[q] EXCEPT !.pc = "body"].pc = "body"
      BY <2>1 DEF Refresh
    <3>2. tab' = [tab EXCEPT ![t] = tab[t]] /\ tab[t] \in TokenManager
      BY <1>3, <2>1, <2>8 DEF bodyFollows
    <3> QED
      BY <2>3, <2>8, <3>1, <3>2 DEF bodyFollows, Step
  <2>9. CASE setTokens(q)
    <3> DEFINE m == [Landed(q, tab[t]) EXCEPT !.access = req[q].epoch]
    <3>1. m \in TokenManager /\ m.flight = Landed(q, tab[t]).flight
      BY <2>1, <2>4 DEF TokenManager, Refresh
    <3>2. tab' = [tab EXCEPT ![t] = m] /\ req' = [req EXCEPT ![q] = [req[q] EXCEPT !.pc = "done"]]
      BY <2>9 DEF setTokens, Done
    <3> HIDE DEF m
    <3> QED
      BY <2>3, <2>4, <2>5, <3>1, <3>2
  <2>10. CASE lose(q)
    <3>1. /\ req'[q] \in Refresh /\ req'[q].tab = t /\ req'[q].pc # "free"
          /\ req' = [req EXCEPT ![q] = req'[q]]
      BY <1>4, <2>1, <2>10 DEF lose, Refresh
    <3> QED
      BY <2>3, <2>4, <2>10, <3>1 DEF lose
  <2> QED
    BY <1>17, <2>6, <2>7, <2>8, <2>9, <2>10 DEF Client
<1>18. CASE UNCHANGED vars
  BY <1>1, <1>2, <1>3, <1>4, <1>5, <1>8, <1>18 DEF vars
<1> QED
  BY <1>11, <1>12, <1>13, <1>14, <1>16, <1>17, <1>18 DEF Next

-------------------------------------------------------------------------------

(* The inductive invariant holds in every behaviour.                       *)
THEOREM Invariance == Spec => []IInv
<1>1. IInv /\ [Next]_vars => IInv'
  BY TypeStep, TableStep, ServerStep, ClientStep, HeirStep DEF IInv
<1> QED
  BY InitIInv, <1>1, PTL DEF Spec

(* Every variable has its type, and a tab that waits for a refresh waits   *)
(* for one of its own that is still under way.                             *)
THEOREM TypeCorrect == Spec => []TypeOK
<1>1. IInv => TypeOK
  BY DEF IInv
<1> QED
  BY Invariance, <1>1, PTL

(* The access token a tab holds was asked for since its last clear().      *)
THEOREM LogoutHolds == Spec => []ClearedStaysCleared
<1>1. IInv => ClearedStaysCleared
  BY DEF IInv
<1> QED
  BY Invariance, <1>1, PTL

(* One winner per rotation; whoever else presents the token is told of the *)
(* reuse and the session is over.                                          *)
THEOREM RotationsHaveOneHeir == Spec => []OneHeir
<1>1. IInv => OneHeir
  <2> SUFFICES ASSUME IInv, NEW p \in Request, NEW q \in Request, p # q,
                      req[p].token = req[q].token, req[p].heir # 0
               PROVE  /\ req[q].heir = 0
                      /\ req[q].result \in {"reused", "invalid"} =>
                            req[q].result = "reused" /\ req[p].session \notin Live
    BY DEF OneHeir
  <2>1. TableOK /\ ServerOK(p) /\ ServerOK(q) /\ HeirUnique
    BY DEF IInv
  <2>2. req[q].heir = 0
    BY <2>1 DEF HeirUnique
  <2>3. req[p].pc # "free"
    BY <2>1 DEF ServerOK, NoRefresh
  <2>4. req[p].token \in Token /\ lineage[req[p].token] = req[p].session /\ req[p].session # 0
    BY <2>1, <2>3 DEF ServerOK
  <2>5. ~Dead(req[p].token)
    BY <2>1, <2>4 DEF TableOK, Dead
  <2>6. req[q].result # "invalid"
    BY <2>1, <2>5 DEF ServerOK
  <2>7. req[q].result = "reused" => session[req[p].session].state = "revoked"
    BY <2>1, <2>4 DEF ServerOK
  <2> QED
    BY <2>2, <2>6, <2>7 DEF Live
<1> QED
  BY Invariance, <1>1, PTL

(* A revoked session is never touched again.                               *)
THEOREM RevocationHolds == Spec => RevokedIsFinal
<1>1. IInv /\ [Next]_vars => \A s \in Session : session[s].state = "revoked" => session'[s] = session[s]
  BY TableStep DEF Grows
<1>2. IInv /\ [Next]_vars =>
        [\A s \in Session : session[s].state = "revoked" => session'[s] = session[s]]_vars
  BY <1>1
<1> QED
  BY Invariance, <1>2, PTL DEF Spec, RevokedIsFinal

-------------------------------------------------------------------------------
(* The limit *)

(* Sessions that some login has chosen and not yet revoked.                *)
Doomed == {s \in Session : \E r \in Session : login[r].pc = "evict" /\ s \in login[r].overflow}

(* The last login to choose kept no more than the limit, itself included;  *)
(* from then on the sessions that are left can only become fewer, until    *)
(* another login makes one, which has to choose in its turn.               *)
LimitOK == (\A s \in Session : login[s].pc # "select") => Cardinality(Live \ Doomed) <= MaxSessions

LEMMA SomeSessions ==
    ASSUME NEW S \in SUBSET Session
    PROVE  IsFiniteSet(S) /\ Cardinality(S) \in Nat
<1>1. IsFiniteSet(Session)
  BY SessionsAssumption, FS_Interval DEF Session
<1> QED
  BY <1>1, FS_Subset, FS_CardinalityType

LEMMA FewerSessions ==
    ASSUME NEW S \in SUBSET Session, NEW T \in SUBSET S, Cardinality(S) <= MaxSessions
    PROVE  Cardinality(T) <= MaxSessions
<1>1. IsFiniteSet(S) /\ Cardinality(S) \in Nat /\ Cardinality(T) \in Nat
  BY SomeSessions
<1>2. Cardinality(T) <= Cardinality(S)
  BY <1>1, FS_Subset
<1> QED
  BY <1>1, <1>2, SessionsAssumption

(* A choice leaves no more than the limit.                                 *)
LEMMA ChoiceFits ==
    ASSUME NEW s \in Session, NEW K \in Kept(Live \ {s})
    PROVE  Cardinality(K \cup {s}) <= MaxSessions
<1> DEFINE others == Live \ {s}
<1>1. others \in SUBSET Session /\ K \in SUBSET Session /\ s \notin K
  BY DEF Live, Kept
<1>2. IsFiniteSet(K) /\ Cardinality(K) \in Nat /\ Cardinality(others) \in Nat
  BY <1>1, SomeSessions
<1>3. Cardinality(K) <= MaxSessions - 1
  <2>1. Cardinality(K) = IF Cardinality(others) < MaxSessions THEN Cardinality(others) ELSE MaxSessions - 1
    BY DEF Kept
  <2> HIDE DEF others
  <2> QED
    BY <1>2, <2>1, SessionsAssumption
<1>4. Cardinality(K \cup {s}) = Cardinality(K) + 1
  BY <1>1, <1>2, FS_AddElement
<1> QED
  BY <1>2, <1>3, <1>4, SessionsAssumption

LEMMA LimitStep == ASSUME IInv, LimitOK, [Next]_vars PROVE LimitOK'
<1>0. /\ session \in [Session -> SessionRow] /\ login \in [Session -> Login]
      /\ Live \ Doomed \in SUBSET Session
  BY DEF IInv, TypeOK, Live
<1> SUFFICES ASSUME \A s \in Session : login'[s].pc # "select"
             PROVE  Cardinality((Live \ Doomed)') <= MaxSessions
  BY DEF LimitOK
(* No session is made or spared.                                           *)
<1>1. ASSUME \A s \in Session : login[s].pc # "select", Live' \subseteq Live,
             \A s \in Doomed : s \in Doomed' \/ s \notin Live'
      PROVE  Cardinality((Live \ Doomed)') <= MaxSessions
  <2>1. Cardinality(Live \ Doomed) <= MaxSessions
    BY <1>1 DEF LimitOK
  <2>2. (Live \ Doomed)' \subseteq Live \ Doomed
    BY <1>1
  <2> QED
    BY <1>0, <2>1, <2>2, FewerSessions
(* Logins go on as they are.                                               *)
<1>2. ASSUME UNCHANGED login, Live' \subseteq Live
      PROVE  Cardinality((Live \ Doomed)') <= MaxSessions
  BY <1>1, <1>2 DEF Doomed
<1>3. ASSUME NEW t \in Tab, NEW s \in Session, establishSession(t, s)
      PROVE  Cardinality((Live \ Doomed)') <= MaxSessions
  BY <1>0, <1>3 DEF establishSession, Login
<1>4. ASSUME NEW s \in Session, evictOverflowSessions(s)
      PROVE  Cardinality((Live \ Doomed)') <= MaxSessions
  <2>1. PICK K \in Kept(Live \ {s}) :
           login' = [login EXCEPT ![s] = [pc |-> "evict", overflow |-> (Live \ {s}) \ K]]
    BY <1>4 DEF evictOverflowSessions
  <2>2. Live' = Live
    BY <1>4 DEF evictOverflowSessions, Live
  <2>3. (Live \ {s}) \ K \subseteq Doomed'
    BY <1>0, <2>1 DEF Doomed, Live
  <2>4. (Live \ Doomed)' \subseteq K \cup {s}
    BY <2>2, <2>3
  <2>5. Cardinality(K \cup {s}) <= MaxSessions
    BY ChoiceFits
  <2>6. K \cup {s} \in SUBSET Session
    BY DEF Kept, Live
  <2> QED
    BY <2>4, <2>5, <2>6, FewerSessions
<1>5. ASSUME NEW s \in Session, evict(s)
      PROVE  Cardinality((Live \ Doomed)') <= MaxSessions
  <2>1. PICK r \in login[s].overflow : session' = Revoked(r) /\ login' = [login EXCEPT ![s].overflow = @ \ {r}]
    BY <1>5 DEF evict
  <2>2. r \in Session /\ login[s].pc = "evict"
    BY <1>0, <1>5 DEF evict, Login
  <2>3. Live' = Live \ {r}
    BY <1>0, <2>1, <2>2 DEF Live, Revoked, SessionRow
  <2>4. \A q \in Session : login'[q].pc = login[q].pc /\ login[q].overflow \ {r} \subseteq login'[q].overflow
    BY <1>0, <2>1 DEF Login
  <2> QED
    BY <1>1, <2>3, <2>4 DEF Doomed
<1>6. ASSUME NEW s \in Session, loginIssues(s) PROVE Cardinality((Live \ Doomed)') <= MaxSessions
  <2>1. /\ Live' = Live /\ login[s].pc = "evict" /\ login[s].overflow = {}
        /\ \A q \in Session \ {s} : login'[q] = login[q]
    BY <1>0, <1>6 DEF loginIssues, Live
  <2> QED
    BY <1>1, <2>1 DEF Doomed
<1>7. ASSUME NEW t \in Tab, installSession(t) PROVE Cardinality((Live \ Doomed)') <= MaxSessions
  <2> DEFINE s == tab[t].login
  <2>1. /\ Live' = Live /\ login[s].pc = "answered" /\ login' = [login EXCEPT ![s] = NoLogin]
    BY <1>7 DEF installSession, Live
  <2> HIDE DEF s
  <2>2. \A q \in Session : q # s => login'[q] = login[q]
    BY <1>0, <2>1
  <2>3. \A q \in Session : login[q].pc # "select" /\ (login[q].pc = "evict" => login'[q] = login[q])
    BY <2>1, <2>2
  <2> QED
    BY <1>1, <2>1, <2>3 DEF Doomed
<1>8. ASSUME NEW t \in Tab, loginFails(t) \/ clear(t) PROVE Cardinality((Live \ Doomed)') <= MaxSessions
  BY <1>2, <1>8 DEF loginFails, clear, Live
<1>9. ASSUME NEW s \in Session, revokeSession(s) PROVE Cardinality((Live \ Doomed)') <= MaxSessions
  <2>1. Live' \subseteq Live /\ UNCHANGED login
    BY <1>0, <1>9 DEF revokeSession, Revoked, Live, SessionRow
  <2> QED
    BY <1>2, <2>1
<1>10. ASSUME NEW t \in Tab, NEW q \in Request, refresh(t, q) PROVE Cardinality((Live \ Doomed)') <= MaxSessions
  BY <1>2, <1>10 DEF refresh, Live
<1>11. ASSUME NEW q \in Request, Server(q) PROVE Cardinality((Live \ Doomed)') <= MaxSessions
  <2>1. UNCHANGED login
    BY <1>11 DEF Server, execute, rotateRefreshToken, issueAccessToken, detectReuseOrFail, revokeReused, serverFails
  <2>2. Live' \subseteq Live
    <3>1. CASE rotateRefreshToken(q)
      <4>1. \/ UNCHANGED session
            \/ session' = [session EXCEPT ![req[q].session].hash = issued + 1]
        BY <3>1 DEF rotateRefreshToken
      <4> QED
        BY <1>0, <4>1 DEF Live, SessionRow
    <3>2. CASE revokeReused(q)
      <4>1. session' = [session EXCEPT ![req[q].session].state = "revoked"]
        BY <3>2 DEF revokeReused, Revoked
      <4> QED
        BY <1>0, <4>1 DEF Live, SessionRow
    <3>3. CASE UNCHANGED session
      BY <3>3 DEF Live
    <3> QED
      BY <1>11, <3>1, <3>2, <3>3 DEF Server, execute, issueAccessToken, detectReuseOrFail, serverFails
  <2> QED
    BY <1>2, <2>1, <2>2
<1>12. ASSUME NEW q \in Request, Client(q) PROVE Cardinality((Live \ Doomed)') <= MaxSessions
  BY <1>2, <1>12 DEF Client, ignored, refused, bodyFollows, setTokens, lose, Live
<1>13. CASE UNCHANGED vars
  BY <1>2, <1>13 DEF vars, Live
<1> QED
  BY <1>3, <1>4, <1>5, <1>6, <1>7, <1>8, <1>9, <1>10, <1>11, <1>12, <1>13 DEF Next

(* Whenever no login is under way the user has at most MaxSessions         *)
(* sessions, however many logins chose what to evict at the same time      *)
(* (LoginAction::evictOverflowSessions, which takes no lock).              *)
THEOREM LimitHolds == Spec => []SessionLimit
<1>1. Init => LimitOK
  <2> SUFFICES ASSUME Init PROVE Cardinality(Live \ Doomed) <= MaxSessions
    BY DEF LimitOK
  <2>1. Live \ Doomed = {}
    BY DEF Init, Live
  <2> QED
    BY <2>1, FS_EmptySet, SessionsAssumption
<1>2. IInv /\ LimitOK /\ [Next]_vars => LimitOK'
  BY LimitStep
<1>3. LimitOK => SessionLimit
  <2> SUFFICES ASSUME LimitOK, \A s \in Session : login[s].pc \in {"idle", "answered"}
               PROVE  Cardinality(Live) <= MaxSessions
    BY DEF SessionLimit
  <2>1. Live \ Doomed = Live
    BY DEF Doomed
  <2> QED
    BY <2>1 DEF LimitOK
<1> QED
  BY <1>1, <1>2, <1>3, Invariance, PTL DEF Spec
=================================================================================
