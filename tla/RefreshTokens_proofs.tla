------------------------ MODULE RefreshTokens_proofs ------------------------
(* Proofs about RefreshTokens, for every value of its constants.             *)
EXTENDS TokenHistory, FiniteSetTheorems, TLAPS

(* The label of a continuation determines the values it carries. *)
LEMMA ContinuationByLabel ==
  ASSUME TypeOK, NEW r \in Requests
  PROVE  /\ req[r].pc = "login" => req[r] \in LoggingIn
         /\ req[r].pc \in {"revoke", "issue"} => req[r] \in Rotating
         /\ req[r].pc = "check" => req[r] \in Checking
         /\ req[r].pc = "close" => req[r] \in Closing
         /\ req[r].pc = "family" => req[r] \in Punishing
  BY DEF TypeOK, Continuations, Idle, LoggingIn, Rotating, Checking, Closing,
         Punishing

(* A row that is there has the columns of a token. *)
LEMMA IssuedIsRow ==
  ASSUME TypeOK, NEW t \in Tokens, Issued(t)
  PROVE  /\ token[t] \in Row
         /\ token[t].user \in Users
         /\ token[t].family \in Tokens
         /\ token[t].epoch \in Epochs
  BY DEF TypeOK, Issued, Row

(* The columns of a row that no update writes. *)
SameColumns(t) ==
  /\ token'[t].family = token[t].family
  /\ token'[t].user = token[t].user
  /\ token'[t].epoch = token[t].epoch

(* Writing a state over some rows keeps which rows exist, whose they are and  *)
(* in which family.                                                         *)
RowsKept ==
  \A t \in Tokens :
    /\ Issued(t)' <=> Issued(t)
    /\ Issued(t) => SameColumns(t)

(* revokedAt is written over rows: they keep their type, and no dead row      *)
(* comes to life.                                                           *)
LEMMA RevokeAllKeeps ==
  ASSUME TypeOK, NEW S, RevokeAll(S)
  PROVE  /\ token' \in [Tokens -> Row \union {None}]
         /\ RowsKept
         /\ \A t \in Tokens : Live(t)' => Live(t)
<1> DEFINE new(t) == IF t \in S /\ Unrevoked(t)
                     THEN [token[t] EXCEPT !.state = "revoked"] ELSE token[t]
<1>1. token' = [t \in Tokens |-> new(t)]
  BY DEF RevokeAll
<1>2. ASSUME NEW t \in Tokens
      PROVE  /\ new(t) \in Row \union {None}
             /\ new(t) # None <=> Issued(t)
             /\ Issued(t) => /\ new(t).family = token[t].family
                             /\ new(t).user = token[t].user
                             /\ new(t).epoch = token[t].epoch
             /\ Issued(t) /\ new(t).state = "live" => Live(t)
  <2>1. CASE t \in S /\ Unrevoked(t)
    <3>1. Issued(t) /\ token[t] \in Row
      BY <2>1, IssuedIsRow DEF Unrevoked
    <3>2. new(t) = [token[t] EXCEPT !.state = "revoked"]
      BY <2>1
    <3>3. /\ new(t) \in Row /\ new(t).state = "revoked"
          /\ new(t).family = token[t].family
          /\ new(t).user = token[t].user
          /\ new(t).epoch = token[t].epoch
      BY <3>1, <3>2 DEF Row
    <3> QED BY <3>1, <3>3, NoneAssumption
  <2>2. CASE ~(t \in S /\ Unrevoked(t))
    <3>1. new(t) = token[t]
      BY <2>2
    <3> QED BY <3>1 DEF TypeOK, Issued, Live
  <2> QED BY <2>1, <2>2
<1>3. token' \in [Tokens -> Row \union {None}]
  BY <1>1, <1>2
<1>4. RowsKept /\ \A t \in Tokens : Live(t)' => Live(t)
  <2> SUFFICES ASSUME NEW t \in Tokens
               PROVE  /\ Issued(t)' <=> Issued(t)
                      /\ Issued(t) => SameColumns(t)
                      /\ Live(t)' => Live(t)
    BY DEF RowsKept
  <2>1. token'[t] = new(t)
    BY <1>1
  <2> QED BY <1>2, <2>1 DEF Issued, Live, SameColumns
<1> QED BY <1>3, <1>4

(* The same for one row whose state is overwritten with one that is not live. *)
LEMMA OneRowKeeps ==
  ASSUME TypeOK, NEW t \in Tokens, Issued(t),
         NEW s \in {"expired", "revoked", "purged"},
         token' = [token EXCEPT ![t].state = s]
  PROVE  /\ token' \in [Tokens -> Row \union {None}]
         /\ RowsKept
         /\ \A u \in Tokens : Live(u)' => Live(u)
<1>1. token[t] \in Row
  BY IssuedIsRow
<1>2. /\ [token[t] EXCEPT !.state = s] \in Row
      /\ [token[t] EXCEPT !.state = s].state = s
      /\ [token[t] EXCEPT !.state = s].family = token[t].family
      /\ [token[t] EXCEPT !.state = s].user = token[t].user
      /\ [token[t] EXCEPT !.state = s].epoch = token[t].epoch
  BY <1>1 DEF Row
<1>3. token' = [token EXCEPT ![t] = [token[t] EXCEPT !.state = s]]
  BY DEF TypeOK
<1>4. token' \in [Tokens -> Row \union {None}]
  BY <1>2, <1>3 DEF TypeOK
<1>5. ASSUME NEW u \in Tokens
      PROVE  /\ Issued(u)' <=> Issued(u)
             /\ Issued(u) => SameColumns(u)
             /\ Live(u)' => Live(u)
  <2>1. CASE u = t
    <3>1. token'[u] = [token[t] EXCEPT !.state = s]
      BY <1>3, <2>1 DEF TypeOK
    <3> QED BY <1>2, <2>1, <3>1, NoneAssumption DEF Issued, Live, SameColumns
  <2>2. CASE u # t
    <3>1. token'[u] = token[u]
      BY <1>3, <2>2 DEF TypeOK
    <3> QED BY <3>1 DEF Issued, Live, SameColumns
  <2> QED BY <2>1, <2>2
<1> QED BY <1>4, <1>5 DEF RowsKept

(* A new row leaves the others alone. *)
LEMMA IssueKeeps ==
  ASSUME TypeOK, NEW t \in Tokens, Fresh(t), NEW row \in Row,
         token' = [token EXCEPT ![t] = row]
  PROVE  /\ token' \in [Tokens -> Row \union {None}]
         /\ Issued(t)' /\ token'[t] = row
         /\ \A u \in Tokens : u # t => token'[u] = token[u]
         /\ \A u \in Tokens : Issued(u) => Issued(u)'
  BY NoneAssumption DEF TypeOK, Issued, Fresh

(* The steps that add no row.  Together with LoginIssue and RotateIssue they  *)
(* are all the steps.                                                       *)
LEMMA RowsKeptByTheRest ==
  ASSUME TypeOK, [Next]_vars, \A r \in Requests : ~LoginIssue(r) /\ ~RotateIssue(r)
  PROVE  /\ token' \in [Tokens -> Row \union {None}]
         /\ RowsKept
         /\ \A t \in Tokens : Live(t)' => Live(t)
<1>1. CASE UNCHANGED token
  BY <1>1 DEF TypeOK, RowsKept, SameColumns, Issued, Live
<1>2. ASSUME NEW r \in Requests, RevokeFamily(r) \/ CloseSessions(r)
      PROVE  \E S : RevokeAll(S)
  BY <1>2 DEF RevokeFamily, CloseSessions
<1>3. ASSUME NEW r \in Requests, RotateRevoke(r)
      PROVE  \E t \in Tokens : Issued(t) /\ token' = [token EXCEPT ![t].state = "revoked"]
  <2>1. req[r].token \in Tokens
    BY <1>3, ContinuationByLabel DEF RotateRevoke, Rotating
  <2>2. Issued(req[r].token)
    BY <1>3 DEF RotateRevoke, TypeOK
  <2> QED BY <1>3, <2>1, <2>2 DEF RotateRevoke
<1>4. ASSUME NEW t \in Tokens, Expire(t) \/ Purge(t)
      PROVE  Issued(t) /\ \E s \in {"expired", "purged"} :
                            token' = [token EXCEPT ![t].state = s]
  BY <1>4 DEF Expire, Purge, Live
<1>5. ASSUME NEW t \in Tokens, Logout(t)
      PROVE  RevokeAll({t})
  BY <1>5 DEF Logout
<1>6. \/ UNCHANGED token
      \/ \E r \in Requests : RevokeFamily(r) \/ CloseSessions(r)
      \/ \E r \in Requests : RotateRevoke(r)
      \/ \E t \in Tokens : Expire(t) \/ Purge(t)
      \/ \E t \in Tokens : Logout(t)
  BY DEF Next, vars, PasswordLogin, OAuthLogin, RotateRead, RotateRefused, ReuseRead,
         RotateGone, RefreshCheck, NewPassword, Deactivate, RemoveMember, Fail,
         Reactivate, AdoptMember, AttachAdmin
<1> QED BY <1>1, <1>2, <1>3, <1>4, <1>5, <1>6, RevokeAllKeeps, OneRowKeeps

(* No step removes a row: a purge leaves a mark. *)
LEMMA IssuedStays ==
  ASSUME TypeOK, [Next]_vars, NEW t \in Tokens, Issued(t)
  PROVE  Issued(t)'
<1>1. ASSUME NEW r \in Requests, LoginIssue(r) \/ RotateIssue(r)
      PROVE  Issued(t)'
  <2>1. PICK u \in Tokens : Fresh(u) /\ \E row : token' = [token EXCEPT ![u] = row]
    BY <1>1 DEF LoginIssue, RotateIssue
  <2> QED BY <2>1 DEF Fresh, Issued, TypeOK
<1> QED BY <1>1, RowsKeptByTheRest DEF RowsKept

(* A request moves to a continuation of its type. *)
LEMMA TypedMove ==
  ASSUME TypeOK, [Next]_vars, NEW r \in Requests, NEW k \in Continuations, Goto(r, k),
         k.pc \in {"revoke", "issue", "family"} => k.token \in Tokens /\ Issued(k.token)
  PROVE  /\ req' \in [Requests -> Continuations]
         /\ \A q \in Requests :
              req'[q].pc \in {"revoke", "issue", "family"} => Issued(req[q].token)'
<1>1. req' \in [Requests -> Continuations]
  BY DEF Goto, TypeOK
<1>2. ASSUME NEW q \in Requests, req'[q].pc \in {"revoke", "issue", "family"}
      PROVE  Issued(req[q].token)'
  <2>1. CASE q = r
    <3>1. req'[q] = k
      BY <2>1 DEF Goto, TypeOK
    <3>2. token'[k.token] # None
      BY <1>2, <3>1, IssuedStays DEF Issued
    <3> QED BY <3>1, <3>2 DEF Issued
  <2>2. CASE q # r
    <3>1. req'[q] = req[q]
      BY <2>2 DEF Goto, TypeOK
    <3>2. req[q].token \in Tokens /\ Issued(req[q].token)
      BY <1>2, <3>1, ContinuationByLabel DEF Rotating, Punishing, TypeOK
    <3>3. token'[req[q].token] # None
      BY <3>2, IssuedStays DEF Issued
    <3> QED BY <3>1, <3>3 DEF Issued
  <2> QED BY <2>1, <2>2
<1> QED BY <1>1, <1>2

(* No step leaves a row or a continuation without its type. *)
LEMMA TokensTyped == TypeOK /\ [Next]_vars => token' \in [Tokens -> Row \union {None}]
<1> SUFFICES ASSUME TypeOK, [Next]_vars PROVE token' \in [Tokens -> Row \union {None}]
  OBVIOUS
<1>1. ASSUME NEW r \in Requests, LoginIssue(r)
      PROVE  token' \in [Tokens -> Row \union {None}]
  <2>1. PICK t \in Tokens : token' = [token EXCEPT ![t] =
           [state |-> "live", user |-> req[r].user, family |-> t,
            epoch |-> req[r].epoch]]
    BY <1>1 DEF LoginIssue
  <2>2. req[r] \in LoggingIn
    BY <1>1, ContinuationByLabel DEF LoginIssue
  <2>3. [state |-> "live", user |-> req[r].user, family |-> t,
         epoch |-> req[r].epoch] \in Row
    BY <2>2 DEF LoggingIn, Row
  <2> QED BY <2>1, <2>3 DEF TypeOK
<1>2. ASSUME NEW r \in Requests, RotateIssue(r)
      PROVE  token' \in [Tokens -> Row \union {None}]
  <2> DEFINE old == token[req[r].token]
  <2>1. PICK t \in Tokens : token' = [token EXCEPT ![t] =
           [state |-> "live", user |-> old.user, family |-> old.family,
            epoch |-> old.epoch]]
    BY <1>2 DEF RotateIssue
  <2>2. req[r].token \in Tokens
    BY <1>2, ContinuationByLabel DEF RotateIssue, Rotating
  <2>3. Issued(req[r].token)
    BY <1>2 DEF RotateIssue, TypeOK
  <2>4. [state |-> "live", user |-> old.user, family |-> old.family,
         epoch |-> old.epoch] \in Row
    BY <2>2, <2>3, IssuedIsRow DEF Row
  <2> QED BY <2>1, <2>4 DEF TypeOK
<1> QED BY <1>1, <1>2, RowsKeptByTheRest

(* The request that moves does so to a typed continuation. *)
LEMMA ContinuationsTyped ==
  ASSUME TypeOK, [Next]_vars
  PROVE  /\ req' \in [Requests -> Continuations]
         /\ \A q \in Requests :
              req'[q].pc \in {"revoke", "issue", "family"} => Issued(req[q].token)'
<1> DEFINE Good == /\ req' \in [Requests -> Continuations]
                   /\ \A q \in Requests :
                        req'[q].pc \in {"revoke", "issue", "family"}
                          => Issued(req[q].token)'
<1>1. CASE UNCHANGED req
  <2>1. \A q \in Requests : req[q].pc \in {"revoke", "issue", "family"} =>
          req[q].token \in Tokens /\ Issued(req[q].token)
    BY ContinuationByLabel DEF Rotating, Punishing, TypeOK
  <2>2. \A q \in Requests : req[q].pc \in {"revoke", "issue", "family"} =>
          token'[req[q].token] # None
    BY <2>1, IssuedStays DEF Issued
  <2> QED BY <1>1, <2>2 DEF TypeOK, Issued
<1>2. ASSUME NEW r \in Requests, Goto(r, Idle)
      PROVE  Good
  <2>1. Idle \in Continuations /\ Idle.pc = "idle"
    BY DEF Continuations, Idle
  <2> QED BY <1>2, <2>1, TypedMove
<1>3. ASSUME NEW r \in Requests, NEW u \in Users, PasswordLogin(r, u) \/ OAuthLogin(r, u)
      PROVE  Good
  <2>1. [pc |-> "login", user |-> u, epoch |-> epoch[u]] \in Continuations
    BY DEF Continuations, LoggingIn, TypeOK
  <2>2. Goto(r, [pc |-> "login", user |-> u, epoch |-> epoch[u]])
    BY <1>3 DEF PasswordLogin, OAuthLogin
  <2> QED BY <2>1, <2>2, TypedMove
<1>4. ASSUME NEW r \in Requests, NEW t \in Tokens, RotateRead(r, t) \/ ReuseRead(r, t)
      PROVE  Good
  <2>1. PICK p \in {"revoke", "family"} : Goto(r, [pc |-> p, token |-> t])
    BY <1>4 DEF RotateRead, ReuseRead
  <2>2. [pc |-> p, token |-> t] \in Continuations
    BY DEF Continuations, Rotating, Punishing
  <2>3. Issued(t)
    BY <1>4 DEF RotateRead, ReuseRead, Live
  <2> QED BY <2>1, <2>2, <2>3, TypedMove
<1>5. ASSUME NEW r \in Requests, RotateRevoke(r)
      PROVE  Good
  <2>1. Goto(r, [pc |-> "issue", token |-> req[r].token])
    BY <1>5 DEF RotateRevoke
  <2>2. req[r].token \in Tokens /\ Issued(req[r].token)
    BY <1>5, ContinuationByLabel DEF RotateRevoke, Rotating, TypeOK
  <2>3. [pc |-> "issue", token |-> req[r].token] \in Continuations
    BY <2>2 DEF Continuations, Rotating
  <2> QED BY <2>1, <2>2, <2>3, TypedMove
<1>6. ASSUME NEW r \in Requests, RotateIssue(r)
      PROVE  Good
  <2>1. req[r].token \in Tokens /\ Issued(req[r].token)
    BY <1>6, ContinuationByLabel DEF RotateIssue, Rotating, TypeOK
  <2>2. [pc |-> "check", user |-> token[req[r].token].user] \in Continuations
    BY <2>1, IssuedIsRow DEF Continuations, Checking
  <2>3. Goto(r, [pc |-> "check", user |-> token[req[r].token].user])
    BY <1>6 DEF RotateIssue
  <2> QED BY <2>2, <2>3, TypedMove
<1>7. ASSUME NEW r \in Requests, NEW u \in Users, Goto(r, [pc |-> "close", user |-> u])
      PROVE  Good
  <2>1. [pc |-> "close", user |-> u] \in Continuations
    BY DEF Continuations, Closing
  <2> QED BY <1>7, <2>1, TypedMove
<1>8. ASSUME NEW r \in Requests, RefreshCheck(r)
      PROVE  Good
  <2>1. req[r].user \in Users
    BY <1>8, ContinuationByLabel DEF RefreshCheck, Checking
  <2> QED BY <1>2, <1>7, <1>8, <2>1 DEF RefreshCheck
<1>9. ASSUME NEW r \in Requests, NEW u \in Users,
             NewPassword(r, u) \/ Deactivate(r, u) \/ RemoveMember(r, u)
      PROVE  Good
  BY <1>7, <1>9 DEF NewPassword, Deactivate, RemoveMember
<1>10. ASSUME NEW r \in Requests,
              LoginIssue(r) \/ RevokeFamily(r) \/ RotateGone(r) \/ CloseSessions(r)
                \/ Fail(r)
       PROVE  Good
  BY <1>2, <1>10 DEF LoginIssue, RevokeFamily, RotateGone, CloseSessions, Fail
<1>11. ASSUME NEW t \in Tokens,
              Logout(t) \/ Expire(t) \/ Purge(t)
                \/ \E r \in Requests : RotateRefused(r, t)
       PROVE  UNCHANGED req
  BY <1>11 DEF Logout, Expire, Purge, RotateRefused, vars
<1>12. ASSUME NEW u \in Users, Reactivate(u) \/ AdoptMember(u) \/ AttachAdmin(u)
       PROVE  UNCHANGED req
  BY <1>12 DEF Reactivate, AdoptMember, AttachAdmin
<1> QED
  BY <1>1, <1>3, <1>4, <1>5, <1>6, <1>8, <1>9, <1>10, <1>11, <1>12 DEF Next, vars

(* Flags and counters keep their types. *)
LEMMA AccountsTyped ==
  ASSUME TypeOK, [Next]_vars
  PROVE  /\ active' \in [Users -> BOOLEAN]
         /\ linked' \subseteq Users
         /\ epoch' \in [Users -> Epochs]
<1>1. ASSUME NEW u \in Users, epoch[u] < MaxEpoch,
             epoch' = [epoch EXCEPT ![u] = @ + 1]
      PROVE  epoch' \in [Users -> Epochs]
  <2>1. epoch[u] + 1 \in Epochs
    BY <1>1, BoundAssumption DEF TypeOK, Epochs
  <2> QED BY <1>1, <2>1 DEF TypeOK
<1>2. ASSUME NEW r \in Requests, NEW u \in Users, NewPassword(r, u) \/ Deactivate(r, u)
      PROVE  /\ active' \in [Users -> BOOLEAN]
             /\ linked' \subseteq Users
             /\ epoch' \in [Users -> Epochs]
  BY <1>1, <1>2 DEF NewPassword, Deactivate, TypeOK
<1>3. ASSUME NEW u \in Users, Reactivate(u) \/ AdoptMember(u) \/ AttachAdmin(u)
      PROVE  /\ active' \in [Users -> BOOLEAN]
             /\ linked' \subseteq Users
             /\ epoch' \in [Users -> Epochs]
  BY <1>1, <1>3 DEF Reactivate, AdoptMember, AttachAdmin, TypeOK
<1>4. ASSUME NEW r \in Requests, NEW u \in Users, OAuthLogin(r, u)
      PROVE  UNCHANGED <<active, epoch>> /\ linked' = linked \union {u}
  BY <1>4 DEF OAuthLogin
<1>5. CASE UNCHANGED <<active, linked, epoch>>
  BY <1>5 DEF TypeOK
<1> QED
  BY <1>2, <1>3, <1>4, <1>5
     DEF Next, vars, TypeOK, PasswordLogin, LoginIssue, RotateRead, RotateRefused,
         ReuseRead, RevokeFamily, RotateRevoke, RotateGone, RotateIssue,
         RefreshCheck, RemoveMember, CloseSessions, Fail, Logout, Expire, Purge

(* Rows, accounts and continuations always hold values of their types, and a  *)
(* rotation in flight always refers to a token that was issued.              *)
THEOREM TokensTypeCorrect == Spec => []TypeOK
<1>1. Init => TypeOK
  BY LinkedAssumption, BoundAssumption
     DEF Init, TypeOK, Continuations, Idle, Epochs
<1>2. TypeOK /\ [Next]_vars => TypeOK'
  BY TokensTyped, ContinuationsTyped, AccountsTyped DEF TypeOK
<1> QED BY <1>1, <1>2, PTL DEF Spec

(* The step of one request, as in Next. *)
Step(r) ==
  \/ \E u \in Users : PasswordLogin(r, u) \/ OAuthLogin(r, u)
  \/ LoginIssue(r)
  \/ \E t \in Tokens : RotateRead(r, t) \/ RotateRefused(r, t) \/ ReuseRead(r, t)
  \/ RevokeFamily(r)
  \/ RotateRevoke(r) \/ RotateGone(r) \/ RotateIssue(r) \/ RefreshCheck(r)
  \/ \E u \in Users : NewPassword(r, u) \/ Deactivate(r, u) \/ RemoveMember(r, u)
  \/ CloseSessions(r)
  \/ Fail(r)

(* Moving one request leaves the others where they are. *)
LEMMA GotoMovesOne ==
  ASSUME TypeOK, NEW r \in Requests
  PROVE  \A k : Goto(r, k) =>
           req'[r] = k /\ \A q \in Requests \ {r} : req'[q] = req[q]
  BY DEF TypeOK, Goto

(* A step of a request moves it and no other. *)
LEMMA StepMovesOne ==
  ASSUME TypeOK, NEW r \in Requests, Step(r)
  PROVE  \A q \in Requests \ {r} : req'[q] = req[q]
<1>1. CASE \E t \in Tokens : RotateRefused(r, t)
  BY <1>1 DEF RotateRefused, vars
<1>2. CASE \E u \in Users : PasswordLogin(r, u) \/ OAuthLogin(r, u)
  BY <1>2, GotoMovesOne DEF PasswordLogin, OAuthLogin
<1>3. CASE \E t \in Tokens : RotateRead(r, t) \/ ReuseRead(r, t)
  BY <1>3, GotoMovesOne DEF RotateRead, ReuseRead
<1>4. CASE \E u \in Users : NewPassword(r, u) \/ Deactivate(r, u) \/ RemoveMember(r, u)
  BY <1>4, GotoMovesOne DEF NewPassword, Deactivate, RemoveMember
<1>5. CASE LoginIssue(r) \/ RevokeFamily(r) \/ RotateGone(r) \/ CloseSessions(r) \/ Fail(r)
  BY <1>5, GotoMovesOne DEF LoginIssue, RevokeFamily, RotateGone, CloseSessions, Fail
<1>6. CASE RotateRevoke(r) \/ RotateIssue(r) \/ RefreshCheck(r)
  BY <1>6, GotoMovesOne DEF RotateRevoke, RotateIssue, RefreshCheck
<1> QED BY <1>1, <1>2, <1>3, <1>4, <1>5, <1>6 DEF Step

(* The steps that belong to no request. *)
LEMMA OtherSteps ==
  ASSUME [Next]_vars, \A r \in Requests : ~Step(r)
  PROVE  UNCHANGED req
<1>1. ASSUME NEW u \in Users, Reactivate(u) \/ AdoptMember(u) \/ AttachAdmin(u)
      PROVE  UNCHANGED req
  BY <1>1 DEF Reactivate, AdoptMember, AttachAdmin
<1>2. ASSUME NEW t \in Tokens, Logout(t) \/ Expire(t) \/ Purge(t)
      PROVE  UNCHANGED req
  BY <1>2 DEF Logout, Expire, Purge
<1> QED BY <1>1, <1>2 DEF Next, Step, vars

(* A request that has moved moved by its own step. *)
LEMMA MoverSteps ==
  ASSUME TypeOK, [Next]_vars, NEW r \in Requests, req'[r] # req[r]
  PROVE  Step(r)
<1>1. PICK q \in Requests : Step(q)
  BY OtherSteps
<1>2. q = r
  BY <1>1, StepMovesOne
<1> QED BY <1>1, <1>2

(* How a request reaches each label. *)
LEMMA Arrivals ==
  ASSUME TypeOK, [Next]_vars, NEW r \in Requests, req'[r] # req[r]
  PROVE  /\ req'[r].pc = "login" =>
              /\ IsIdle(r) /\ req'[r].epoch = epoch[req'[r].user]
              /\ UNCHANGED <<token, active, epoch>>
         /\ req'[r].pc = "revoke" =>
              /\ IsIdle(r) /\ Live(req'[r].token)
              /\ req'[r].token \in Tokens
              /\ UNCHANGED <<token, active, epoch>>
         /\ req'[r].pc = "issue" => RotateRevoke(r) /\ req'[r].token = req[r].token
         /\ req'[r].pc = "check" =>
              RotateIssue(r) /\ req'[r].user = token[req[r].token].user
<1>1. CASE \E t \in Tokens : RotateRefused(r, t)
  BY <1>1 DEF RotateRefused, vars
<1>2. CASE \E u \in Users : PasswordLogin(r, u) \/ OAuthLogin(r, u)
  BY <1>2, GotoMovesOne DEF PasswordLogin, OAuthLogin
<1>3. CASE \E t \in Tokens : RotateRead(r, t) \/ ReuseRead(r, t)
  BY <1>3, GotoMovesOne DEF RotateRead, ReuseRead
<1>4. CASE \E u \in Users : NewPassword(r, u) \/ Deactivate(r, u) \/ RemoveMember(r, u)
  BY <1>4, GotoMovesOne DEF NewPassword, Deactivate, RemoveMember
<1>5. CASE LoginIssue(r) \/ RevokeFamily(r) \/ RotateGone(r) \/ CloseSessions(r) \/ Fail(r)
  BY <1>5, GotoMovesOne DEF LoginIssue, RevokeFamily, RotateGone, CloseSessions, Fail, Idle
<1>6. CASE RotateRevoke(r)
  BY <1>6, GotoMovesOne DEF RotateRevoke
<1>7. CASE RotateIssue(r)
  <2>1. Goto(r, [pc |-> "check", user |-> token[req[r].token].user])
    BY <1>7 DEF RotateIssue
  <2>2. req'[r] = [pc |-> "check", user |-> token[req[r].token].user]
    BY <2>1, GotoMovesOne
  <2> QED BY <1>7, <2>2
<1>8. CASE RefreshCheck(r)
  BY <1>8, GotoMovesOne DEF RefreshCheck, Idle
<1> QED BY <1>1, <1>2, <1>3, <1>4, <1>5, <1>6, <1>7, <1>8, MoverSteps DEF Step

(* How a request leaves its read of the account and its closing. *)
LEMMA Departures ==
  ASSUME TypeOK, [Next]_vars, NEW r \in Requests, req'[r] # req[r]
  PROVE  /\ req[r].pc = "check" => RefreshCheck(r) \/ Fail(r)
         /\ req[r].pc = "close" => CloseSessions(r) \/ Fail(r)
  BY MoverSteps
     DEF Step, IsIdle, PasswordLogin, OAuthLogin, LoginIssue, RotateRead, RotateRefused,
         ReuseRead, RevokeFamily, RotateRevoke, RotateGone, RotateIssue, NewPassword,
         Deactivate, RemoveMember, RefreshCheck, CloseSessions

(* A family that is dead gains no row and no rotation. *)
LEMMA DeadStep == TypeOK /\ [Next]_vars => \A f \in Tokens : Dead(f) => Dead(f)'
<1> SUFFICES ASSUME TypeOK, [Next]_vars, NEW f \in Tokens, Dead(f)
             PROVE  Dead(f)'
  OBVIOUS
<1>1. Issued(f)'
  BY IssuedStays DEF Dead
<1>2. ASSUME NEW t \in Tokens, Issued(t)', token'[t].family = f
      PROVE  ~Live(t)'
  <2>1. ASSUME NEW r \in Requests, LoginIssue(r)
        PROVE  ~Live(t)'
    <3>1. PICK u \in Tokens :
            /\ Fresh(u)
            /\ token' = [token EXCEPT ![u] =
                 [state |-> "live", user |-> req[r].user, family |-> u,
                  epoch |-> req[r].epoch]]
      BY <2>1 DEF LoginIssue
    <3>2. u # f
      BY <3>1 DEF Fresh, Dead
    <3>3. t # u
      BY <1>2, <3>1, <3>2 DEF TypeOK
    <3>4. token'[t] = token[t]
      BY <3>1, <3>3 DEF TypeOK
    <3> QED BY <1>2, <3>4 DEF Dead, Family, Live, Issued
  <2>2. ASSUME NEW r \in Requests, RotateIssue(r)
        PROVE  ~Live(t)'
    <3> DEFINE old == token[req[r].token]
    <3>1. PICK u \in Tokens :
            /\ Fresh(u)
            /\ token' = [token EXCEPT ![u] =
                 [state |-> "live", user |-> old.user, family |-> old.family,
                  epoch |-> old.epoch]]
      BY <2>2 DEF RotateIssue
    <3>2. old.family # f
      BY <2>2 DEF RotateIssue, Dead, Renewing
    <3>3. t # u
      BY <1>2, <3>1, <3>2 DEF TypeOK
    <3>4. token'[t] = token[t]
      BY <3>1, <3>3 DEF TypeOK
    <3> QED BY <1>2, <3>4 DEF Dead, Family, Live, Issued
  <2>3. CASE \A r \in Requests : ~LoginIssue(r) /\ ~RotateIssue(r)
    <3>1. Live(t)' => Live(t)
      BY <2>3, RowsKeptByTheRest
    <3>2. Issued(t) /\ token[t].family = f
      BY <1>2, <2>3, RowsKeptByTheRest DEF RowsKept, SameColumns
    <3> QED BY <3>1, <3>2 DEF Dead, Family
  <2> QED BY <2>1, <2>2, <2>3
<1>3. ASSUME NEW t \in Tokens, Issued(t) PROVE token'[t].family = token[t].family
  <2>1. ASSUME NEW r \in Requests, LoginIssue(r) \/ RotateIssue(r)
        PROVE  token'[t] = token[t]
    <3>1. PICK u \in Tokens : Fresh(u) /\ \E row : token' = [token EXCEPT ![u] = row]
      BY <2>1 DEF LoginIssue, RotateIssue
    <3> QED BY <1>3, <3>1 DEF Fresh, TypeOK
  <2> QED BY <1>3, <2>1, RowsKeptByTheRest DEF RowsKept, SameColumns
<1>4. ASSUME NEW r \in Requests, req'[r].pc \in {"revoke", "issue"}
      PROVE  /\ req'[r].token \in Tokens /\ Issued(req'[r].token)
             /\ token[req'[r].token].family # f
  <2>1. CASE req'[r] = req[r]
    <3>1. req[r].token \in Tokens /\ Issued(req[r].token)
      BY <1>4, <2>1, ContinuationByLabel DEF Rotating, TypeOK
    <3> QED BY <1>4, <2>1, <3>1 DEF Dead, Renewing
  <2>2. CASE req'[r] # req[r] /\ req'[r].pc = "revoke"
    <3>1. req'[r].token \in Tokens /\ Live(req'[r].token)
      BY <2>2, Arrivals
    <3> QED BY <3>1 DEF Live, Dead, Family
  <2>3. CASE req'[r] # req[r] /\ req'[r].pc = "issue"
    <3>1. RotateRevoke(r) /\ req'[r].token = req[r].token
      BY <2>3, Arrivals
    <3>2. req[r].token \in Tokens /\ Issued(req[r].token)
      BY <3>1, ContinuationByLabel DEF RotateRevoke, Rotating, TypeOK
    <3> QED BY <3>1, <3>2 DEF RotateRevoke, Dead, Renewing
  <2> QED BY <1>4, <2>1, <2>2, <2>3
<1>5. \A r \in Requests : ~Renewing(r, f)'
  BY <1>3, <1>4 DEF Renewing
<1> QED BY <1>1, <1>2, <1>5 DEF Dead, Family

(* Once a family has neither a live token nor a rotation past its check, no   *)
(* interleaving of logins, rotations, reuses and closings revives it.        *)
THEOREM DeadForGood == Spec => DeadFamilyStaysDead
<1>1. TypeOK /\ [Next]_vars => [\A f \in Tokens : Dead(f) => Dead(f)']_vars
  BY DeadStep
<1> QED BY <1>1, TokensTypeCorrect, PTL DEF Spec, DeadFamilyStaysDead

-----------------------------------------------------------------------------
(* The sessions while requests come one at a time (module TokenHistory).      *)

(* Every token has a sound family: its first token was issued, to the same    *)
(* user.                                                                    *)
FamiliesHold ==
  \A t \in Tokens : Issued(t) =>
    /\ Issued(token[t].family)
    /\ token[token[t].family].user = token[t].user

(* t descends from a login made after its user's last closing, or from one    *)
(* that the later operation chose to keep.                                   *)
Current(t) ==
  token[t].epoch = epoch[token[t].user] \/ token[t].user \in kept

ClosingSessionsOf(u) == \E r \in Requests : req[r].pc = "close" /\ req[r].user = u

(* The tokens a family may hold: one that is live, unless a rotation is past   *)
(* its first write.                                                         *)
LiveOnce ==
  /\ \A t, u \in Tokens : Live(t) /\ Live(u) /\ token[t].family = token[u].family => t = u
  /\ \A r \in Requests, t \in Tokens :
       Live(t) /\ Renewing(r, token[t].family) => req[r].pc = "revoke" /\ t = req[r].token

(* What a login or a rotation in flight is about to issue, and every token     *)
(* that is live, is current; or the sessions are about to be closed.         *)
SessionsCurrent ==
  /\ \A r \in Requests :
       /\ req[r].pc = "login" =>
            req[r].epoch = epoch[req[r].user] \/ req[r].user \in kept
       /\ req[r].pc \in {"revoke", "issue"} => Current(req[r].token)
  /\ \A t \in Tokens : Live(t) => Current(t) \/ ClosingSessionsOf(token[t].user)

(* A family renewed since its user was deactivated is being closed, or has no  *)
(* live token left to renew.                                                *)
Ending(f) ==
  /\ Issued(f) /\ ~active[token[f].user]
  /\ \A r \in Requests : ~Renewing(r, f)
  /\ \/ \A t \in Tokens : Live(t) => token[t].family # f
     \/ \E r \in Requests : req[r].pc \in {"check", "close"} /\ req[r].user = token[f].user

RenewalsEnd ==
  \A f \in Tokens : renewals[f] = 0 \/ (renewals[f] = 1 /\ Ending(f))

Calm ==
  /\ \A q, r \in InFlight : q = r
  /\ LiveOnce
  /\ SessionsCurrent
  /\ RenewalsEnd

(* The inductive invariant of the calm sessions. *)
CalmInv == TypeOK /\ FamiliesHold /\ (calm => Calm)

-----------------------------------------------------------------------------
(* The columns that name a token's family, user and login never change. *)
LEMMA ColumnsStay ==
  ASSUME TypeOK, [Next]_vars, NEW t \in Tokens, Issued(t)
  PROVE  Issued(t)' /\ SameColumns(t)
<1>1. ASSUME NEW r \in Requests, LoginIssue(r) \/ RotateIssue(r)
      PROVE  token'[t] = token[t]
  <2>1. PICK u \in Tokens : Fresh(u) /\ \E row : token' = [token EXCEPT ![u] = row]
    BY <1>1 DEF LoginIssue, RotateIssue
  <2> QED BY <2>1 DEF Fresh, TypeOK
<1> QED BY <1>1, IssuedStays, RowsKeptByTheRest DEF RowsKept, SameColumns

(* A token that a step brings to life is the one it issues. *)
NewLogin(r, t) ==
  token'[t] = [state |-> "live", user |-> req[r].user, family |-> t,
               epoch |-> req[r].epoch]
NewRotation(r, t) ==
  LET old == token[req[r].token]
  IN  token'[t] = [state |-> "live", user |-> old.user, family |-> old.family,
                   epoch |-> old.epoch]

LEMMA LoginIssues ==
  ASSUME TypeOK, NEW r \in Requests, LoginIssue(r)
  PROVE  /\ req[r].user \in Users
         /\ \E t \in Tokens :
              /\ ~Issued(t) /\ Issued(t)' /\ NewLogin(r, t)
              /\ \A u \in Tokens : u # t => token'[u] = token[u]
<1>1. PICK t \in Tokens :
        /\ Fresh(t)
        /\ token' = [token EXCEPT ![t] =
             [state |-> "live", user |-> req[r].user, family |-> t,
              epoch |-> req[r].epoch]]
  BY DEF LoginIssue
<1>2. req[r] \in LoggingIn
  BY ContinuationByLabel DEF LoginIssue
<1>3. [state |-> "live", user |-> req[r].user, family |-> t, epoch |-> req[r].epoch] \in Row
  BY <1>2 DEF LoggingIn, Row
<1>4. Issued(t)' /\ NewLogin(r, t) /\ \A u \in Tokens : u # t => token'[u] = token[u]
  BY <1>1, <1>3, IssueKeeps DEF NewLogin
<1> QED BY <1>1, <1>2, <1>4 DEF Fresh, LoggingIn

LEMMA RotationIssues ==
  ASSUME TypeOK, NEW r \in Requests, RotateIssue(r)
  PROVE  /\ req[r].token \in Tokens /\ Issued(req[r].token)
         /\ \E t \in Tokens :
              /\ ~Issued(t) /\ Issued(t)' /\ NewRotation(r, t)
              /\ \A u \in Tokens : u # t => token'[u] = token[u]
<1> DEFINE old == token[req[r].token]
           row == [state |-> "live", user |-> old.user, family |-> old.family,
                   epoch |-> old.epoch]
<1>1. PICK t \in Tokens : Fresh(t) /\ token' = [token EXCEPT ![t] = row]
  BY DEF RotateIssue
<1>2. req[r].token \in Tokens /\ Issued(req[r].token)
  BY ContinuationByLabel DEF RotateIssue, Rotating, TypeOK
<1>3. row \in Row
  BY <1>2, IssuedIsRow DEF Row
<1>4. Issued(t)' /\ token'[t] = row /\ \A u \in Tokens : u # t => token'[u] = token[u]
  <2> HIDE DEF row
  <2> QED BY <1>1, <1>3, IssueKeeps
<1> QED BY <1>1, <1>2, <1>4 DEF Fresh, NewRotation

(* The first token of a family is there, and is its user's, from then on. *)
LEMMA FamiliesStep == TypeOK /\ FamiliesHold /\ [Next]_vars => FamiliesHold'
<1> SUFFICES ASSUME TypeOK, FamiliesHold, [Next]_vars, NEW t \in Tokens, Issued(t)'
             PROVE  /\ Issued(token[t].family)'
                    /\ token'[token'[t].family].user = token'[t].user
  BY DEF FamiliesHold
<1>1. ASSUME NEW s \in Tokens, Issued(s)
      PROVE  /\ token[s].family \in Tokens
             /\ Issued(token[s].family) /\ token[token[s].family].user = token[s].user
             /\ token'[token[s].family] # None
             /\ token'[token[s].family].user = token[s].user
  <2>1. /\ token[s].family \in Tokens
        /\ Issued(token[s].family) /\ token[token[s].family].user = token[s].user
    BY <1>1, IssuedIsRow DEF FamiliesHold
  <2> QED BY <2>1, ColumnsStay DEF Issued, SameColumns
<1>2. CASE Issued(t)
  BY <1>1, <1>2, ColumnsStay DEF Issued, SameColumns
<1>3. ASSUME ~Issued(t), NEW r \in Requests, LoginIssue(r)
      PROVE  /\ Issued(token[t].family)'
             /\ token'[token'[t].family].user = token'[t].user
  <2>1. NewLogin(r, t)
    BY <1>3, LoginIssues DEF Issued
  <2>2. token'[t].family = t /\ token'[t].user = req[r].user
    BY <2>1 DEF NewLogin
  <2> QED BY <2>2 DEF Issued
<1>4. ASSUME ~Issued(t), NEW r \in Requests, RotateIssue(r)
      PROVE  /\ Issued(token[t].family)'
             /\ token'[token'[t].family].user = token'[t].user
  <2>1. req[r].token \in Tokens /\ Issued(req[r].token)
    BY <1>4, RotationIssues
  <2>2. NewRotation(r, t)
    BY <1>4, RotationIssues DEF Issued
  <2>3. /\ token'[t].family = token[req[r].token].family
        /\ token'[t].user = token[req[r].token].user
    BY <2>2 DEF NewRotation
  <2>4. token'[token'[t].family] # None /\ token'[token'[t].family].user = token'[t].user
    BY <1>1, <2>1, <2>3
  <2> QED BY <2>4 DEF Issued
<1> QED BY <1>2, <1>3, <1>4, RowsKeptByTheRest DEF RowsKept

-----------------------------------------------------------------------------
(* A set with at most one element. *)
LEMMA AtMostOne ==
  ASSUME NEW S, IsFiniteSet(S)
  PROVE  Cardinality(S) <= 1 <=> \A a, b \in S : a = b
<1>1. ASSUME Cardinality(S) <= 1, NEW a \in S, NEW b \in S
      PROVE  a = b
  <2>1. Cardinality(S) \in Nat /\ Cardinality(S) # 0
    BY FS_CardinalityType, FS_EmptySet
  <2>2. Cardinality(S) = 1
    BY <1>1, <2>1
  <2> QED BY <2>2, FS_Singleton
<1>2. ASSUME \A a, b \in S : a = b
      PROVE  Cardinality(S) <= 1
  <2>1. CASE S = {}
    BY <2>1, FS_EmptySet
  <2>2. CASE \E a : S = {a}
    BY <2>2, FS_Singleton
  <2> QED BY <1>2, <2>1, <2>2
<1> QED BY <1>1, <1>2

(* What a step that leaves the sessions calm says of the requests: whoever     *)
(* was in flight was alone, whoever is in flight is, and no call failed.      *)
LEMMA CalmStep ==
  ASSUME CalmInv, HistoryNext, calm'
  PROVE  /\ calm /\ Calm
         /\ \A q, r \in Requests : ~IsIdle(q) /\ ~IsIdle(r) => q = r
         /\ \A q, r \in Requests : ~IsIdle(q)' /\ ~IsIdle(r)' => q = r
         /\ \A r \in Requests : ~Failed(r)
<1>1. calm /\ Cardinality(InFlight') <= 1 /\ \A r \in Requests : ~Failed(r)
  BY DEF HistoryNext
<1>2. Calm
  BY <1>1 DEF CalmInv
<1>3. IsFiniteSet(InFlight')
  BY RequestAssumption, FS_Subset DEF InFlight
<1>4. \A q, r \in InFlight' : q = r
  <2> DEFINE S == InFlight'
  <2>1. IsFiniteSet(S) /\ Cardinality(S) <= 1
    BY <1>1, <1>3
  <2> HIDE DEF S
  <2>2. \A q, r \in S : q = r
    BY <2>1, AtMostOne
  <2> QED BY <2>2 DEF S
<1> QED BY <1>1, <1>2, <1>4 DEF Calm, InFlight

(* A close that is written ends the live tokens of its user. *)
LEMMA ClosedIsNotLive ==
  ASSUME TypeOK, NEW r \in Requests, CloseSessions(r),
         NEW t \in Tokens, Issued(t), SameColumns(t), token[t].user = req[r].user
  PROVE  ~Live(t)'
<1>1. RevokeAll({s \in Tokens : Issued(s) /\ token[s].user = req[r].user})
  BY DEF CloseSessions
<1>2. token'[t] = IF Unrevoked(t) THEN [token[t] EXCEPT !.state = "revoked"] ELSE token[t]
  BY <1>1 DEF RevokeAll
<1>3. token[t] \in Row
  BY IssuedIsRow
<1>4. token'[t].state # "live"
  BY <1>2, <1>3 DEF Unrevoked, Row
<1> QED BY <1>4 DEF Live

(* A token that is live after a step and was not before is the one the step    *)
(* issues.                                                                  *)
BornOf(t) ==
  \E r \in Requests :
    /\ \/ LoginIssue(r) /\ NewLogin(r, t)
       \/ RotateIssue(r) /\ NewRotation(r, t)
    /\ ~Issued(t)
    /\ \A u \in Tokens : u # t => token'[u] = token[u]

LEMMA BroughtToLife ==
  ASSUME TypeOK, [Next]_vars, NEW t \in Tokens, Live(t)', ~Live(t)
  PROVE  BornOf(t)
<1>1. PICK r \in Requests : LoginIssue(r) \/ RotateIssue(r)
  BY RowsKeptByTheRest
<1>2. CASE LoginIssue(r)
  <2>1. PICK u \in Tokens : /\ ~Issued(u) /\ NewLogin(r, u)
                            /\ \A w \in Tokens : w # u => token'[w] = token[w]
    BY <1>2, LoginIssues
  <2>2. u = t
    BY <2>1 DEF Live, Issued
  <2> QED BY <1>2, <2>1, <2>2 DEF BornOf
<1>3. CASE RotateIssue(r)
  <2>1. PICK u \in Tokens : /\ ~Issued(u) /\ NewRotation(r, u)
                            /\ \A w \in Tokens : w # u => token'[w] = token[w]
    BY <1>3, RotationIssues
  <2>2. u = t
    BY <2>1 DEF Live, Issued
  <2> QED BY <1>3, <2>1, <2>2 DEF BornOf
<1> QED BY <1>1, <1>2, <1>3

(* A family still has one live token at most, and none when a rotation is      *)
(* about to issue the next one.                                              *)
LEMMA LiveOnceStep == CalmInv /\ HistoryNext /\ calm' => LiveOnce'
<1> SUFFICES ASSUME CalmInv, HistoryNext, calm' PROVE LiveOnce'
  OBVIOUS
<1>1. TypeOK /\ FamiliesHold /\ LiveOnce /\ [Next]_vars
  BY CalmStep DEF CalmInv, Calm, HistoryNext
<1>2. \A t \in Tokens : Issued(t) => Issued(t)' /\ SameColumns(t)
  BY <1>1, ColumnsStay
<1>3. \A t \in Tokens : Live(t)' /\ ~Live(t) => BornOf(t)
  BY <1>1, BroughtToLife
<1>4. ASSUME NEW t \in Tokens, NEW u \in Tokens, Live(t)', Live(u)',
             token'[t].family = token'[u].family, ~Live(t)
      PROVE  t = u
  <2>1. PICK r \in Requests :
          /\ \/ LoginIssue(r) /\ NewLogin(r, t)
             \/ RotateIssue(r) /\ NewRotation(r, t)
          /\ ~Issued(t)
          /\ \A w \in Tokens : w # t => token'[w] = token[w]
    BY <1>3, <1>4 DEF BornOf
  <2> SUFFICES ASSUME u # t PROVE FALSE
    OBVIOUS
  <2>2. token'[u] = token[u]
    BY <2>1
  <2>3. Live(u)
    BY <1>4, <2>2 DEF Live, Issued
  <2>4. CASE LoginIssue(r) /\ NewLogin(r, t)
    <3>1. token[u].family = t
      BY <1>4, <2>2, <2>4 DEF NewLogin
    <3> QED BY <1>1, <2>1, <2>3, <3>1 DEF FamiliesHold, Live
  <2>5. CASE RotateIssue(r) /\ NewRotation(r, t)
    <3>1. token[u].family = token[req[r].token].family
      BY <1>4, <2>2, <2>5 DEF NewRotation
    <3>2. req[r].pc = "issue"
      BY <2>5 DEF RotateIssue
    <3> QED BY <1>1, <2>3, <3>1, <3>2 DEF LiveOnce, Renewing
  <2> QED BY <2>1, <2>4, <2>5
<1>5. ASSUME NEW t \in Tokens, NEW u \in Tokens, Live(t)', Live(u)',
             token'[t].family = token'[u].family
      PROVE  t = u
  <2>1. CASE Live(t) /\ Live(u)
    <3>1. token[t].family = token[u].family
      BY <1>2, <1>5, <2>1 DEF Live, SameColumns
    <3> QED BY <1>1, <2>1, <3>1 DEF LiveOnce
  <2> QED BY <1>4, <1>5, <2>1
<1>6. ASSUME NEW r \in Requests, NEW t \in Tokens,
             Live(t)', Renewing(r, token[t].family)'
      PROVE  req'[r].pc = "revoke" /\ t = req'[r].token
  <2>1. CASE req'[r] = req[r]
    <3>1. req[r].pc \in {"revoke", "issue"}
      BY <1>6, <2>1 DEF Renewing
    <3>2. \A q \in Requests : ~LoginIssue(q) /\ ~RotateIssue(q)
      <4>1. ASSUME NEW q \in Requests, LoginIssue(q) \/ RotateIssue(q)
            PROVE  FALSE
        <5>1. q = r
          BY <3>1, <4>1, CalmStep DEF LoginIssue, RotateIssue, IsIdle
        <5>2. RotateIssue(r)
          BY <3>1, <4>1, <5>1 DEF LoginIssue
        <5>3. Goto(r, [pc |-> "check", user |-> token[req[r].token].user])
          BY <5>2 DEF RotateIssue
        <5>4. req'[r].pc = "check"
          BY <1>1, <5>3, GotoMovesOne
        <5> QED BY <2>1, <3>1, <5>4
      <4> QED BY <4>1
    <3>3. Live(t)
      BY <1>1, <1>6, <3>2, RowsKeptByTheRest
    <3>4. req[r].token \in Tokens /\ Issued(req[r].token)
      BY <1>1, <3>1, ContinuationByLabel DEF Rotating, TypeOK
    <3>5. Renewing(r, token[t].family)
      BY <1>2, <1>6, <2>1, <3>3, <3>4 DEF Renewing, Live, SameColumns
    <3> QED BY <1>1, <2>1, <3>3, <3>5 DEF LiveOnce
  <2>2. CASE req'[r] # req[r] /\ req'[r].pc = "revoke"
    <3>1. PICK s \in Tokens : s = req'[r].token /\ Live(s) /\ UNCHANGED token
      BY <1>1, <2>2, Arrivals
    <3>2. Live(s)'
      BY <3>1 DEF Live, Issued
    <3>3. token'[s].family = token'[t].family
      BY <1>6, <3>1 DEF Renewing
    <3> QED BY <1>5, <1>6, <2>2, <3>1, <3>2, <3>3
  <2>3. CASE req'[r] # req[r] /\ req'[r].pc = "issue"
    <3>1. RotateRevoke(r) /\ req'[r].token = req[r].token
      BY <1>1, <2>3, Arrivals
    <3>2. req[r].pc = "revoke" /\ token' = [token EXCEPT ![req[r].token].state = "revoked"]
      BY <3>1 DEF RotateRevoke
    <3>3. req[r].token \in Tokens /\ Issued(req[r].token) /\ token[req[r].token] \in Row
      BY <1>1, <3>2, ContinuationByLabel, IssuedIsRow DEF Rotating, TypeOK
    <3>4. token'[req[r].token].state = "revoked"
      BY <1>1, <3>2, <3>3 DEF TypeOK, Row
    <3>5. t # req[r].token
      BY <1>6, <3>4 DEF Live
    <3>6. Live(t) /\ token'[t].family = token[t].family
      BY <1>1, <1>6, <3>2, <3>5 DEF TypeOK, Live, Issued
    <3>7. Renewing(r, token[t].family)
      BY <1>2, <1>6, <3>1, <3>2, <3>3, <3>6 DEF Renewing, SameColumns
    <3> QED BY <1>1, <3>5, <3>6, <3>7 DEF LiveOnce
  <2> QED BY <1>6, <2>1, <2>2, <2>3 DEF Renewing
<1> QED BY <1>5, <1>6 DEF LiveOnce

(* An account whose epoch grows is kept, or its sessions begin to be closed;   *)
(* one that was kept stays so until they are closed.                         *)
LEMMA KeptStep ==
  ASSUME CalmInv, HistoryNext, calm', NEW u \in Users
  PROVE  /\ epoch'[u] # epoch[u] =>
              u \in kept' \/ \E r \in Requests : /\ IsIdle(r) /\ req'[r].pc = "close"
                                                 /\ req'[r].user = u
         /\ u \in kept =>
              u \in kept' \/ \E r \in Requests : /\ req[r].pc = "close" /\ req[r].user = u
                                                 /\ CloseSessions(r)
  BY DEF HistoryNext, CloseBegins, CloseEnds

(* While another request is in flight, before the step and after it, no        *)
(* closing begins or ends: what was current stays so.                        *)
LEMMA CurrentStays ==
  ASSUME CalmInv, HistoryNext, calm',
         NEW r \in Requests, req[r].pc # "close", ~IsIdle(r)', req'[r].pc # "close",
         ~IsIdle(r) \/ req'[r] # req[r],
         NEW u \in Users, NEW e, e = epoch[u] \/ u \in kept
  PROVE  e = epoch'[u] \/ u \in kept'
<1>1. TypeOK /\ [Next]_vars
  BY DEF CalmInv, HistoryNext
<1>2. ASSUME NEW q \in Requests, CloseSessions(q)
      PROVE  FALSE
  <2>1. req[q].pc = "close" /\ Goto(q, Idle)
    BY <1>2 DEF CloseSessions
  <2>2. q # r
    BY <2>1
  <2>3. req'[r] = req[r]
    BY <1>1, <2>1, <2>2, GotoMovesOne
  <2> QED BY <2>1, <2>2, <2>3, CalmStep DEF IsIdle
<1>3. ASSUME NEW q \in Requests, req'[q].pc = "close"
      PROVE  FALSE
  <2>1. ~IsIdle(q)'
    BY <1>3 DEF IsIdle
  <2>2. q = r
    BY <2>1, CalmStep
  <2> QED BY <1>3, <2>2
<1> QED BY <1>2, <1>3, KeptStep

(* A close in flight goes on, or is written. *)
LEMMA ClosingGoesOn ==
  ASSUME CalmInv, HistoryNext, calm', NEW r \in Requests, req[r].pc = "close"
  PROVE  req'[r] = req[r] \/ CloseSessions(r)
<1>1. TypeOK /\ [Next]_vars
  BY DEF CalmInv, HistoryNext
<1>2. ASSUME Fail(r)
      PROVE  CloseSessions(r)
  BY <1>2, CalmStep DEF Failed, RotateGone, RefreshCheck, RevokeFamily
<1> QED BY <1>1, <1>2, Departures

(* What is about to be issued, and what is live, is still current. *)
LEMMA SessionsCurrentStep == CalmInv /\ HistoryNext /\ calm' => SessionsCurrent'
<1> SUFFICES ASSUME CalmInv, HistoryNext, calm' PROVE SessionsCurrent'
  OBVIOUS
<1>1. TypeOK /\ SessionsCurrent /\ [Next]_vars
  BY CalmStep DEF CalmInv, Calm, HistoryNext
<1>2. \A t \in Tokens : Issued(t) => Issued(t)' /\ SameColumns(t) /\ token[t].user \in Users
  BY <1>1, ColumnsStay, IssuedIsRow
<1>3. ASSUME NEW r \in Requests, req'[r].pc = "login"
      PROVE  req'[r].epoch = epoch'[req'[r].user] \/ req'[r].user \in kept'
  <2>1. TypeOK'
    BY <1>1, TokensTyped, ContinuationsTyped, AccountsTyped DEF TypeOK
  <2>2. PICK u \in Users : u = req'[r].user
    BY <1>3, <2>1 DEF TypeOK, Continuations, Idle, LoggingIn, Rotating, Checking,
                      Closing, Punishing
  <2>3. CASE req'[r] = req[r]
    <3>1. req[r].epoch = epoch[u] \/ u \in kept
      BY <1>1, <1>3, <2>2, <2>3 DEF SessionsCurrent
    <3> QED BY <1>3, <2>2, <2>3, <3>1, CurrentStays DEF IsIdle
  <2>4. CASE req'[r] # req[r]
    <3>1. IsIdle(r) /\ req'[r].epoch = epoch[u]
      BY <1>1, <1>3, <2>2, <2>4, Arrivals
    <3> QED BY <1>3, <2>2, <2>4, <3>1, CurrentStays DEF IsIdle
  <2> QED BY <2>3, <2>4
<1>4. ASSUME NEW r \in Requests, NEW t \in Tokens, Issued(t), Current(t),
             req[r].pc # "close", req'[r].pc \notin {"idle", "close"},
             ~IsIdle(r) \/ req'[r] # req[r]
      PROVE  Current(t)'
  <2>1. token[t].epoch = epoch'[token[t].user] \/ token[t].user \in kept'
    BY <1>2, <1>4, CurrentStays DEF IsIdle, Current
  <2> QED BY <1>2, <1>4, <2>1 DEF Current, SameColumns
<1>5. ASSUME NEW r \in Requests, req'[r].pc \in {"revoke", "issue"},
             NEW t \in Tokens, t = req'[r].token
      PROVE  Current(t)'
  <2>1. CASE req'[r] = req[r]
    <3>1. Issued(t) /\ Current(t)
      BY <1>1, <1>5, <2>1 DEF SessionsCurrent, TypeOK
    <3> QED BY <1>4, <1>5, <2>1, <3>1 DEF IsIdle
  <2>2. CASE req'[r] # req[r] /\ req'[r].pc = "revoke"
    <3>1. IsIdle(r) /\ Live(t)
      BY <1>1, <1>5, <2>2, Arrivals
    <3>2. ASSUME NEW q \in Requests, req[q].pc = "close"
          PROVE  FALSE
      <4>1. q # r
        BY <3>1, <3>2 DEF IsIdle
      <4>2. Step(r)
        BY <1>1, <2>2, MoverSteps
      <4>3. req'[q] = req[q]
        BY <1>1, <4>1, <4>2, StepMovesOne
      <4> QED BY <2>2, <3>2, <4>1, <4>3, CalmStep DEF IsIdle
    <3>3. Current(t)
      BY <1>1, <3>1, <3>2 DEF SessionsCurrent, ClosingSessionsOf
    <3> QED BY <1>4, <1>5, <2>2, <3>1, <3>3 DEF IsIdle, Live
  <2>3. CASE req'[r] # req[r] /\ req'[r].pc = "issue"
    <3>1. req[r].pc = "revoke" /\ t = req[r].token
      BY <1>1, <1>5, <2>3, Arrivals DEF RotateRevoke
    <3>2. Issued(t) /\ Current(t)
      BY <1>1, <3>1 DEF SessionsCurrent, TypeOK
    <3> QED BY <1>4, <1>5, <2>3, <3>1, <3>2
  <2> QED BY <1>5, <2>1, <2>2, <2>3
<1>6. ASSUME NEW t \in Tokens, Live(t)', Live(t)
      PROVE  Current(t)' \/ ClosingSessionsOf(token[t].user)'
  <2> DEFINE u == token[t].user
  <2>1. /\ Issued(t) /\ SameColumns(t) /\ u \in Users
        /\ token'[t].user = u /\ token'[t].epoch = token[t].epoch
    BY <1>2, <1>6 DEF Live, SameColumns
  <2>2. ASSUME NEW r \in Requests, CloseSessions(r), req[r].user = u
        PROVE  FALSE
    BY <1>1, <1>6, <2>1, <2>2, ClosedIsNotLive
  <2>3. CASE ClosingSessionsOf(u)
    <3>1. PICK r \in Requests : req[r].pc = "close" /\ req[r].user = u
      BY <2>3 DEF ClosingSessionsOf
    <3>2. req'[r] = req[r]
      BY <2>2, <3>1, ClosingGoesOn
    <3> QED BY <2>1, <3>1, <3>2 DEF ClosingSessionsOf
  <2>4. CASE Current(t)
    <3>1. \/ token[t].epoch = epoch'[u]
          \/ u \in kept'
          \/ \E r \in Requests : req'[r].pc = "close" /\ req'[r].user = u
      BY <2>1, <2>2, <2>4, KeptStep DEF Current
    <3> QED BY <2>1, <3>1 DEF Current, ClosingSessionsOf
  <2> QED BY <1>1, <1>6, <2>3, <2>4 DEF SessionsCurrent
<1>7. ASSUME NEW t \in Tokens, Live(t)', ~Live(t)
      PROVE  Current(t)'
  <2>1. PICK r \in Requests : \/ LoginIssue(r) /\ NewLogin(r, t)
                              \/ RotateIssue(r) /\ NewRotation(r, t)
    BY <1>1, <1>7, BroughtToLife DEF BornOf
  <2>2. UNCHANGED epoch
    BY <2>1 DEF LoginIssue, RotateIssue
  <2>3. \A v \in Users : v \in kept => v \in kept'
    <3>1. ~IsIdle(r) /\ req[r].pc # "close"
      BY <2>1 DEF LoginIssue, RotateIssue, IsIdle
    <3>2. \A q \in Requests : req[q].pc # "close"
      BY <3>1, CalmStep DEF IsIdle
    <3> QED BY <3>2, KeptStep
  <2>4. CASE LoginIssue(r) /\ NewLogin(r, t)
    <3>1. req[r].pc = "login" /\ req[r].user \in Users
      BY <1>1, <2>4, LoginIssues DEF LoginIssue
    <3>2. token'[t].user = req[r].user /\ token'[t].epoch = req[r].epoch
      BY <2>4 DEF NewLogin
    <3> QED BY <1>1, <2>2, <2>3, <3>1, <3>2 DEF SessionsCurrent, Current
  <2>5. CASE RotateIssue(r) /\ NewRotation(r, t)
    <3>1. req[r].pc = "issue" /\ req[r].token \in Tokens /\ Issued(req[r].token)
      BY <1>1, <2>5, RotationIssues DEF RotateIssue
    <3>2. /\ token'[t].user = token[req[r].token].user
          /\ token'[t].epoch = token[req[r].token].epoch
      BY <2>5 DEF NewRotation
    <3>3. Current(req[r].token)
      BY <1>1, <3>1 DEF SessionsCurrent
    <3> QED BY <1>2, <2>2, <2>3, <3>1, <3>2, <3>3 DEF Current
  <2> QED BY <2>1, <2>4, <2>5
<1>8. ASSUME NEW r \in Requests, req'[r].pc \in {"revoke", "issue"}
      PROVE  Current(req[r].token)'
  <2>1. TypeOK'
    BY <1>1, TokensTyped, ContinuationsTyped, AccountsTyped DEF TypeOK
  <2>2. PICK t \in Tokens : t = req'[r].token
    BY <1>8, <2>1 DEF TypeOK, Continuations, Idle, LoggingIn, Rotating, Checking,
                      Closing, Punishing
  <2>3. Current(t)'
    BY <1>5, <1>8, <2>2
  <2> QED BY <2>2, <2>3 DEF Current
<1>9. ASSUME NEW t \in Tokens, Live(t)'
      PROVE  Current(t)' \/ ClosingSessionsOf(token[t].user)'
  BY <1>6, <1>7, <1>9
<1> QED BY <1>3, <1>8, <1>9 DEF SessionsCurrent

(* The tokens a step adds to a family: the one that a rotation of the family   *)
(* issues, or none.                                                         *)
Added(f) == {t \in Tokens : ~Issued(t) /\ Issued(t)' /\ token'[t].family = f}

LEMMA AddedByRotation ==
  ASSUME TypeOK, [Next]_vars, NEW f \in Tokens, Issued(f), Added(f) # {}
  PROVE  /\ Cardinality(Added(f)) = 1
         /\ \E r \in Requests :
              RotateIssue(r) /\ req[r].token \in Tokens /\ Issued(req[r].token)
                /\ token[req[r].token].family = f
<1>1. PICK r \in Requests : LoginIssue(r) \/ RotateIssue(r)
  BY RowsKeptByTheRest DEF RowsKept, Added
<1>2. CASE LoginIssue(r)
  <2>1. PICK u \in Tokens : /\ ~Issued(u) /\ NewLogin(r, u)
                            /\ \A w \in Tokens : w # u => token'[w] = token[w]
    BY <1>2, LoginIssues
  <2>2. token'[u].family # f
    BY <2>1 DEF NewLogin
  <2> QED BY <2>1, <2>2 DEF Added, Issued
<1>3. CASE RotateIssue(r)
  <2>1. req[r].token \in Tokens /\ Issued(req[r].token)
    BY <1>3, RotationIssues
  <2>2. PICK u \in Tokens : /\ ~Issued(u) /\ Issued(u)' /\ NewRotation(r, u)
                            /\ \A w \in Tokens : w # u => token'[w] = token[w]
    BY <1>3, RotationIssues
  <2>3. token'[u].family = token[req[r].token].family
    BY <2>2 DEF NewRotation
  <2>4. \A w \in Added(f) : w = u
    BY <2>2 DEF Added, Issued
  <2>5. token'[u].family = f /\ Added(f) = {u}
    BY <2>2, <2>4 DEF Added
  <2> QED BY <1>3, <2>1, <2>3, <2>5, FS_Singleton
<1> QED BY <1>1, <1>2, <1>3

(* A family renewed while its user is inactive is renewed once: the refresh    *)
(* that did it finds the account inactive and closes its sessions.           *)
LEMMA RenewalsEndStep == CalmInv /\ HistoryNext /\ calm' => RenewalsEnd'
<1> SUFFICES ASSUME CalmInv, HistoryNext, calm', NEW f \in Tokens, renewals'[f] # 0
             PROVE  renewals'[f] = 1 /\ Ending(f)'
  BY DEF RenewalsEnd
<1>1. TypeOK /\ FamiliesHold /\ RenewalsEnd /\ [Next]_vars
  BY CalmStep DEF CalmInv, Calm, HistoryNext
<1>2. \A t \in Tokens : Issued(t) => Issued(t)' /\ SameColumns(t) /\ token[t].user \in Users
  BY <1>1, ColumnsStay, IssuedIsRow
<1>3. /\ Issued(f) /\ ~active'[token[f].user]
      /\ renewals'[f] = renewals[f] + Cardinality(Added(f))
  BY DEF HistoryNext, Added
<1> DEFINE u == token[f].user
<1>4. Issued(f)' /\ token'[f].user = u /\ u \in Users /\ ~active'[token'[f].user]
  BY <1>2, <1>3 DEF SameColumns
<1>5. CASE Added(f) # {}
  <2>1. PICK r \in Requests :
          RotateIssue(r) /\ req[r].token \in Tokens /\ Issued(req[r].token)
            /\ token[req[r].token].family = f
    BY <1>1, <1>3, <1>5, AddedByRotation
  <2>2. Renewing(r, f)
    BY <2>1 DEF RotateIssue, Renewing
  <2>3. renewals[f] = 0
    BY <1>1, <2>2 DEF RenewalsEnd, Ending
  <2>4. renewals'[f] = 1
    BY <1>1, <1>3, <1>5, <2>3, AddedByRotation
  <2>5. Goto(r, [pc |-> "check", user |-> token[req[r].token].user])
    BY <2>1 DEF RotateIssue
  <2>6. req'[r].pc = "check" /\ req'[r].user = u
    BY <1>1, <2>1, <2>5, GotoMovesOne DEF FamiliesHold
  <2>7. ASSUME NEW q \in Requests, Renewing(q, f)'
        PROVE  FALSE
    <3>1. q = r
      BY <2>6, <2>7, CalmStep DEF IsIdle, Renewing
    <3> QED BY <2>6, <2>7, <3>1 DEF Renewing
  <2> QED BY <1>4, <2>4, <2>6, <2>7 DEF Ending
<1>6. CASE Added(f) = {}
  <2>1. renewals'[f] = 1 /\ Ending(f)
    BY <1>1, <1>3, <1>6, FS_EmptySet DEF RenewalsEnd
  <2>2. ASSUME NEW r \in Requests, req'[r].pc \in {"revoke", "issue"},
               NEW s \in Tokens, s = req'[r].token, token'[s].family = f
        PROVE  FALSE
    <3>1. CASE req'[r] = req[r]
      <4>1. Issued(s)
        BY <1>1, <2>2, <3>1 DEF TypeOK
      <4>2. Renewing(r, f)
        BY <1>2, <2>2, <3>1, <4>1 DEF Renewing, SameColumns
      <4> QED BY <2>1, <4>2 DEF Ending
    <3>2. CASE req'[r] # req[r] /\ req'[r].pc = "revoke"
      <4>1. IsIdle(r) /\ Live(s) /\ UNCHANGED token
        BY <1>1, <2>2, <3>2, Arrivals
      <4>2. PICK q \in Requests : req[q].pc \in {"check", "close"}
        BY <2>1, <2>2, <4>1 DEF Ending
      <4>3. q # r
        BY <4>1, <4>2 DEF IsIdle
      <4>4. Step(r)
        BY <1>1, <3>2, MoverSteps
      <4>5. req'[q] = req[q]
        BY <1>1, <4>3, <4>4, StepMovesOne
      <4> QED BY <2>2, <4>2, <4>3, <4>5, CalmStep DEF IsIdle
    <3>3. CASE req'[r] # req[r] /\ req'[r].pc = "issue"
      <4>1. req[r].pc = "revoke" /\ s = req[r].token
        BY <1>1, <2>2, <3>3, Arrivals DEF RotateRevoke
      <4>2. Issued(s)
        BY <1>1, <4>1 DEF TypeOK
      <4>3. Renewing(r, f)
        BY <1>2, <2>2, <4>1, <4>2 DEF Renewing, SameColumns
      <4> QED BY <2>1, <4>3 DEF Ending
    <3> QED BY <2>2, <3>1, <3>2, <3>3
  <2>3. \A r \in Requests : ~Renewing(r, f)'
    <3>1. TypeOK'
      BY <1>1, TokensTyped, ContinuationsTyped, AccountsTyped DEF TypeOK
    <3>2. \A r \in Requests : req'[r].pc \in {"revoke", "issue"} => req'[r].token \in Tokens
      BY <3>1 DEF TypeOK, Continuations, Idle, LoggingIn, Rotating, Checking,
                  Closing, Punishing
    <3> QED BY <2>2, <3>2 DEF Renewing
  <2>4. ASSUME NEW t \in Tokens, Live(t)', token'[t].family = f
        PROVE  Live(t) /\ Issued(t) /\ SameColumns(t) /\ token[t].family = f
    <3>1. Issued(t)
      BY <1>6, <2>4 DEF Added, Live
    <3>2. Live(t)
      BY <1>1, <2>4, <3>1, BroughtToLife DEF BornOf
    <3> QED BY <1>2, <2>4, <3>1, <3>2 DEF SameColumns
  <2>5. CASE \A t \in Tokens : Live(t) => token[t].family # f
    BY <1>4, <2>1, <2>3, <2>4, <2>5 DEF Ending
  <2>6. ASSUME NEW q \in Requests, req[q].pc \in {"check", "close"}, req[q].user = u
        PROVE  \/ req'[q].pc \in {"check", "close"} /\ req'[q].user = u
               \/ \A t \in Tokens : Live(t)' => token'[t].family # f
    <3>1. CASE req'[q] = req[q]
      BY <2>6, <3>1
    <3>2. CASE req'[q] # req[q] /\ req[q].pc = "check"
      <4>1. RefreshCheck(q)
        BY <1>1, <3>2, Departures, CalmStep DEF Failed, RotateGone, CloseSessions, RevokeFamily
      <4>2. ~active[u]
        BY <1>3, <4>1 DEF RefreshCheck
      <4>3. Goto(q, [pc |-> "close", user |-> u])
        BY <2>6, <4>1, <4>2 DEF RefreshCheck
      <4> QED BY <1>1, <4>3, GotoMovesOne
    <3>3. CASE req'[q] # req[q] /\ req[q].pc = "close"
      <4>1. CloseSessions(q)
        BY <3>3, ClosingGoesOn
      <4>2. ASSUME NEW t \in Tokens, Live(t)', token'[t].family = f
            PROVE  FALSE
        <5>1. Issued(t) /\ SameColumns(t) /\ token[t].user = u
          BY <1>1, <2>4, <4>2 DEF FamiliesHold
        <5> QED BY <1>1, <2>6, <4>1, <4>2, <5>1, ClosedIsNotLive
      <4> QED BY <4>2
    <3> QED BY <2>6, <3>1, <3>2, <3>3
  <2> QED BY <1>4, <2>1, <2>3, <2>5, <2>6 DEF Ending
<1> QED BY <1>5, <1>6

(* No step leaves the inductive invariant of the calm sessions. *)
LEMMA CalmInvariant == HistorySpec => []CalmInv
<1>1. HistoryInit => CalmInv
  <2> SUFFICES ASSUME HistoryInit PROVE CalmInv
    OBVIOUS
  <2>1. TypeOK
    BY LinkedAssumption, BoundAssumption
       DEF HistoryInit, Init, TypeOK, Continuations, Idle, Epochs
  <2>2. \A t \in Tokens : ~Issued(t)
    BY DEF HistoryInit, Init, Issued
  <2>3. \A r \in Requests : req[r].pc = "idle"
    BY DEF HistoryInit, Init, Idle
  <2>4. LiveOnce /\ SessionsCurrent
    BY <2>2, <2>3 DEF LiveOnce, SessionsCurrent, Live, Renewing
  <2>5. RenewalsEnd
    BY DEF HistoryInit, RenewalsEnd
  <2>6. \A q, r \in InFlight : q = r
    BY <2>3 DEF InFlight, IsIdle
  <2> QED BY <2>1, <2>2, <2>4, <2>5, <2>6 DEF CalmInv, Calm, FamiliesHold
<1>2. CalmInv /\ [HistoryNext]_historyVars => CalmInv'
  <2> SUFFICES ASSUME CalmInv, [HistoryNext]_historyVars PROVE CalmInv'
    OBVIOUS
  <2>1. CASE UNCHANGED historyVars
    BY <2>1
       DEF historyVars, CalmInv, TypeOK, FamiliesHold, Calm, InFlight, LiveOnce,
           SessionsCurrent, RenewalsEnd, Ending, Current, ClosingSessionsOf, Issued,
           Live, Renewing, IsIdle
  <2>2. CASE HistoryNext
    <3>1. TypeOK /\ FamiliesHold /\ [Next]_vars
      BY <2>2 DEF CalmInv, HistoryNext
    <3>2. TypeOK' /\ FamiliesHold'
      BY <3>1, TokensTyped, ContinuationsTyped, AccountsTyped, FamiliesStep DEF TypeOK
    <3>3. ASSUME calm'
          PROVE  Calm'
      <4>1. \A q, r \in InFlight' : q = r
        BY <2>2, <3>3, CalmStep DEF InFlight
      <4> QED BY <2>2, <3>3, <4>1, LiveOnceStep, SessionsCurrentStep, RenewalsEndStep DEF Calm
    <3> QED BY <3>2, <3>3 DEF CalmInv
  <2> QED BY <2>1, <2>2
<1> QED BY <1>1, <1>2, PTL DEF HistorySpec

(* While requests come one at a time and no call fails, a family has one live  *)
(* token at most: a rotation leaves exactly the token it issues.             *)
THEOREM OneLiveWhileCalm == HistorySpec => []OneLivePerFamilyWhileCalm
<1>1. CalmInv => OneLivePerFamilyWhileCalm
  <2> SUFFICES ASSUME CalmInv, calm, NEW f \in Tokens
               PROVE  Cardinality({t \in Family(f) : Live(t)}) <= 1
    BY DEF OneLivePerFamilyWhileCalm, OneLivePerFamily
  <2> DEFINE S == {t \in Family(f) : Live(t)}
  <2>1. \A t, u \in S : t = u
    BY DEF CalmInv, Calm, LiveOnce, Family
  <2>2. IsFiniteSet(S)
    <3>1. IsFiniteSet(Tokens)
      BY BoundAssumption, FS_Interval DEF Tokens
    <3>2. S \subseteq Tokens
      BY DEF Family
    <3> QED BY <3>1, <3>2, FS_Subset
  <2> HIDE DEF S
  <2>3. Cardinality(S) <= 1
    BY <2>1, <2>2, AtMostOne
  <2> QED BY <2>3 DEF S
<1> QED BY <1>1, CalmInvariant, PTL

(* While requests come one at a time and no call fails, the sessions of a      *)
(* deactivated user, or of one with a new password, are revoked or about to   *)
(* be, unless the operation is one that closes none.                         *)
THEOREM ClosedWhileCalm == HistorySpec => []ClosedSessionsWhileCalm
<1>1. CalmInv => ClosedSessionsWhileCalm
  BY DEF CalmInv, Calm, SessionsCurrent, ClosedSessionsWhileCalm, Current, ClosingSessionsOf
<1> QED BY <1>1, CalmInvariant, PTL

(* While requests come one at a time and no call fails, a session that outlives *)
(* the deactivation of its user is renewed once at most.                     *)
THEOREM RenewedOnceWhileInactive == HistorySpec => []InactiveRenewsOnce
<1>1. CalmInv => InactiveRenewsOnce
  BY DEF CalmInv, Calm, RenewalsEnd, InactiveRenewsOnce
<1> QED BY <1>1, CalmInvariant, PTL

(* Watching the sessions changes nothing of what they do. *)
THEOREM TokenHistoryWatches == HistorySpec => Spec
<1>1. HistoryInit => Init
  BY DEF HistoryInit
<1>2. [HistoryNext]_historyVars => [Next]_vars
  BY DEF HistoryNext, historyVars, vars
<1> QED BY <1>1, <1>2, PTL DEF HistorySpec, Spec

=============================================================================
