---------------------------- MODULE RefreshTokens ----------------------------
(***************************************************************************)
(* The sessions of the users: refresh tokens that are rotated on every     *)
(* use, grouped in families that descend from one login, and the           *)
(* administrator's operations that must end the sessions of a user.        *)
(*                                                                         *)
(* A token is its row; a family is named by its first token.  An epoch     *)
(* counts the times a user lost the right to the sessions it had           *)
(* (deactivation or a new password); a token records the epoch of the      *)
(* login it descends from, a history variable that no step reads.          *)
(* Rows are purged by the nightly AuditRetentionService.                   *)
(***************************************************************************)
EXTENDS Naturals, FiniteSets

CONSTANTS
  Requests,     \* requests the server may have in flight at once
  Users,
  Linked,       \* users linked to the OAuth provider from the start
  Foreign,      \* users that another organisation may add as members
  MaxTokens,    \* bound on the tokens ever issued
  MaxEpoch,     \* bound on the closings of a user's sessions
  Failures,     \* whether a database call may be rejected
  None          \* no row

ASSUME RequestAssumption == IsFiniteSet(Requests)
ASSUME LinkedAssumption == Linked \subseteq Users
ASSUME ForeignAssumption == Foreign \subseteq Users
ASSUME BoundAssumption == MaxTokens \in Nat /\ MaxEpoch \in Nat
ASSUME FailureAssumption == Failures \in BOOLEAN

VARIABLES
  token,    \* the row of each token
  active,   \* isActive of each user
  linked,   \* users with an OAuth identity
  epoch,    \* closings of each user's sessions so far
  req       \* continuation of each request

vars == <<token, active, linked, epoch, req>>

-----------------------------------------------------------------------------
Tokens == 1 .. MaxTokens
Epochs == 0 .. MaxEpoch
Row == [state : {"live", "expired", "revoked", "purged"}, user : Users,
        family : Tokens, epoch : Epochs]

ASSUME NoneAssumption == None \notin Row

Issued(t) == token[t] # None
Live(t) == Issued(t) /\ token[t].state = "live"
Unrevoked(t) == Issued(t) /\ token[t].state \in {"live", "expired"}
Family(f) == {t \in Tokens : Issued(t) /\ token[t].family = f}
Fresh(t) == ~Issued(t) /\ \A u \in Tokens : u < t => Issued(u)

Idle == [pc |-> "idle"]
LoggingIn == [pc : {"login"}, user : Users, epoch : Epochs]
Rotating  == [pc : {"revoke", "issue"}, token : Tokens]
Checking  == [pc : {"check"}, user : Users]
Closing   == [pc : {"close"}, user : Users]
Punishing == [pc : {"family"}, token : Tokens]
Continuations ==
  {Idle} \union LoggingIn \union Rotating \union Checking \union Closing
         \union Punishing

IsIdle(r) == req[r].pc = "idle"
Goto(r, k) == req' = [req EXCEPT ![r] = k]

(* updateMany ... revokedAt: null -> now, on the rows of S. *)
RevokeAll(S) ==
  token' = [t \in Tokens |-> IF t \in S /\ Unrevoked(t)
                             THEN [token[t] EXCEPT !.state = "revoked"]
                             ELSE token[t]]

(* Bound: a request that will issue a token starts only while there is one     *)
(* left for it.                                                             *)
Room ==
  Cardinality({t \in Tokens : ~Issued(t)})
    > Cardinality({r \in Requests : req[r].pc \in {"login", "revoke", "issue"}})

-----------------------------------------------------------------------------
Init ==
  /\ token = [t \in Tokens |-> None]
  /\ active = [u \in Users |-> TRUE]
  /\ linked = Linked
  /\ epoch = [u \in Users |-> 0]
  /\ req = [r \in Requests |-> Idle]

(* loginWithPassword: the account is read and must be active ... *)
PasswordLogin(r, u) ==
  /\ IsIdle(r)
  /\ active[u]
  /\ Room
  /\ Goto(r, [pc |-> "login", user |-> u, epoch |-> epoch[u]])
  /\ UNCHANGED <<token, active, linked, epoch>>

(* loginWithOAuth: an account already linked is taken as it is; isActive is   *)
(* only looked at when the account is found by email, which links it.        *)
OAuthLogin(r, u) ==
  /\ IsIdle(r)
  /\ u \in linked \/ active[u]
  /\ Room
  /\ linked' = linked \union {u}
  /\ Goto(r, [pc |-> "login", user |-> u, epoch |-> epoch[u]])
  /\ UNCHANGED <<token, active, epoch>>

(* ... and, after comparing and signing, issue() starts a family. *)
LoginIssue(r) ==
  /\ req[r].pc = "login"
  /\ \E t \in Tokens :
       /\ Fresh(t)
       /\ token' = [token EXCEPT ![t] =
            [state |-> "live", user |-> req[r].user, family |-> t,
             epoch |-> req[r].epoch]]
  /\ Goto(r, Idle)
  /\ UNCHANGED <<active, linked, epoch>>

RotateReadRevoked(r, t) ==
  /\ IsIdle(r)
  /\ Issued(t) /\ token[t].state \in {"live", "revoked"}
  /\ Room
  /\ Goto(r, [pc |-> "revoke", token |-> t])
  /\ UNCHANGED <<token, active, linked, epoch>>

(* rotate: the token presented is looked up. *)
RotateRead(r, t) ==
  /\ IsIdle(r)
  /\ Live(t)
  /\ Room
  /\ Goto(r, [pc |-> "revoke", token |-> t])
  /\ UNCHANGED <<token, active, linked, epoch>>

(* An expired or unknown token is refused (401) and changes nothing. *)
RotateRefused(r, t) ==
  /\ IsIdle(r)
  /\ Issued(t) /\ token[t].state \in {"expired", "purged"}
  /\ UNCHANGED vars

(* A token already rotated: its family is to be revoked. *)
ReuseRead(r, t) ==
  /\ IsIdle(r)
  /\ Issued(t) /\ token[t].state = "revoked"
  /\ Goto(r, [pc |-> "family", token |-> t])
  /\ UNCHANGED <<token, active, linked, epoch>>

RevokeFamily(r) ==
  /\ req[r].pc = "family"
  /\ RevokeAll(Family(token[req[r].token].family))
  /\ Goto(r, Idle)
  /\ UNCHANGED <<active, linked, epoch>>

(* Mutant: the token that was used stays valid. *)
RotateKeep(r) ==
  /\ req[r].pc = "revoke"
  /\ Goto(r, [pc |-> "issue", token |-> req[r].token])
  /\ UNCHANGED <<token, active, linked, epoch>>

(* The update is unconditional; a row purged meanwhile rejects it. *)
RotateRevoke(r) ==
  /\ req[r].pc = "revoke"
  /\ token[req[r].token].state # "purged"
  /\ token' = [token EXCEPT ![req[r].token].state = "revoked"]
  /\ Goto(r, [pc |-> "issue", token |-> req[r].token])
  /\ UNCHANGED <<active, linked, epoch>>

RotateGone(r) ==
  /\ req[r].pc = "revoke"
  /\ token[req[r].token].state = "purged"
  /\ Goto(r, Idle)
  /\ UNCHANGED <<token, active, linked, epoch>>

(* issue() in the family of the token that was read. *)
RotateIssue(r) ==
  /\ req[r].pc = "issue"
  /\ LET old == token[req[r].token]
     IN  /\ \E t \in Tokens :
              /\ Fresh(t)
              /\ token' = [token EXCEPT ![t] =
                   [state |-> "live", user |-> old.user, family |-> old.family,
                    epoch |-> old.epoch]]
         /\ Goto(r, [pc |-> "check", user |-> old.user])
  /\ UNCHANGED <<active, linked, epoch>>

(* Mutant: the account is not looked at again. *)
RefreshUnchecked(r) ==
  /\ req[r].pc = "check"
  /\ Goto(r, Idle)
  /\ UNCHANGED <<token, active, linked, epoch>>

(* refresh: the account is read after the rotation. *)
RefreshCheck(r) ==
  /\ req[r].pc = "check"
  /\ Goto(r, IF active[req[r].user] THEN Idle
             ELSE [pc |-> "close", user |-> req[r].user])
  /\ UNCHANGED <<token, active, linked, epoch>>

(* Mutant: the first session is closed (update for updateMany). *)
CloseOneSession(r) ==
  /\ req[r].pc = "close"
  /\ LET open == {t \in Tokens : Unrevoked(t) /\ token[t].user = req[r].user}
     IN  RevokeAll({t \in open : \A s \in open : t <= s})
  /\ Goto(r, Idle)
  /\ UNCHANGED <<active, linked, epoch>>

(* revokeAllForUser: the end of a refresh of an inactive account, of          *)
(* updateMember when it closes the sessions, and of removeMember.            *)
CloseSessions(r) ==
  /\ req[r].pc = "close"
  /\ RevokeAll({t \in Tokens : Issued(t) /\ token[t].user = req[r].user})
  /\ Goto(r, Idle)
  /\ UNCHANGED <<active, linked, epoch>>

(* updateMember with a password, or with isActive = false: the account is     *)
(* written, its sessions are closed by a later call.                        *)
NewPassword(r, u) ==
  /\ IsIdle(r)
  /\ epoch[u] < MaxEpoch
  /\ epoch' = [epoch EXCEPT ![u] = @ + 1]
  /\ Goto(r, [pc |-> "close", user |-> u])
  /\ UNCHANGED <<token, active, linked>>

Deactivate(r, u) ==
  /\ IsIdle(r)
  /\ epoch[u] < MaxEpoch
  /\ active' = [active EXCEPT ![u] = FALSE]
  /\ epoch' = [epoch EXCEPT ![u] = @ + 1]
  /\ Goto(r, [pc |-> "close", user |-> u])
  /\ UNCHANGED <<token, linked>>

Reactivate(u) ==
  /\ ~active[u]
  /\ active' = [active EXCEPT ![u] = TRUE]
  /\ UNCHANGED <<token, linked, epoch, req>>

(* removeMember closes the sessions too, and leaves the account as it is. *)
RemoveMember(r, u) ==
  /\ IsIdle(r)
  /\ Goto(r, [pc |-> "close", user |-> u])
  /\ UNCHANGED <<token, active, linked, epoch>>

(* createMember with the email of a user of another organisation and a        *)
(* password: the account is made active with the new password.               *)
AdoptMember(u) ==
  /\ u \in Foreign
  /\ epoch[u] < MaxEpoch
  /\ active' = [active EXCEPT ![u] = TRUE]
  /\ epoch' = [epoch EXCEPT ![u] = @ + 1]
  /\ UNCHANGED <<token, linked, req>>

(* attachAdmin of a new organisation, with the email of an existing user and  *)
(* a password: the password is replaced.                                     *)
AttachAdmin(u) ==
  /\ u \in Foreign
  /\ epoch[u] < MaxEpoch
  /\ epoch' = [epoch EXCEPT ![u] = @ + 1]
  /\ UNCHANGED <<token, active, linked, req>>

(* logout *)
Logout(t) ==
  /\ Unrevoked(t)
  /\ RevokeAll({t})
  /\ UNCHANGED <<active, linked, epoch, req>>

(* Seven days pass. *)
Expire(t) ==
  /\ Live(t)
  /\ token' = [token EXCEPT ![t].state = "expired"]
  /\ UNCHANGED <<active, linked, epoch, req>>

(* AuditRetentionService.purge (and purgeExpired, which has no caller):       *)
(* expired rows, and rows revoked thirty days ago.                           *)
Purge(t) ==
  /\ Issued(t) /\ token[t].state \in {"expired", "revoked"}
  /\ token' = [token EXCEPT ![t].state = "purged"]
  /\ UNCHANGED <<active, linked, epoch, req>>

Fail(r) ==
  /\ Failures
  /\ ~IsIdle(r)
  /\ Goto(r, Idle)
  /\ UNCHANGED <<token, active, linked, epoch>>

Next ==
  \/ \E r \in Requests :
       \/ \E u \in Users : PasswordLogin(r, u) \/ OAuthLogin(r, u)
       \/ LoginIssue(r)
       \/ \E t \in Tokens : RotateRead(r, t) \/ RotateRefused(r, t) \/ ReuseRead(r, t)
       \/ RevokeFamily(r)
       \/ RotateRevoke(r) \/ RotateGone(r) \/ RotateIssue(r) \/ RefreshCheck(r)
       \/ \E u \in Users : NewPassword(r, u) \/ Deactivate(r, u) \/ RemoveMember(r, u)
       \/ CloseSessions(r)
       \/ Fail(r)
  \/ \E u \in Users : Reactivate(u) \/ AdoptMember(u) \/ AttachAdmin(u)
  \/ \E t \in Tokens : Logout(t) \/ Expire(t) \/ Purge(t)

Spec == Init /\ [][Next]_vars

-----------------------------------------------------------------------------
(* Properties.                                                              *)

(* Rows and continuations have their types, and a rotation in flight refers   *)
(* to an issued token.                                                      *)
TypeOK ==
  /\ token \in [Tokens -> Row \union {None}]
  /\ active \in [Users -> BOOLEAN]
  /\ linked \subseteq Users
  /\ epoch \in [Users -> Epochs]
  /\ req \in [Requests -> Continuations]
  /\ \A r \in Requests :
       req[r].pc \in {"revoke", "issue", "family"} => Issued(req[r].token)

(* The request may still issue a token in family f. *)
Renewing(r, f) ==
  req[r].pc \in {"revoke", "issue"} /\ token[req[r].token].family = f

Dead(f) ==
  /\ Issued(f)
  /\ \A t \in Family(f) : ~Live(t)
  /\ \A r \in Requests : ~Renewing(r, f)

(* "se revoca toda la familia y la sesion legitima tambien cae": a family     *)
(* without a live token nor a rotation in flight never gets one again, so a   *)
(* revoked family only revives through rotations that were already past the   *)
(* check when it was revoked.                                               *)
DeadFamilyStaysDead == [][\A f \in Tokens : Dead(f) => Dead(f)']_vars

(* "cada uso emite uno nuevo y revoca el anterior": a family has one live      *)
(* token at most.                                                           *)
OneLivePerFamily == \A f \in Tokens : Cardinality({t \in Family(f) : Live(t)}) <= 1

(* "Un usuario desactivado o con contrasena cambiada pierde sus sesiones":    *)
(* every live token descends from a login made after the last closing, but    *)
(* for the moment before the sessions are closed.                           *)
ClosedSessionsStayClosed ==
  \A t \in Tokens : Live(t) =>
    \/ token[t].epoch = epoch[token[t].user]
    \/ \E r \in Requests : req[r].pc = "close" /\ req[r].user = token[t].user

=============================================================================
