----------------------------- MODULE TokenHistory -----------------------------
(***************************************************************************)
(* RefreshTokens with history variables, for the properties that hold of   *)
(* the sessions as long as requests come one at a time and no call fails:  *)
(*                                                                         *)
(*   - calm: no two requests were ever in flight at once and no database   *)
(*     call was rejected;                                                  *)
(*   - kept: the users whose password was replaced, or whose account was   *)
(*     made active, by an operation that closes no session, and that had   *)
(*     no session closed since;                                            *)
(*   - renewals: the tokens issued in a family by rotations since its user *)
(*     was deactivated.                                                    *)
(***************************************************************************)
EXTENDS RefreshTokens

VARIABLES calm, kept, renewals

historyVars == <<token, active, linked, epoch, req, calm, kept, renewals>>

InFlight == {r \in Requests : ~IsIdle(r)}

(* A close of u's sessions begins or is written in this step. *)
CloseBegins(u) ==
  \E r \in Requests : IsIdle(r) /\ req'[r].pc = "close" /\ req'[r].user = u
CloseEnds(u) ==
  \E r \in Requests : req[r].pc = "close" /\ req[r].user = u /\ CloseSessions(r)

(* The step of r can only be a rejected call. *)
Failed(r) ==
  /\ Fail(r)
  /\ ~RotateGone(r) /\ ~RefreshCheck(r) /\ ~CloseSessions(r) /\ ~RevokeFamily(r)

HistoryInit ==
  /\ Init
  /\ calm = TRUE
  /\ kept = {}
  /\ renewals = [f \in Tokens |-> 0]

HistoryNext ==
  /\ Next
  /\ calm' = (calm /\ Cardinality(InFlight') <= 1 /\ ~\E r \in Requests : Failed(r))
  /\ kept' = {u \in Users :
       /\ calm'
       /\ \/ epoch'[u] # epoch[u] /\ ~CloseBegins(u)
          \/ u \in kept /\ ~CloseEnds(u)}
  /\ renewals' = [f \in Tokens |->
       IF ~calm' \/ ~Issued(f) \/ active'[token[f].user] THEN 0
       ELSE renewals[f] +
            Cardinality({t \in Tokens : ~Issued(t) /\ Issued(t)' /\ token'[t].family = f})]

HistorySpec == HistoryInit /\ [][HistoryNext]_historyVars

-----------------------------------------------------------------------------
(* "cada uso emite uno nuevo y revoca el anterior": while requests come one   *)
(* at a time a family has one live token at most.                            *)
OneLivePerFamilyWhileCalm == calm => OneLivePerFamily

(* "Un usuario desactivado o con contrasena cambiada pierde sus sesiones":    *)
(* while requests come one at a time, a live token older than the last        *)
(* password or deactivation of its user is about to be revoked, unless the    *)
(* password was set from another organisation (createMember, attachAdmin),    *)
(* which closes no session.                                                  *)
ClosedSessionsWhileCalm ==
  calm => \A t \in Tokens : Live(t) =>
    \/ token[t].epoch = epoch[token[t].user]
    \/ \E r \in Requests : req[r].pc = "close" /\ req[r].user = token[t].user
    \/ token[t].user \in kept

(* OAuth lets a linked user in without looking at isActive, and a login that  *)
(* was already checked survives a deactivation.  Such a session ends at its   *)
(* first refresh: a family is renewed at most once while its user is          *)
(* deactivated.                                                              *)
InactiveRenewsOnce == calm => \A f \in Tokens : renewals[f] <= 1

=============================================================================
