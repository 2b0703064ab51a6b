---------------------------- MODULE RequestAccess ----------------------------
(***************************************************************************)
(* A request on its way to a handler, and a socket on its way into the     *)
(* room of an evaluation, while roles, accounts, profiles and their        *)
(* evaluators change.  The guards run one after the other and read the     *)
(* database one call at a time: JwtAuthGuard the account,                  *)
(* AssessmentPermissionGuard the account again and the roles,              *)
(* AssessmentScopeGuard the roles and the evaluator of the resource; some  *)
(* handlers read the roles once more.                                      *)
(*                                                                         *)
(* The organisation is among the claims of the token: what does not carry  *)
(* it is refused by the first guard, and by the gateway, and is left out.  *)
(* A resource that hangs from a profile is named by its profile.           *)
(***************************************************************************)
EXTENDS AccessRoutes

CONSTANTS
  Requests,     \* requests in flight at once
  Users,
  Supers,       \* users whose token says superadmin
  Profiles

VARIABLES
  live,         \* roles of each user
  active,       \* users whose account is active
  evaluator,    \* the evaluator of each profile
  gone,         \* profiles that are deleted, or not created yet
  room,         \* sockets in the room of the evaluation of a profile
  req,          \* continuation of each request
  seen          \* history: what held of a request's user at some moment since it came

vars == <<live, active, evaluator, gone, room, req, seen>>
database == <<live, active, evaluator, gone>>

Codes == {"assessment_admin", "assessment_evaluator"}

ASSUME AccessAssumption ==
  /\ Supers \subseteq Users
  /\ None \notin Users \union Profiles
  /\ None \notin {"read", "write", "delete", "admin", "profile", "evaluation", "risk",
                  "mitigation-measure", "indicator-measure"}

-----------------------------------------------------------------------------
Idle == [pc |-> "idle"]
At(r, pc) == req[r].pc = pc
To(r, pc) == req' = [req EXCEPT ![r].pc = pc]
Refuse(r) == req' = [req EXCEPT ![r] = Idle]
Read == UNCHANGED <<live, active, evaluator, gone, room>>
Who(r) == req[r].user

(* What a socket asks when it joins is what AssessmentScopeGuard asks.        *)
Join == Scoped(None, "evaluation", "room")

Works == {"profile", "edition", "deletion"}

Init ==
  /\ live \in [Users -> {{}, {"assessment_evaluator"}, {"assessment_admin"}}]
  /\ active = Users
  /\ evaluator \in [Profiles -> Users \union {None}]
  /\ gone = {}
  /\ room = {}
  /\ req = [r \in Requests |-> Idle]
  /\ seen = [r \in Requests |-> {}]

(* The guards a route has, in their order; then its handler.                  *)
AfterAccount(route) ==
  IF route.action # None THEN "user" ELSE "handler"
AfterPermission(route) ==
  IF route.scope # None THEN "scope" ELSE "handler"

Arrive(r, u, route, p) ==
  /\ At(r, "idle")
  /\ route.auth # "public"
  /\ req' = [req EXCEPT ![r] =
       [pc |-> IF route = Join THEN "scope" ELSE "account", user |-> u, route |-> route,
        p |-> p, own |-> FALSE]]
  /\ Read

(* JwtAuthGuard: the account is active; a superadmin's route asks for one.    *)
JwtAccount(r) ==
  /\ At(r, "account")
  /\ IF \/ Who(r) \notin active
        \/ req[r].route.auth = "superadmin" /\ Who(r) \notin Supers
     THEN Refuse(r) ELSE To(r, AfterAccount(req[r].route))
  /\ Read

(* AssessmentPermissionGuard: the account again, then the roles. *)
PermissionUser(r) ==
  /\ At(r, "user")
  /\ IF Who(r) \notin active THEN Refuse(r) ELSE To(r, "roles")
  /\ Read

(* Mutant: any role grants any action. *)
CanPerformActionAny(u, action) == u \in Supers \/ live[u] # {}

(* canPerformAction: a role grants the action, or the module's admin. *)
CanPerformAction(u, action) ==
  \/ u \in Supers
  \/ \E c \in live[u] : {action, "admin"} \cap Granted(c) # {}

PermissionRoles(r) ==
  /\ At(r, "roles")
  /\ IF ~CanPerformAction(Who(r), req[r].route.action) THEN Refuse(r)
     ELSE To(r, AfterPermission(req[r].route))
  /\ Read

(* resolveProfileScope: an administrator reaches every profile, anybody else  *)
(* those he evaluates.                                                       *)
OwnOnly(u) == u \notin Supers /\ "assessment_admin" \notin live[u]

(* AssessmentScopeGuard and the gateway: the scope, then the evaluator of the *)
(* resource.  Only a profile asked for by its own id must not be deleted.     *)
ScopeRoles(r) ==
  /\ At(r, "scope")
  /\ req' = [req EXCEPT ![r].pc = IF OwnOnly(Who(r)) THEN "owner" ELSE "handler",
                        ![r].own = OwnOnly(Who(r))]
  /\ Read

EvaluatorOf(scope, p) ==
  IF scope = "profile" /\ p \in gone THEN None ELSE evaluator[p]

ScopeOwner(r) ==
  /\ At(r, "owner")
  /\ IF EvaluatorOf(req[r].route.scope, req[r].p) # Who(r) THEN Refuse(r) ELSE To(r, "handler")
  /\ Read

(* The handlers that list, create and edit profiles resolve the scope for     *)
(* themselves.                                                               *)
HandlerScope(r) ==
  /\ At(r, "handler")
  /\ IF req[r].route.on \in {"listing", "creation", "edition"} /\ req[r].route.auth = "token"
     THEN req' = [req EXCEPT ![r].pc = "run", ![r].own = OwnOnly(Who(r))]
     ELSE To(r, "run")
  /\ Read

-----------------------------------------------------------------------------
(* A handler over people gives or takes roles, opens or closes an account: a  *)
(* write of the chains of MemberRoles.  Those that follow are of Others.      *)
WritePeople(r) ==
  /\ At(r, "run") /\ req[r].route.on = "people"
  /\ \E u \in Users :
       \/ /\ \E roles \in SUBSET Codes : live' = [live EXCEPT ![u] = roles]
          /\ UNCHANGED active
       \/ /\ active' \in {active \union {u}, active \ {u}}
          /\ UNCHANGED live
  /\ Refuse(r)
  /\ UNCHANGED <<evaluator, gone, room>>

(* create: an evaluator gets what he creates; the upsert writes the evaluator *)
(* over a row that is there.                                                 *)
CreateOwned(r, e) ==
  /\ At(r, "run") /\ req[r].route.on = "creation"
  /\ evaluator' = [evaluator EXCEPT ![req[r].p] = IF req[r].own THEN Who(r) ELSE e]
  /\ gone' = gone \ {req[r].p}
  /\ Refuse(r)
  /\ UNCHANGED <<live, active, room>>

(* Mutant: an evaluator may bring an evaluator. *)
EditAny(r, e) ==
  /\ At(r, "run") /\ req[r].route.on = "edition"
  /\ req[r].p \notin gone
  /\ evaluator' = [evaluator EXCEPT ![req[r].p] = e]
  /\ Refuse(r)
  /\ UNCHANGED <<live, active, gone, room>>

(* update: a live profile; an evaluator may not bring an evaluator.           *)
Edit(r, e) ==
  /\ At(r, "run") /\ req[r].route.on = "edition"
  /\ req[r].p \notin gone
  /\ ~req[r].own
  /\ evaluator' = [evaluator EXCEPT ![req[r].p] = e]
  /\ Refuse(r)
  /\ UNCHANGED <<live, active, gone, room>>

Delete(r) ==
  /\ At(r, "run") /\ req[r].route.on = "deletion"
  /\ gone' = gone \union {req[r].p}
  /\ Refuse(r)
  /\ UNCHANGED <<live, active, evaluator, room>>

Enter(r) ==
  /\ At(r, "run") /\ req[r].route.on = "room"
  /\ room' = room \union {<<Who(r), req[r].p>>}
  /\ Refuse(r)
  /\ UNCHANGED database

(* The handler of any route answers, having written nothing of the above.     *)
Answer(r) == At(r, "run") /\ Refuse(r) /\ Read

(* leave, or the connection is closed. *)
Leave(u, p) ==
  /\ <<u, p>> \in room
  /\ room' = room \ {<<u, p>>}
  /\ UNCHANGED <<live, active, evaluator, gone, req>>

(* Requests that are not followed one by one write too. *)
Others ==
  /\ \/ /\ \E u \in Users, roles \in SUBSET Codes : live' = [live EXCEPT ![u] = roles]
        /\ UNCHANGED <<active, evaluator, gone>>
     \/ /\ \E u \in Users : active' \in {active \union {u}, active \ {u}}
        /\ UNCHANGED <<live, evaluator, gone>>
     \/ /\ \E p \in Profiles, e \in Users \union {None} : evaluator' = [evaluator EXCEPT ![p] = e]
        /\ UNCHANGED <<live, active, gone>>
     \/ /\ \E p \in Profiles : gone' \in {gone \union {p}, gone \ {p}}
        /\ UNCHANGED <<live, active, evaluator>>
  /\ UNCHANGED <<room, req>>

-----------------------------------------------------------------------------
(* What may be true of u, and of u and p, at one moment.                      *)
Facts(u, p) ==
  {f \in {"active", "admin", "role", "assigned"} :
     \/ f = "active" /\ u \in active
     \/ f = "admin" /\ (u \in Supers \/ "assessment_admin" \in live[u])
     \/ f = "role" /\ (u \in Supers \/ live[u] # {})
     \/ f = "assigned" /\ evaluator[p] = u}

Watch ==
  seen' = [r \in Requests |->
    IF Idle \in {req[r], req'[r]} THEN {} ELSE seen[r] \union Facts(Who(r), req[r].p)]

Handle(r) ==
  \/ JwtAccount(r) \/ PermissionUser(r) \/ PermissionRoles(r)
  \/ ScopeRoles(r) \/ ScopeOwner(r) \/ HandlerScope(r)
  \/ WritePeople(r) \/ Delete(r) \/ Enter(r) \/ Answer(r)
  \/ \E e \in Users \union {None} : CreateOwned(r, e) \/ Edit(r, e)

Next ==
  /\ \/ \E r \in Requests : Handle(r)
     \/ \E r \in Requests, u \in Users, route \in Routes \union {Join}, p \in Profiles :
          Arrive(r, u, route, p)
     \/ \E u \in Users, p \in Profiles : Leave(u, p)
     \/ Others
  /\ Watch

Spec == Init /\ [][Next]_vars

-----------------------------------------------------------------------------
Continuations ==
  {Idle} \union
  [pc : {"account", "user", "roles", "scope", "owner", "handler", "run"}, user : Users,
   route : Routes \union {Join}, p : Profiles, own : BOOLEAN]

TypeOK ==
  /\ live \in [Users -> SUBSET Codes]
  /\ active \subseteq Users
  /\ evaluator \in [Profiles -> Users \union {None}]
  /\ gone \subseteq Profiles
  /\ room \subseteq Users \X Profiles
  /\ req \in [Requests -> Continuations]
  /\ seen \in [Requests -> SUBSET {"active", "admin", "role", "assigned"}]

(* However rights change on the way, a handler runs for somebody whose        *)
(* account was active, and who held a role that grants the action, at some    *)
(* moment since the request came; only an administrator's role deletes or     *)
(* administers.                                                              *)
HandlersHadRights ==
  \A r \in Requests : At(r, "run") /\ req[r].route # Join =>
    LET route == req[r].route IN
    /\ "active" \in seen[r]
    /\ route.auth = "superadmin" => Who(r) \in Supers
    /\ route.action \in {"read", "write"} => "role" \in seen[r]
    /\ route.action \in {"delete", "admin"} => "admin" \in seen[r]

(* "un evaluador solo llega a las que tiene asignadas": no handler works on   *)
(* an evaluated organisation, and no socket enters the room of one of its     *)
(* evaluations, for somebody who neither administered nor evaluated it at     *)
(* any moment since he asked.                                                *)
OthersOutOfReach ==
  \A r \in Requests : At(r, "run") /\ req[r].route.on \in Works \union {"room"} =>
    {"admin", "assigned"} \cap seen[r] # {}

(* "Elegir el evaluador responsable es del administrador": roles, accounts    *)
(* and evaluators are changed by requests of somebody who was administrator   *)
(* on the way, but for the evaluator of a profile the request creates.        *)
RightsFromAdministrators ==
  [][\A r \in Requests : req'[r] # req[r] =>
       /\ <<live, active>>' # <<live, active>> => "admin" \in seen[r]
       /\ evaluator' # evaluator => "admin" \in seen[r] \/ req[r].route.on = "creation"]_vars

=============================================================================
