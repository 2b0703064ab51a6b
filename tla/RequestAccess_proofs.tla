------------------------- MODULE RequestAccess_proofs -------------------------
(***************************************************************************)
(* For any number of requests in flight: no handler runs without the       *)
(* rights its route declares, no handler over an evaluated organisation    *)
(* runs for somebody who does not reach it, and only an administrator      *)
(* hands out rights.                                                       *)
(*                                                                         *)
(* The argument: a guard that lets a request pass has read a fact at that  *)
(* moment, and a fact once seen stays seen.  The inductive invariant says  *)
(* what must have been seen by the time the request is past each guard;    *)
(* what the decorators of the routes declare says that the guards a route  *)
(* has are enough.                                                         *)
(***************************************************************************)
EXTENDS RequestAccess, TLAPS

(* What the decorators of a route must have for its guards to be enough.     *)
WellDeclared(route) ==
  /\ route.action = None => route.scope = None
  /\ route.on \in Works \union {"room"} => route.scope # None
  /\ route.on = "people" => route.auth = "superadmin" \/ route.action = "admin"
  /\ route.on = "edition" => route.auth = "token"

(* Every route of the API is declared so.                                     *)
LEMMA ProfilesDeclared ==
  \A route \in DeclaredBy(ProfileRoutes) \union DeclaredBy(ApplicabilityRoutes)
               \union DeclaredBy(DashboardRoutes) \union DeclaredBy(AnalyticsRoutes) :
    WellDeclared(route)
BY AccessAssumption
DEF DeclaredBy, ProfileRoutes, ApplicabilityRoutes, DashboardRoutes, AnalyticsRoutes,
    WellDeclared, Works, Route, Asks, Scoped

LEMMA PeopleDeclared ==
  \A route \in DeclaredBy(RoleRoutes) \union DeclaredBy(UserRoutes)
               \union DeclaredBy(ActivityRoutes) \union DeclaredBy(OrganisationRoutes)
               \union DeclaredBy(AuthRoutes) :
    WellDeclared(route)
BY AccessAssumption
DEF DeclaredBy, RoleRoutes, UserRoutes, ActivityRoutes, OrganisationRoutes, AuthRoutes,
    WellDeclared, Works, Route, Asks, Scoped

LEMMA RiskDeclared ==
  \A route \in DeclaredBy(RiskStructureRoutes) \union DeclaredBy(RiskEvaluationRoutes)
               \union DeclaredBy(RiskPlanRoutes) \union DeclaredBy(RiskAssistantRoutes) :
    WellDeclared(route)
BY AccessAssumption
DEF DeclaredBy, RiskStructureRoutes, RiskEvaluationRoutes, RiskPlanRoutes, RiskAssistantRoutes,
    WellDeclared, Works, Route, Asks, Scoped

LEMMA ToolsDeclared ==
  \A route \in DeclaredBy(ToolStructureRoutes) \union DeclaredBy(ToolEvaluationRoutes)
               \union DeclaredBy(ToolAssistantRoutes) :
    WellDeclared(route)
BY AccessAssumption
DEF DeclaredBy, ToolStructureRoutes, ToolEvaluationRoutes, ToolAssistantRoutes,
    WellDeclared, Works, Route, Asks, Scoped

LEMMA RoutesWellDeclared == \A route \in Routes : WellDeclared(route)
BY ProfilesDeclared, PeopleDeclared, RiskDeclared, ToolsDeclared DEF Routes

(* Whoever joins a room asks for the scope of an evaluation, and that alone.  *)
LEMMA JoinScoped == Join.scope = "evaluation" /\ Join.on = "room" /\ Join.scope # None
BY AccessAssumption DEF Join, Scoped, Route

-----------------------------------------------------------------------------
(* The inductive invariant: what has been seen of a request past a guard.     *)
PastAccount == {"user", "roles", "scope", "owner", "handler", "run"}
PastRoles   == {"scope", "owner", "handler", "run"}
PastScope   == {"handler", "run"}

(* A socket passes the scope only. *)
OnlyScoped(r) == req[r].pc \in {"account", "user", "roles"} => req[r].route # Join

AccountSeen(r) ==
  req[r].pc \in PastAccount /\ req[r].route # Join =>
    /\ "active" \in seen[r]
    /\ req[r].route.auth = "superadmin" => Who(r) \in Supers /\ "admin" \in seen[r]

RoleSeen(r) ==
  req[r].pc \in PastRoles /\ req[r].route # Join =>
    /\ req[r].route.action \in {"read", "write"} => "role" \in seen[r]
    /\ req[r].route.action \in {"delete", "admin"} => "admin" \in seen[r]

ReachSeen(r) ==
  req[r].pc \in PastScope /\ req[r].route.scope # None => {"admin", "assigned"} \cap seen[r] # {}

OwnDecided(r) ==
  req[r].pc = "run" /\ req[r].route.on = "edition" /\ ~req[r].own => "admin" \in seen[r]

Checked(r) ==
  OnlyScoped(r) /\ AccountSeen(r) /\ RoleSeen(r) /\ ReachSeen(r) /\ OwnDecided(r)

IInv == TypeOK /\ \A r \in Requests : Checked(r)

(* A request in flight is a record of its own. *)
InFlight == Continuations \ {Idle}

LEMMA InFlightFields ==
  ASSUME NEW c \in Continuations, c.pc # "idle"
  PROVE  /\ c \in InFlight
         /\ c.pc \in {"account"} \union PastAccount
         /\ c.user \in Users
         /\ c.route \in Routes \union {Join}
         /\ c.p \in Profiles
         /\ c.own \in BOOLEAN
BY DEF Continuations, InFlight, Idle, PastAccount

(* A request that goes on, with another pc and perhaps another answer to      *)
(* "only his own", stays the request it was.                                 *)
Onward(c, pc, own) == [c EXCEPT !.pc = pc, !.own = own]

LEMMA GoesOn ==
  ASSUME NEW c \in Continuations, c.pc # "idle",
         NEW pc \in {"account"} \union PastAccount, NEW own \in BOOLEAN
  PROVE  /\ Onward(c, pc, own) \in Continuations
         /\ Onward(c, pc, own) # Idle
         /\ Onward(c, pc, own).pc = pc
         /\ Onward(c, pc, own).own = own
         /\ Onward(c, pc, own).user = c.user
         /\ Onward(c, pc, own).route = c.route
         /\ Onward(c, pc, own).p = c.p
<1>1. c \in [pc : {"account", "user", "roles", "scope", "owner", "handler", "run"}, user : Users,
             route : Routes \union {Join}, p : Profiles, own : BOOLEAN]
  BY DEF Continuations, Idle
<1>2. Onward(c, pc, own).pc # Idle.pc
  BY <1>1 DEF Idle, PastAccount, Onward
<1> QED
  BY <1>1, <1>2 DEF Continuations, PastAccount, Onward

(* r goes on to pc, having answered own. *)
MovesTo(r, pc, own) ==
  /\ req' \in [Requests -> Continuations]
  /\ req'[r] # Idle
  /\ req'[r].pc = pc /\ req'[r].own = own
  /\ req'[r].user = req[r].user /\ req'[r].route = req[r].route /\ req'[r].p = req[r].p
  /\ \A s \in Requests \ {r} : req'[s] = req[s]

LEMMA Decides ==
  ASSUME TypeOK, NEW r \in Requests, req[r].pc # "idle",
         NEW pc \in {"account"} \union PastAccount, NEW own \in BOOLEAN,
         req' = [req EXCEPT ![r].pc = pc, ![r].own = own]
  PROVE  MovesTo(r, pc, own)
<1> DEFINE d == Onward(req[r], pc, own)
<1>1. req[r] \in Continuations /\ req \in [Requests -> Continuations]
  BY DEF TypeOK
<1>2. req' = [req EXCEPT ![r] = d]
  BY <1>1 DEF Onward
<1>3. /\ d \in Continuations /\ d # Idle /\ d.pc = pc /\ d.own = own
      /\ d.user = req[r].user /\ d.route = req[r].route /\ d.p = req[r].p
  BY <1>1, GoesOn
<1> HIDE DEF d
<1> QED
  BY <1>1, <1>2, <1>3 DEF MovesTo

LEMMA Advances ==
  ASSUME TypeOK, NEW r \in Requests, req[r].pc # "idle",
         NEW pc \in {"account"} \union PastAccount, To(r, pc)
  PROVE  MovesTo(r, pc, req[r].own)
<1> DEFINE d == Onward(req[r], pc, req[r].own)
<1>1. req[r] \in Continuations /\ req \in [Requests -> Continuations]
  BY DEF TypeOK
<1>2. req[r].own \in BOOLEAN
  BY <1>1, InFlightFields
<1>3. /\ d \in Continuations /\ d # Idle /\ d.pc = pc /\ d.own = req[r].own
      /\ d.user = req[r].user /\ d.route = req[r].route /\ d.p = req[r].p
  BY <1>1, <1>2, GoesOn
<1>4. req[r] \in [pc : {"account", "user", "roles", "scope", "owner", "handler", "run"},
                  user : Users, route : Routes \union {Join}, p : Profiles, own : BOOLEAN]
  BY <1>1 DEF Continuations, Idle
<1>5. [req[r] EXCEPT !.pc = pc] = d
  BY <1>4 DEF Onward
<1>6. req' = [req EXCEPT ![r] = d]
  BY <1>1, <1>5 DEF To
<1> HIDE DEF d
<1> QED
  BY <1>1, <1>3, <1>6 DEF MovesTo

(* What was seen stays seen, and what holds now is seen. *)
LEMMA SeenGrows ==
  ASSUME TypeOK, NEW r \in Requests, Watch, req[r] # Idle, req'[r] # Idle
  PROVE  seen'[r] = seen[r] \union Facts(Who(r), req[r].p)
BY DEF Watch, TypeOK

LEMMA SeenType ==
  ASSUME TypeOK, Watch
  PROVE  seen' \in [Requests -> SUBSET {"active", "admin", "role", "assigned"}]
BY DEF TypeOK, Watch, Facts

LEMMA IdleChecked ==
  ASSUME NEW r \in Requests, req'[r] = Idle
  PROVE  Checked(r)'
BY DEF Checked, OnlyScoped, AccountSeen, RoleSeen, ReachSeen, OwnDecided, Idle,
       PastAccount, PastRoles, PastScope

(* A step of something else does not undo what has been checked.              *)
LEMMA WaitingChecked ==
  ASSUME TypeOK, NEW r \in Requests, Watch, req'[r] = req[r], Checked(r)
  PROVE  Checked(r)'
<1>1. CASE req[r] = Idle
  BY <1>1, IdleChecked
<1>2. CASE req[r] # Idle
  <2>1. seen'[r] = seen[r] \union Facts(Who(r), req[r].p)
    BY <1>2, SeenGrows
  <2> QED
    BY <2>1 DEF Checked, OnlyScoped, AccountSeen, RoleSeen, ReachSeen, OwnDecided, Who
<1> QED
  BY <1>1, <1>2

(* A request that ends, or is refused, with whatever its handler wrote.       *)
LEMMA EndedChecked ==
  ASSUME IInv, NEW r \in Requests, Refuse(r), Watch
  PROVE  req' \in [Requests -> Continuations] /\ \A s \in Requests : Checked(s)'
<1>1. /\ req' \in [Requests -> Continuations] /\ req'[r] = Idle
      /\ \A s \in Requests \ {r} : req'[s] = req[s]
  BY DEF IInv, TypeOK, Refuse, Continuations
<1> QED
  BY <1>1, IdleChecked, WaitingChecked DEF IInv

-----------------------------------------------------------------------------
(* The invariant of the requests, without the type of the database. *)
RequestsChecked ==
  req' \in [Requests -> Continuations] /\ \A s \in Requests : Checked(s)'

LEMMA MovedChecked ==
  ASSUME IInv, Watch, NEW r \in Requests, NEW pc, NEW own, MovesTo(r, pc, own), Checked(r)'
  PROVE  RequestsChecked
BY WaitingChecked DEF IInv, MovesTo, RequestsChecked

(* JwtAuthGuard has seen the account active. *)
LEMMA JwtAccountChecked ==
  ASSUME IInv, Watch, NEW r \in Requests, JwtAccount(r)
  PROVE  RequestsChecked
<1>1. CASE Refuse(r)
  BY <1>1, EndedChecked DEF RequestsChecked
<1>2. CASE ~Refuse(r)
  <2> DEFINE route == req[r].route
             pc    == AfterAccount(route)
  <2>1. /\ req[r].pc = "account" /\ TypeOK /\ Checked(r)
        /\ Who(r) \in active
        /\ route.auth = "superadmin" => Who(r) \in Supers
        /\ To(r, pc)
    BY <1>2 DEF JwtAccount, At, IInv
  <2>2. pc \in {"user", "handler"}
    BY DEF AfterAccount
  <2>3. MovesTo(r, pc, req[r].own)
    BY <2>1, <2>2, Advances DEF PastAccount
  <2>4. req[r] # Idle /\ req'[r] # Idle
    BY <2>1, <2>3 DEF MovesTo, Idle
  <2>5. seen'[r] = seen[r] \union Facts(Who(r), req[r].p)
    BY <2>1, <2>4, SeenGrows
  <2>6. "active" \in seen'[r] /\ (route.auth = "superadmin" => "admin" \in seen'[r])
    BY <2>1, <2>5 DEF Facts
  <2>7. route # Join /\ route \in Routes
    BY <2>1, InFlightFields DEF Checked, OnlyScoped, TypeOK
  <2>8. pc = "handler" => route.action = None /\ route.scope = None
    BY <2>7, RoutesWellDeclared DEF AfterAccount, WellDeclared
  <2>9. Checked(r)'
    BY <2>1, <2>2, <2>3, <2>6, <2>7, <2>8, AccessAssumption
    DEF Checked, OnlyScoped, AccountSeen, RoleSeen, ReachSeen, OwnDecided, MovesTo, Who,
        PastAccount, PastRoles, PastScope
  <2> QED
    BY <2>3, <2>9, MovedChecked
<1> QED
  BY <1>1, <1>2

(* AssessmentPermissionGuard reads the account once more. *)
LEMMA PermissionUserChecked ==
  ASSUME IInv, Watch, NEW r \in Requests, PermissionUser(r)
  PROVE  RequestsChecked
<1>1. CASE Refuse(r)
  BY <1>1, EndedChecked DEF RequestsChecked
<1>2. CASE ~Refuse(r)
  <2>1. req[r].pc = "user" /\ TypeOK /\ Checked(r) /\ To(r, "roles")
    BY <1>2 DEF PermissionUser, At, IInv
  <2>2. MovesTo(r, "roles", req[r].own)
    BY <2>1, Advances DEF PastAccount
  <2>3. req[r] # Idle /\ req'[r] # Idle
    BY <2>1, <2>2 DEF MovesTo, Idle
  <2>4. seen[r] \subseteq seen'[r]
    BY <2>1, <2>3, SeenGrows
  <2>5. Checked(r)'
    BY <2>1, <2>2, <2>4
    DEF Checked, OnlyScoped, AccountSeen, RoleSeen, ReachSeen, OwnDecided, MovesTo, Who,
        PastAccount, PastRoles, PastScope
  <2> QED
    BY <2>2, <2>5, MovedChecked
<1> QED
  BY <1>1, <1>2

(* Whom canPerformAction lets act has a role; who deletes or administers has  *)
(* the administrator's.                                                      *)
LEMMA ActionNeedsRole ==
  ASSUME TypeOK, NEW u \in Users, NEW p \in Profiles, NEW action, CanPerformAction(u, action)
  PROVE  /\ "role" \in Facts(u, p)
         /\ action \in {"delete", "admin"} => "admin" \in Facts(u, p)
<1>1. CASE u \in Supers
  BY <1>1 DEF Facts
<1>2. CASE u \notin Supers
  <2>1. PICK c \in live[u] : {action, "admin"} \cap Granted(c) # {}
    BY <1>2 DEF CanPerformAction
  <2>2. c \in Codes
    BY <2>1 DEF TypeOK
  <2>3. "role" \in Facts(u, p)
    BY <2>1 DEF Facts
  <2>4. action \in {"delete", "admin"} => c = "assessment_admin"
    BY <2>1, <2>2 DEF Granted, Codes
  <2> QED
    BY <2>1, <2>3, <2>4 DEF Facts
<1> QED
  BY <1>1, <1>2

LEMMA PermissionRolesChecked ==
  ASSUME IInv, Watch, NEW r \in Requests, PermissionRoles(r)
  PROVE  RequestsChecked
<1>1. CASE Refuse(r)
  BY <1>1, EndedChecked DEF RequestsChecked
<1>2. CASE ~Refuse(r)
  <2> DEFINE route == req[r].route
             pc    == AfterPermission(route)
  <2>1. /\ req[r].pc = "roles" /\ TypeOK /\ Checked(r)
        /\ CanPerformAction(Who(r), route.action)
        /\ To(r, pc)
    BY <1>2 DEF PermissionRoles, At, IInv
  <2>2. pc \in {"scope", "handler"} /\ (pc = "handler" => route.scope = None)
    BY DEF AfterPermission
  <2>3. MovesTo(r, pc, req[r].own)
    BY <2>1, <2>2, Advances DEF PastAccount
  <2>4. req[r] # Idle /\ req'[r] # Idle
    BY <2>1, <2>3 DEF MovesTo, Idle
  <2>5. seen'[r] = seen[r] \union Facts(Who(r), req[r].p)
    BY <2>1, <2>4, SeenGrows
  <2>6. Who(r) \in Users /\ req[r].p \in Profiles
    BY <2>1, InFlightFields DEF TypeOK, Who
  <2>7. "role" \in seen'[r] /\ (route.action \in {"delete", "admin"} => "admin" \in seen'[r])
    BY <2>1, <2>5, <2>6, ActionNeedsRole
  <2>8. Checked(r)'
    BY <2>1, <2>2, <2>3, <2>5, <2>7
    DEF Checked, OnlyScoped, AccountSeen, RoleSeen, ReachSeen, OwnDecided, MovesTo, Who,
        PastAccount, PastRoles, PastScope
  <2> QED
    BY <2>3, <2>8, MovedChecked
<1> QED
  BY <1>1, <1>2

(* The scope of an administrator is everything. *)
LEMMA ScopeRolesChecked ==
  ASSUME IInv, Watch, NEW r \in Requests, ScopeRoles(r)
  PROVE  RequestsChecked
<1> DEFINE own == OwnOnly(Who(r))
           pc  == IF own THEN "owner" ELSE "handler"
<1>1. /\ req[r].pc = "scope" /\ TypeOK /\ Checked(r)
      /\ req' = [req EXCEPT ![r].pc = pc, ![r].own = own]
  BY DEF ScopeRoles, At, IInv
<1>2. pc \in {"owner", "handler"} /\ own \in BOOLEAN
  BY DEF OwnOnly
<1>3. MovesTo(r, pc, own)
  <2> HIDE DEF own, pc
  <2> QED
    BY <1>1, <1>2, Decides DEF PastAccount
<1>4. req[r] # Idle /\ req'[r] # Idle
  BY <1>1, <1>3 DEF MovesTo, Idle
<1>5. seen'[r] = seen[r] \union Facts(Who(r), req[r].p)
  BY <1>1, <1>4, SeenGrows
<1>6. pc = "handler" => "admin" \in seen'[r]
  BY <1>5 DEF OwnOnly, Facts
<1>7. Checked(r)'
  <2> HIDE DEF own, pc
  <2> QED
    BY <1>1, <1>2, <1>3, <1>5, <1>6
    DEF Checked, OnlyScoped, AccountSeen, RoleSeen, ReachSeen, OwnDecided, MovesTo, Who,
        PastAccount, PastRoles, PastScope
<1> QED
  BY <1>3, <1>7, MovedChecked

(* The scope of an evaluator is what he evaluates. *)
LEMMA ScopeOwnerChecked ==
  ASSUME IInv, Watch, NEW r \in Requests, ScopeOwner(r)
  PROVE  RequestsChecked
<1>1. CASE Refuse(r)
  BY <1>1, EndedChecked DEF RequestsChecked
<1>2. CASE ~Refuse(r)
  <2>1. /\ req[r].pc = "owner" /\ TypeOK /\ Checked(r)
        /\ EvaluatorOf(req[r].route.scope, req[r].p) = Who(r)
        /\ To(r, "handler")
    BY <1>2 DEF ScopeOwner, At, IInv
  <2>2. MovesTo(r, "handler", req[r].own)
    BY <2>1, Advances DEF PastAccount
  <2>3. req[r] # Idle /\ req'[r] # Idle
    BY <2>1, <2>2 DEF MovesTo, Idle
  <2>4. seen'[r] = seen[r] \union Facts(Who(r), req[r].p)
    BY <2>1, <2>3, SeenGrows
  <2>5. Who(r) \in Users
    BY <2>1, InFlightFields DEF TypeOK, Who
  <2>6. "assigned" \in seen'[r]
    BY <2>1, <2>4, <2>5, AccessAssumption DEF EvaluatorOf, Facts
  <2>7. Checked(r)'
    BY <2>1, <2>2, <2>4, <2>6
    DEF Checked, OnlyScoped, AccountSeen, RoleSeen, ReachSeen, OwnDecided, MovesTo, Who,
        PastAccount, PastRoles, PastScope
  <2> QED
    BY <2>2, <2>7, MovedChecked
<1> QED
  BY <1>1, <1>2

(* The handler of an edition asks whether the caller administers.             *)
LEMMA HandlerScopeChecked ==
  ASSUME IInv, Watch, NEW r \in Requests, HandlerScope(r)
  PROVE  RequestsChecked
<1> DEFINE route == req[r].route
           own   == OwnOnly(Who(r))
<1>1. req[r].pc = "handler" /\ TypeOK /\ Checked(r)
  BY DEF HandlerScope, At, IInv
<1>2. route \in Routes \union {Join} /\ req[r].own \in BOOLEAN /\ own \in BOOLEAN
  BY <1>1, InFlightFields DEF TypeOK, OwnOnly
<1>3. route.on = "edition" => route.auth = "token"
  BY <1>2, RoutesWellDeclared, JoinScoped DEF WellDeclared
<1>4. CASE route.on \in {"listing", "creation", "edition"} /\ route.auth = "token"
  <2>1. req' = [req EXCEPT ![r].pc = "run", ![r].own = own]
    BY <1>4 DEF HandlerScope
  <2>2. MovesTo(r, "run", own)
    <3> HIDE DEF own
    <3> QED
      BY <1>1, <1>2, <2>1, Decides DEF PastAccount
  <2>3. req[r] # Idle /\ req'[r] # Idle
    BY <1>1, <2>2 DEF MovesTo, Idle
  <2>4. seen'[r] = seen[r] \union Facts(Who(r), req[r].p)
    BY <1>1, <2>3, SeenGrows
  <2>5. ~own => "admin" \in seen'[r]
    BY <2>4 DEF OwnOnly, Facts
  <2>6. Checked(r)'
    <3> HIDE DEF own
    <3> QED
      BY <1>1, <2>2, <2>4, <2>5
      DEF Checked, OnlyScoped, AccountSeen, RoleSeen, ReachSeen, OwnDecided, MovesTo, Who,
          PastAccount, PastRoles, PastScope
  <2> QED
    BY <2>2, <2>6, MovedChecked
<1>5. CASE ~(route.on \in {"listing", "creation", "edition"} /\ route.auth = "token")
  <2>1. To(r, "run")
    BY <1>5 DEF HandlerScope
  <2>2. MovesTo(r, "run", req[r].own)
    BY <1>1, <2>1, Advances DEF PastAccount
  <2>3. req[r] # Idle /\ req'[r] # Idle
    BY <1>1, <2>2 DEF MovesTo, Idle
  <2>4. seen'[r] = seen[r] \union Facts(Who(r), req[r].p)
    BY <1>1, <2>3, SeenGrows
  <2>5. Checked(r)'
    BY <1>1, <1>3, <1>5, <2>2, <2>4
    DEF Checked, OnlyScoped, AccountSeen, RoleSeen, ReachSeen, OwnDecided, MovesTo, Who,
        PastAccount, PastRoles, PastScope
  <2> QED
    BY <2>2, <2>5, MovedChecked
<1> QED
  BY <1>4, <1>5

(* A request comes with nothing seen and everything to check. *)
LEMMA ArriveChecked ==
  ASSUME IInv, Watch, NEW r \in Requests, NEW u \in Users,
         NEW route \in Routes \union {Join}, NEW p \in Profiles, Arrive(r, u, route, p)
  PROVE  RequestsChecked
<1> DEFINE c == [pc |-> IF route = Join THEN "scope" ELSE "account", user |-> u,
                 route |-> route, p |-> p, own |-> FALSE]
<1>1. req' = [req EXCEPT ![r] = c] /\ TypeOK
  BY DEF Arrive, IInv
<1>2. c \in Continuations
  BY DEF Continuations
<1>3. c.pc = (IF route = Join THEN "scope" ELSE "account") /\ c.route = route
  OBVIOUS
<1>4. /\ c.pc = "account" \/ (c.pc = "scope" /\ c.route = Join)
      /\ c.pc = "account" => c.route # Join
  <2> HIDE DEF c
  <2> QED
    BY <1>3
<1> HIDE DEF c
<1>5. /\ req' \in [Requests -> Continuations] /\ req'[r] = c
      /\ \A s \in Requests \ {r} : req'[s] = req[s]
  BY <1>1, <1>2 DEF TypeOK
<1>6. Checked(r)'
  BY <1>4, <1>5
  DEF Checked, OnlyScoped, AccountSeen, RoleSeen, ReachSeen, OwnDecided,
      PastAccount, PastRoles, PastScope
<1> QED
  BY <1>5, <1>6, WaitingChecked DEF IInv, RequestsChecked

-----------------------------------------------------------------------------
(* The type of the database, whoever writes it. *)
DatabaseType ==
  /\ live' \in [Users -> SUBSET Codes]
  /\ active' \subseteq Users
  /\ evaluator' \in [Profiles -> Users \union {None}]
  /\ gone' \subseteq Profiles
  /\ room' \subseteq Users \X Profiles

LEMMA HandledType ==
  ASSUME IInv, NEW r \in Requests, Handle(r)
  PROVE  DatabaseType
<1>1. TypeOK
  BY DEF IInv
<1>2. CASE Read
  BY <1>1, <1>2 DEF Read, TypeOK, DatabaseType
<1>3. CASE WritePeople(r)
  BY <1>1, <1>3 DEF WritePeople, TypeOK, DatabaseType
<1>4. ASSUME req[r].pc = "run"
      PROVE  Who(r) \in Users /\ req[r].p \in Profiles
  BY <1>1, <1>4, InFlightFields DEF TypeOK, Who
<1>5. ASSUME NEW e \in Users \union {None}, CreateOwned(r, e)
      PROVE  DatabaseType
  BY <1>1, <1>4, <1>5 DEF CreateOwned, At, TypeOK, DatabaseType
<1>6. ASSUME NEW e \in Users \union {None}, Edit(r, e)
      PROVE  DatabaseType
  BY <1>1, <1>4, <1>6 DEF Edit, At, TypeOK, DatabaseType
<1>7. CASE Delete(r)
  BY <1>1, <1>4, <1>7 DEF Delete, At, TypeOK, DatabaseType
<1>8. CASE Enter(r)
  BY <1>1, <1>4, <1>8 DEF Enter, At, TypeOK, DatabaseType, database
<1> QED
  BY <1>2, <1>3, <1>5, <1>6, <1>7, <1>8
  DEF Handle, JwtAccount, PermissionUser, PermissionRoles, ScopeRoles, ScopeOwner,
      HandlerScope, Answer

LEMMA HandledChecked ==
  ASSUME IInv, Watch, NEW r \in Requests, Handle(r)
  PROVE  RequestsChecked
<1>1. CASE Refuse(r)
  BY <1>1, EndedChecked DEF RequestsChecked
<1> QED
  BY <1>1, JwtAccountChecked, PermissionUserChecked, PermissionRolesChecked,
     ScopeRolesChecked, ScopeOwnerChecked, HandlerScopeChecked
  DEF Handle, WritePeople, Delete, Enter, Answer, CreateOwned, Edit

LEMMA InvInit == Init => IInv
<1> SUFFICES ASSUME Init PROVE IInv
  OBVIOUS
<1>1. TypeOK
  BY DEF Init, TypeOK, Codes, Continuations
<1>2. ASSUME NEW r \in Requests
      PROVE  Checked(r)
  BY DEF Init, Idle, Checked, OnlyScoped, AccountSeen, RoleSeen, ReachSeen, OwnDecided,
         PastAccount, PastRoles, PastScope
<1> QED
  BY <1>1, <1>2 DEF IInv

LEMMA InvNext == IInv /\ [Next]_vars => IInv'
<1> SUFFICES ASSUME IInv, [Next]_vars PROVE IInv'
  OBVIOUS
<1>1. ASSUME DatabaseType, RequestsChecked, Watch
      PROVE  IInv'
  <2>1. seen' \in [Requests -> SUBSET {"active", "admin", "role", "assigned"}]
    BY <1>1, SeenType DEF IInv
  <2> QED
    BY <1>1, <2>1 DEF DatabaseType, RequestsChecked, IInv, TypeOK
<1>2. ASSUME NEW r \in Requests, Handle(r), Watch
      PROVE  IInv'
  BY <1>1, <1>2, HandledType, HandledChecked
<1>3. ASSUME NEW r \in Requests, NEW u \in Users, NEW route \in Routes \union {Join},
             NEW p \in Profiles, Arrive(r, u, route, p), Watch
      PROVE  IInv'
  <2>1. DatabaseType
    BY <1>3 DEF Arrive, Read, IInv, TypeOK, DatabaseType
  <2> QED
    BY <1>1, <1>3, <2>1, ArriveChecked
<1>4. ASSUME req' = req, Watch
      PROVE  RequestsChecked
  BY <1>4, WaitingChecked DEF IInv, TypeOK, RequestsChecked
<1>5. ASSUME NEW u \in Users, NEW p \in Profiles, Leave(u, p), Watch
      PROVE  IInv'
  <2>1. DatabaseType /\ req' = req
    BY <1>5 DEF Leave, IInv, TypeOK, DatabaseType
  <2> QED
    BY <1>1, <1>4, <1>5, <2>1
<1>6. ASSUME Others, Watch
      PROVE  IInv'
  <2>1. DatabaseType /\ req' = req
    BY <1>6 DEF Others, IInv, TypeOK, DatabaseType
  <2> QED
    BY <1>1, <1>4, <1>6, <2>1
<1>7. CASE UNCHANGED vars
  BY <1>7 DEF vars, IInv, TypeOK, Checked, OnlyScoped, AccountSeen, RoleSeen, ReachSeen,
              OwnDecided, Who
<1> QED
  BY <1>2, <1>3, <1>5, <1>6, <1>7 DEF Next

(* Every reachable state of the guards satisfies the inductive invariant: what *)
(* a request in flight has been checked for, and with what it was seen.        *)
THEOREM Inductive == Spec => []IInv
BY InvInit, InvNext, PTL DEF Spec

-----------------------------------------------------------------------------
(* Whatever changes on the way, a handler runs for somebody whose account was *)
(* active and who held a role that grants the action since the request came. *)
THEOREM HandlersRunWithRights == Spec => []HandlersHadRights
<1>1. IInv => HandlersHadRights
  BY DEF IInv, Checked, AccountSeen, RoleSeen, HandlersHadRights, At, PastAccount, PastRoles
<1> QED
  BY <1>1, Inductive, PTL

(* No handler over an evaluated organisation, and no entrance into the room   *)
(* of an evaluation, for somebody who neither administers nor evaluates it.  *)
THEOREM OthersStayOutOfReach == Spec => []OthersOutOfReach
<1>1. ASSUME IInv, NEW r \in Requests, At(r, "run"), req[r].route.on \in Works \union {"room"}
      PROVE  {"admin", "assigned"} \cap seen[r] # {}
  <2>1. req[r].route \in Routes \union {Join}
    BY <1>1, InFlightFields DEF IInv, TypeOK, At
  <2>2. req[r].route.scope # None
    BY <1>1, <2>1, RoutesWellDeclared, JoinScoped DEF WellDeclared
  <2> QED
    BY <1>1, <2>2 DEF IInv, Checked, ReachSeen, At, PastScope
<1>2. IInv => OthersOutOfReach
  BY <1>1 DEF OthersOutOfReach
<1> QED
  BY <1>2, Inductive, PTL

(* Roles, accounts and evaluators change by the hand of somebody who was an   *)
(* administrator on the way.                                                 *)
THEOREM AdministratorsGiveRights == Spec => RightsFromAdministrators
<1> DEFINE Given(r) ==
             /\ <<live, active>>' # <<live, active>> => "admin" \in seen[r]
             /\ evaluator' # evaluator => "admin" \in seen[r] \/ req[r].route.on = "creation"
<1>1. ASSUME IInv, NEW r \in Requests, WritePeople(r)
      PROVE  Given(r)
  <2>1. /\ req[r].pc = "run" /\ req[r].route.on = "people"
        /\ UNCHANGED evaluator
    BY <1>1 DEF WritePeople, At
  <2>2. req[r].route \in Routes \union {Join} /\ Checked(r)
    BY <1>1, <2>1, InFlightFields DEF IInv, TypeOK
  <2>3. req[r].route \in Routes /\ req[r].route # Join
    BY <2>1, <2>2, JoinScoped
  <2>4. req[r].route.auth = "superadmin" \/ req[r].route.action = "admin"
    BY <2>1, <2>3, RoutesWellDeclared DEF WellDeclared
  <2>5. "admin" \in seen[r]
    BY <2>1, <2>2, <2>3, <2>4 DEF Checked, AccountSeen, RoleSeen, PastAccount, PastRoles
  <2> QED
    BY <2>1, <2>5
<1>2. ASSUME IInv, NEW r \in Requests, NEW e, Edit(r, e)
      PROVE  Given(r)
  BY <1>2 DEF Edit, At, IInv, Checked, OwnDecided
<1>3. ASSUME NEW r \in Requests, NEW e, CreateOwned(r, e)
      PROVE  Given(r)
  BY <1>3 DEF CreateOwned
<1>4. ASSUME NEW r \in Requests, Handle(r), ~WritePeople(r),
             \A e \in Users \union {None} : ~CreateOwned(r, e) /\ ~Edit(r, e)
      PROVE  Given(r)
  BY <1>4
  DEF Handle, JwtAccount, PermissionUser, PermissionRoles, ScopeRoles, ScopeOwner,
      HandlerScope, Delete, Enter, Answer, Read, database
<1>5. ASSUME IInv, NEW s \in Requests, Handle(s)
      PROVE  Given(s)
  <2> HIDE DEF Given
  <2> QED
    BY <1>1, <1>2, <1>3, <1>4, <1>5
<1>6. ASSUME IInv, Next, NEW r \in Requests, req'[r] # req[r]
      PROVE  Given(r)
  <2>1. ASSUME NEW s \in Requests, Handle(s)
        PROVE  Given(r)
    <3>1. s = r
      BY <1>6, <2>1
      DEF IInv, TypeOK, Handle, JwtAccount, PermissionUser, PermissionRoles, ScopeRoles,
          ScopeOwner, HandlerScope, WritePeople, Delete, Enter, Answer, CreateOwned, Edit,
          Refuse, To
    <3> HIDE DEF Given
    <3> QED
      BY <1>5, <1>6, <2>1, <3>1
  <2>2. ASSUME NEW s \in Requests, NEW u \in Users, NEW route \in Routes \union {Join},
               NEW p \in Profiles, Arrive(s, u, route, p)
        PROVE  Given(r)
    BY <2>2 DEF Arrive, Read
  <2>3. CASE (\E u \in Users, p \in Profiles : Leave(u, p)) \/ Others
    BY <1>6, <2>3 DEF Leave, Others
  <2> HIDE DEF Given
  <2> QED
    BY <1>6, <2>1, <2>2, <2>3 DEF Next
<1>7. IInv /\ [Next]_vars =>
        [\A r \in Requests : req'[r] # req[r] => Given(r)]_vars
  BY <1>6
<1> QED
  BY <1>7, Inductive, PTL DEF Spec, RightsFromAdministrators

===============================================================================
