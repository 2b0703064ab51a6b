------------------------------ MODULE MemberRoles ------------------------------
(***************************************************************************)
(* The administration of one organisation's people: the creation of the    *)
(* organisation with its first administrator, its members, their accounts  *)
(* and the two roles they may hold (AuthUserRole rows, deleted softly and  *)
(* revived).  An operation is a chain of database calls, shared between    *)
(* the operations: updating and removing a member replace its role, and    *)
(* everything that gives a role ends in AssessmentRolesService.assign.     *)
(* A request carries what is left of its chain (job).                      *)
(*                                                                         *)
(* Closing sessions is RefreshTokens' CloseSessions; here it is a call     *)
(* that may fail.                                                          *)
(***************************************************************************)
EXTENDS Naturals, FiniteSets

CONSTANTS
  Requests,     \* requests the server may have in flight at once
  Users,        \* people the requests are about
  Codes,        \* assessment_admin, assessment_evaluator
  Admin,        \* the role of the first administrator
  None,         \* no role (null)
  Keep          \* a field the body does not bring

VARIABLES
  org,          \* the organisation: no row, without templates, or ready
  account,      \* the account of each user
  member,       \* users with a membership row
  live,         \* roles of each user that are not deleted
  open,         \* users who started an evaluation that is still open
  job,          \* what each request is doing
  calm,         \* history: nothing ever overlapped
  raced,        \* history: users whose removal overlapped another request about them
  direct        \* history: users given a role by POST /assessments/roles

vars == <<org, account, member, live, open, job, calm, raced, direct>>

ASSUME CodesAssumption ==
  /\ Admin \in Codes /\ {None, Keep} \cap Codes = {}
  /\ None # Keep /\ Keep \notin BOOLEAN

-----------------------------------------------------------------------------
(* What the callers may ask.  self: the request is about its own actor.      *)
Asked ==
  [op : {"create"}, user : Users, role : Codes \union {None}]
    \union [op : {"update"}, user : Users, role : Codes \union {None, Keep},
            active : BOOLEAN \union {Keep}, self : BOOLEAN]
    \union [op : {"remove"}, user : Users, role : {None}, self : BOOLEAN]
    \union [op : {"assign"}, user : Users, role : Codes]
    \union [op : {"revoke"}, user : Users, role : {None}, code : Codes, confirm : BOOLEAN]
    \union [op : {"found"}, user : Users, role : {Admin}, password : BOOLEAN]

Idle == [pc |-> "idle"]
IsIdle(r) == job[r].pc = "idle"
At(r, pc) == job[r].pc = pc
Who(r) == job[r].ask.user
To(r, pc) == job' = [job EXCEPT ![r].pc = pc]
Refuse(r) == job' = [job EXCEPT ![r] = Idle]
Stay == UNCHANGED <<org, account, member, live>>

FirstCall(a) ==
  CASE a.op = "create" -> "lookup"
    [] a.op = "update" -> "assertUpdate"
    [] a.op = "remove" -> "assertRemove"
    [] a.op = "assign" -> "assign"
    [] a.op = "revoke" -> "revoke"
    [] a.op = "found"  -> "slug"

(* What follows in the chain once the old roles are revoked, and once the     *)
(* new one is there.                                                         *)
AfterRole(a) == IF a.op = "remove" \/ (a.op = "update" /\ a.active = FALSE) THEN "close"
                ELSE "reply"
AfterRevokes(a, had) ==
  IF a.role # None /\ a.role \notin had THEN "assign" ELSE AfterRole(a)

-----------------------------------------------------------------------------
Init ==
  /\ org = "none"
  /\ account \in [Users -> {"none", "active"}]
  /\ member = {}
  /\ live = [u \in Users |-> {}]
  /\ open = {}
  /\ job = [r \in Requests |-> Idle]
  /\ calm = TRUE
  /\ raced = {}
  /\ direct = {}

(* A request passes the guards.                                               *)
Arrive(r, a) ==
  /\ IsIdle(r)
  /\ a.op # "found" => org # "none"
  /\ job' = [job EXCEPT ![r] =
       [pc |-> FirstCall(a), ask |-> a, had |-> {},
        todo |-> IF a.op = "revoke" THEN {a.code} ELSE {}, code |-> None]]
  /\ Stay

(* createMember: the account and the membership are looked up; a member is    *)
(* refused.                                                                  *)
CreateLookup(r) ==
  /\ At(r, "lookup")
  /\ IF Who(r) \in member THEN Refuse(r) ELSE To(r, "account")
  /\ Stay

(* A known account is revived; a new one is inserted.                         *)
CreateAccount(r) ==
  /\ At(r, "account")
  /\ account' = [account EXCEPT ![Who(r)] = "active"]
  /\ To(r, "enrol")
  /\ UNCHANGED <<org, member, live>>

(* The membership is inserted: it is unique.                                  *)
CreateEnrol(r) ==
  /\ At(r, "enrol")
  /\ Who(r) \notin member
  /\ member' = member \union {Who(r)}
  /\ To(r, IF job[r].ask.role = None THEN "reply" ELSE "assign")
  /\ UNCHANGED <<org, account, live>>

-----------------------------------------------------------------------------
(* updateMember: a member, and nobody deactivates himself.                    *)
UpdateAssert(r) ==
  /\ At(r, "assertUpdate")
  /\ IF Who(r) \notin member \/ (job[r].ask.self /\ job[r].ask.active = FALSE)
     THEN Refuse(r) ELSE To(r, "update")
  /\ Stay

UpdateAccount(r) ==
  /\ At(r, "update")
  /\ LET a == job[r].ask IN
     /\ account' = [account EXCEPT ![a.user] =
          IF a.active = Keep THEN @ ELSE IF a.active = TRUE THEN "active" ELSE "inactive"]
     /\ To(r, IF a.role = Keep THEN AfterRole(a) ELSE "current")
  /\ UNCHANGED <<org, member, live>>

(* Mutant: the membership goes first, the roles are left.                     *)
RemoveAssertLeave(r) ==
  /\ At(r, "assertRemove")
  /\ IF Who(r) \notin member \/ job[r].ask.self THEN Refuse(r) ELSE To(r, "leave")
  /\ Stay

(* removeMember: a member, and nobody removes himself.                        *)
RemoveAssert(r) ==
  /\ At(r, "assertRemove")
  /\ IF Who(r) \notin member \/ job[r].ask.self THEN Refuse(r) ELSE To(r, "current")
  /\ Stay

(* Mutant of replaceRole: the role is added to those there are.               *)
ReplaceReadAdd(r) ==
  /\ At(r, "current")
  /\ LET a == job[r].ask had == live[a.user] IN
     job' = [job EXCEPT ![r] = [@ EXCEPT !.had = had, !.pc = AfterRevokes(a, had)]]
  /\ Stay

(* replaceRole: the live roles are read; those that are not the one asked for *)
(* are revoked, one by one.                                                  *)
ReplaceRead(r) ==
  /\ At(r, "current")
  /\ LET a == job[r].ask had == live[a.user] todo == had \ {a.role} IN
     job' = [job EXCEPT ![r] = [@ EXCEPT !.had = had, !.todo = todo,
               !.pc = IF todo = {} THEN AfterRevokes(a, had) ELSE "revoke"]]
  /\ Stay

(* revokeAllForUser *)
Close(r) ==
  /\ At(r, "close")
  /\ To(r, IF job[r].ask.op = "remove" THEN "leave" ELSE "reply")
  /\ Stay

RemoveLeave(r) ==
  /\ At(r, "leave")
  /\ Who(r) \in member
  /\ member' = member \ {Who(r)}
  /\ To(r, "reply")
  /\ UNCHANGED <<org, account, live>>

-----------------------------------------------------------------------------
(* AssessmentRolesService.assign: no live row of that role (409), then the    *)
(* row is written or revived.  It does not ask for a membership.             *)
AssignFind(r) ==
  /\ At(r, "assign")
  /\ IF account[Who(r)] = "none" \/ job[r].ask.role \in live[Who(r)]
     THEN Refuse(r) ELSE To(r, "upsert")
  /\ Stay

AssignUpsert(r) ==
  /\ At(r, "upsert")
  /\ live' = [live EXCEPT ![Who(r)] = @ \union {job[r].ask.role}]
  /\ To(r, AfterRole(job[r].ask))
  /\ UNCHANGED <<org, account, member>>

(* AssessmentRolesService.revoke: the row must still be live (404); unless    *)
(* confirmed, the open evaluations of the user are counted first.            *)
RevokeFind(r, c) ==
  /\ At(r, "revoke") /\ c \in job[r].todo
  /\ LET a == job[r].ask IN
     IF c \notin live[a.user] THEN Refuse(r)
     ELSE job' = [job EXCEPT ![r] = [@ EXCEPT !.code = c, !.todo = job[r].todo \ {c},
                    !.pc = IF a.op = "revoke" /\ ~a.confirm THEN "count" ELSE "unset"]]
  /\ Stay

(* Mutant: the evaluations are not counted. *)
RevokeCountNone(r) ==
  /\ At(r, "count")
  /\ To(r, "unset")
  /\ Stay

RevokeCount(r) ==
  /\ At(r, "count")
  /\ IF Who(r) \in open THEN Refuse(r) ELSE To(r, "unset")
  /\ Stay

(* The row is marked deleted, whatever it is by now.                          *)
RevokeUnset(r) ==
  /\ At(r, "unset")
  /\ live' = [live EXCEPT ![Who(r)] = @ \ {job[r].code}]
  /\ To(r, IF job[r].todo # {} THEN "revoke" ELSE AfterRevokes(job[r].ask, job[r].had))
  /\ UNCHANGED <<org, account, member>>

-----------------------------------------------------------------------------
(* OrganisationManagementService.create: an identifier nobody uses, the row,  *)
(* its templates, then its first administrator.                              *)
FoundSlug(r) ==
  /\ At(r, "slug")
  /\ IF org # "none" THEN Refuse(r) ELSE To(r, "insert")
  /\ Stay

FoundInsert(r) ==
  /\ At(r, "insert")
  /\ org = "none"
  /\ org' = "bare"
  /\ To(r, "provision")
  /\ UNCHANGED <<account, member, live>>

FoundProvision(r) ==
  /\ At(r, "provision")
  /\ org' = "ready"
  /\ To(r, "attach")
  /\ UNCHANGED <<account, member, live>>

(* attachAdmin: an account nobody has needs a password (400).                 *)
AttachAccount(r) ==
  /\ At(r, "attach")
  /\ IF account[Who(r)] = "none" /\ ~job[r].ask.password
     THEN Refuse(r) /\ UNCHANGED account
     ELSE /\ account' = [account EXCEPT ![Who(r)] = IF @ = "none" THEN "active" ELSE @]
          /\ To(r, "join")
  /\ UNCHANGED <<org, member, live>>

AttachJoin(r) ==
  /\ At(r, "join")
  /\ member' = member \union {Who(r)}
  /\ To(r, "assign")
  /\ UNCHANGED <<org, account, live>>

-----------------------------------------------------------------------------
(* The last calls of a chain write the trail and read the answer.             *)
Reply(r) == At(r, "reply") /\ Refuse(r) /\ Stay

(* A call of the chain is rejected: the chain ends where it is.               *)
Fail(r) == ~IsIdle(r) /\ Refuse(r) /\ Stay

Step(r) ==
  \/ CreateLookup(r) \/ CreateAccount(r) \/ CreateEnrol(r)
  \/ UpdateAssert(r) \/ UpdateAccount(r) \/ RemoveAssert(r)
  \/ ReplaceRead(r) \/ Close(r) \/ RemoveLeave(r)
  \/ AssignFind(r) \/ AssignUpsert(r)
  \/ \E c \in Codes : RevokeFind(r, c)
  \/ RevokeCount(r) \/ RevokeUnset(r)
  \/ FoundSlug(r) \/ FoundInsert(r) \/ FoundProvision(r)
  \/ AttachAccount(r) \/ AttachJoin(r)
  \/ Reply(r) \/ Fail(r)

InFlight == {r \in Requests : ~IsIdle(r)}

(* A user with a role starts an evaluation, or the evaluations are over.      *)
Evaluate(u) ==
  /\ \/ u \notin open /\ live[u] # {} /\ open' = open \union {u}
     \/ u \in open /\ open' = open \ {u}
  /\ Stay /\ UNCHANGED <<job, raced, direct>>
  /\ calm' = (calm /\ InFlight = {})

Next ==
  \/ \E r \in Requests, a \in Asked :
       /\ Arrive(r, a) /\ UNCHANGED open
       /\ calm' = (calm /\ InFlight = {})
       /\ raced' = IF \E q \in InFlight : /\ Who(q) = a.user
                                         /\ "remove" \in {a.op, job[q].ask.op}
                   THEN raced \union {a.user} ELSE raced
       /\ direct' = IF a.op = "assign" THEN direct \union {a.user} ELSE direct
  \/ \E r \in Requests : Step(r) /\ UNCHANGED <<open, calm, raced, direct>>
  \/ \E u \in Users : Evaluate(u)

Spec == Init /\ [][Next]_vars

-----------------------------------------------------------------------------
Jobs ==
  {Idle} \union [pc : {"lookup", "account", "enrol", "assertUpdate", "update", "assertRemove",
                       "current", "close", "leave", "assign", "upsert", "revoke", "count",
                       "unset", "slug", "insert", "provision", "attach", "join", "reply"},
                 ask : Asked, had : SUBSET Codes, todo : SUBSET Codes,
                 code : Codes \union {None}]

TypeOK ==
  /\ org \in {"none", "bare", "ready"}
  /\ account \in [Users -> {"none", "active", "inactive"}]
  /\ member \subseteq Users /\ open \subseteq Users
  /\ direct \subseteq Users /\ raced \subseteq Users
  /\ live \in [Users -> SUBSET Codes]
  /\ job \in [Requests -> Jobs]
  /\ calm \in BOOLEAN

(* What an operation that reaches its answer promises of the state it leaves. *)
Promised(a) ==
  CASE a.op = "create" -> /\ a.user \in member /\ account[a.user] = "active"
                          /\ a.role # None => a.role \in live[a.user]
    [] a.op = "update" -> /\ a.role # Keep => live[a.user] = {a.role} \ {None}
                          /\ a.active = FALSE => account[a.user] = "inactive"
    [] a.op = "remove" -> a.user \notin member /\ live[a.user] = {}
    [] a.op = "assign" -> a.role \in live[a.user]
    [] a.op = "revoke" -> a.code \notin live[a.user] /\ (a.confirm \/ a.user \notin open)
    [] a.op = "found"  -> org = "ready" /\ a.user \in member /\ Admin \in live[a.user]

(* While requests come one at a time, an operation that answers has done all  *)
(* it was asked: a replaced role is the only one, who is removed keeps no     *)
(* role, an organisation that was created has its templates and an           *)
(* administrator, a role revoked without confirmation leaves no open          *)
(* evaluation behind.                                                        *)
AnswersHold == calm => \A r \in Requests : At(r, "reply") => Promised(job[r].ask)

(* However requests overlap and whichever of their calls fail, only members   *)
(* hold roles: the roles go before the membership, and come after it.  Two    *)
(* ways round it are left out: POST /assessments/roles does not ask for a     *)
(* membership, and a removal may overlap a request about the same user that   *)
(* found the membership before it.                                           *)
RolesOnlyForMembers ==
  \A u \in Users \ (direct \union raced) : live[u] # {} => u \in member

(* While requests come one at a time, and whichever of their calls fail, the  *)
(* administration of members never leaves anybody with two roles: the old    *)
(* one is revoked before the new one is given.                               *)
OneRoleEach == calm => \A u \in Users \ direct : Cardinality(live[u]) <= 1

=============================================================================
