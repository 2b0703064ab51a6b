------------------------- MODULE MemberRoles_proofs -------------------------
(* Proofs about MemberRoles, for every value of its constants.               *)
EXTENDS MemberRoles, FiniteSetTheorems, TLAPS

Ops == {"create", "update", "remove", "assign", "revoke", "found"}

(* What a request asks is determined by its operation. *)
LEMMA AskByOp ==
  ASSUME NEW a \in Asked
  PROVE  /\ a.op \in Ops /\ a.user \in Users
         /\ a.op = "create" => a.role \in Codes \union {None}
         /\ a.op = "update" => /\ a.role \in Codes \union {None, Keep}
                               /\ a.active \in BOOLEAN \union {Keep}
         /\ a.op = "remove" => a.role = None
         /\ a.op = "assign" => a.role \in Codes
         /\ a.op = "revoke" => a.role = None /\ a.code \in Codes
         /\ a.op = "found" => a.role = Admin
  BY DEF Asked, Ops

(* The steps of a chain, and the jobs that are at one of them. *)
Steps == {"lookup", "account", "enrol", "assertUpdate", "update", "assertRemove",
          "current", "close", "leave", "assign", "upsert", "revoke", "count",
          "unset", "slug", "insert", "provision", "attach", "join", "reply"}
Busy == [pc : Steps, ask : Asked, had : SUBSET Codes, todo : SUBSET Codes,
         code : Codes \union {None}]

(* The chain of each operation. *)
ChainOf(op) ==
  CASE op = "create" -> {"lookup", "account", "enrol", "assign", "upsert", "reply"}
    [] op = "update" -> {"assertUpdate", "update", "current", "revoke", "unset", "assign",
                         "upsert", "close", "reply"}
    [] op = "remove" -> {"assertRemove", "current", "revoke", "unset", "close", "leave",
                         "reply"}
    [] op = "assign" -> {"assign", "upsert", "reply"}
    [] op = "revoke" -> {"revoke", "count", "unset", "reply"}
    [] op = "found" -> {"slug", "insert", "provision", "attach", "join", "assign",
                        "upsert", "reply"}

(* A job is at a step of its chain, which it only enters when it has what the  *)
(* step needs.                                                               *)
OnItsChain(j) ==
  /\ j.pc \in ChainOf(j.ask.op)
  /\ j.pc \in {"assign", "upsert"} => j.ask.role \in Codes
  /\ j.pc \in {"current", "revoke", "unset"} => j.ask.role # Keep
  /\ j.pc = "close" /\ j.ask.op = "update" => j.ask.active = FALSE

(* A job that is not idle has the fields of a chain. *)
LEMMA BusyJobs ==
  ASSUME TypeOK, NEW r \in Requests
  PROVE  /\ IsIdle(r) <=> job[r] = Idle
         /\ ~IsIdle(r) => job[r] \in Busy
<1>1. job[r] = Idle \/ job[r] \in Busy
  BY DEF TypeOK, Jobs, Busy, Steps
<1>2. Idle.pc = "idle"
  BY DEF Idle
<1>3. job[r] \in Busy => job[r].pc # "idle"
  BY DEF Busy, Steps
<1> QED BY <1>1, <1>2, <1>3 DEF IsIdle

(* The calls that only move the request along its chain. *)
LEMMA ToMoves ==
  ASSUME TypeOK, NEW r \in Requests, ~IsIdle(r), NEW p \in Steps, To(r, p)
  PROVE  /\ job'[r] = [job[r] EXCEPT !.pc = p]
         /\ job'[r] \in Busy
         /\ job'[r].pc = p /\ job'[r].ask = job[r].ask
         /\ job'[r].had = job[r].had /\ job'[r].todo = job[r].todo
         /\ job'[r].code = job[r].code
         /\ \A q \in Requests \ {r} : job'[q] = job[q]
         /\ job' = [job EXCEPT ![r] = job'[r]]
<1>1. job[r] \in Busy
  BY BusyJobs
<1>2. /\ job'[r] = [job[r] EXCEPT !.pc = p]
      /\ \A q \in Requests \ {r} : job'[q] = job[q]
      /\ job' = [job EXCEPT ![r] = job'[r]]
  BY DEF To, TypeOK
<1>3. /\ [job[r] EXCEPT !.pc = p] \in Busy
      /\ [job[r] EXCEPT !.pc = p].pc = p
      /\ [job[r] EXCEPT !.pc = p].ask = job[r].ask
      /\ [job[r] EXCEPT !.pc = p].had = job[r].had
      /\ [job[r] EXCEPT !.pc = p].todo = job[r].todo
      /\ [job[r] EXCEPT !.pc = p].code = job[r].code
  BY <1>1 DEF Busy
<1> QED BY <1>2, <1>3

(* The calls that end the request. *)
LEMMA RefuseMoves ==
  ASSUME TypeOK, NEW r \in Requests, Refuse(r)
  PROVE  /\ job'[r] = Idle
         /\ \A q \in Requests \ {r} : job'[q] = job[q]
         /\ job' = [job EXCEPT ![r] = job'[r]]
  BY DEF Refuse, TypeOK

(* What follows in a chain is in it. *)
LEMMA ChainGoesOn ==
  ASSUME NEW a \in Asked, NEW had \in SUBSET Codes
  PROVE  /\ a.op \in {"create", "update", "assign", "found"} =>
              /\ AfterRole(a) \in Steps \cap ChainOf(a.op)
              /\ AfterRole(a) \in {"close", "reply"}
              /\ AfterRole(a) = "close" => a.op = "update" /\ a.active = FALSE
         /\ a.op \in {"update", "remove", "revoke"} /\ a.role # Keep =>
              /\ AfterRevokes(a, had) \in Steps \cap ChainOf(a.op)
              /\ AfterRevokes(a, had) \in {"assign", "close", "reply"}
              /\ AfterRevokes(a, had) = "assign" => a.op = "update" /\ a.role \in Codes \ had
              /\ AfterRevokes(a, had) # "assign" => a.role = None \/ a.role \in had
              /\ AfterRevokes(a, had) = "close" =>
                   a.op = "remove" \/ (a.op = "update" /\ a.active = FALSE)
              /\ AfterRevokes(a, had) = "reply" => a.op # "remove"
<1>1. /\ a.op \in Ops
      /\ a.op = "update" => a.role \in Codes \union {None, Keep}
      /\ a.op = "remove" => a.role = None
      /\ a.op = "revoke" => a.role = None
  BY AskByOp
<1>2. a.op = "update" /\ a.role \notin {None, Keep} => a.role \in Codes
  BY <1>1
<1> QED BY <1>1, <1>2 DEF AfterRole, AfterRevokes, ChainOf, Steps, Ops

-----------------------------------------------------------------------------
(* A step of a request ends it, or takes it along its chain with the same      *)
(* question; the other requests stay where they are.                         *)
Entering(a, p) ==
  /\ p \in Steps \cap ChainOf(a.op)
  /\ p \in {"assign", "upsert"} => a.role \in Codes
  /\ p \in {"current", "revoke", "unset"} => a.role # Keep
  /\ p = "close" /\ a.op = "update" => a.active = FALSE

Continues(r) ==
  /\ \A q \in Requests \ {r} : job'[q] = job[q]
  /\ job' = [job EXCEPT ![r] = job'[r]]
  /\ \/ job'[r] = Idle
     \/ job'[r] \in Busy /\ job'[r].ask = job[r].ask /\ OnItsChain(job'[r])

LEMMA RefuseContinues ==
  ASSUME TypeOK, NEW r \in Requests, Refuse(r)
  PROVE  Continues(r)
  BY RefuseMoves DEF Continues

LEMMA ToContinues ==
  ASSUME TypeOK, NEW r \in Requests, ~IsIdle(r), NEW p, To(r, p), Entering(job[r].ask, p)
  PROVE  Continues(r)
<1>1. p \in Steps
  BY DEF Entering
<1>2. /\ job'[r] \in Busy /\ job'[r].pc = p /\ job'[r].ask = job[r].ask
      /\ \A q \in Requests \ {r} : job'[q] = job[q]
      /\ job' = [job EXCEPT ![r] = job'[r]]
  BY <1>1, ToMoves
<1>3. OnItsChain(job'[r])
  BY <1>2 DEF OnItsChain, Entering
<1> QED BY <1>2, <1>3 DEF Continues

(* The chain of a request that is at a step, and what it asks. *)
LEMMA AtStep ==
  ASSUME TypeOK, NEW r \in Requests, ~IsIdle(r), OnItsChain(job[r])
  PROVE  /\ job[r] \in Busy /\ job[r].ask \in Asked /\ Who(r) \in Users
         /\ job[r].had \in SUBSET Codes /\ job[r].todo \in SUBSET Codes
         /\ job[r].code \in Codes \union {None}
         /\ job[r].pc \in {"lookup", "account", "enrol"} => job[r].ask.op = "create"
         /\ job[r].pc \in {"assertUpdate", "update"} => job[r].ask.op = "update"
         /\ job[r].pc \in {"assertRemove", "leave"} => job[r].ask.op = "remove"
         /\ job[r].pc \in {"current", "close"} => job[r].ask.op \in {"update", "remove"}
         /\ job[r].pc \in {"assign", "upsert"} =>
              job[r].ask.op \in {"create", "update", "assign", "found"}
         /\ job[r].pc \in {"revoke", "unset"} => job[r].ask.op \in {"update", "remove", "revoke"}
         /\ job[r].pc = "count" => job[r].ask.op = "revoke"
         /\ job[r].pc \in {"slug", "insert", "provision", "attach", "join"} =>
              job[r].ask.op = "found"
<1>1. job[r] \in Busy
  BY BusyJobs
<1>2. job[r].ask \in Asked /\ job[r].ask.op \in Ops /\ Who(r) \in Users
  BY <1>1, AskByOp DEF Busy, Who
<1> QED BY <1>1, <1>2 DEF Busy, OnItsChain, ChainOf, Ops

(* replaceRole has read the roles; a revocation has found its row. *)
LEMMA ReplaceReads ==
  ASSUME TypeOK, NEW r \in Requests, ~IsIdle(r), OnItsChain(job[r]), ReplaceRead(r)
  PROVE  LET a == job[r].ask had == live[a.user] todo == had \ {a.role}
             p == IF todo = {} THEN AfterRevokes(a, had) ELSE "revoke"
         IN  /\ had \in SUBSET Codes
             /\ job' = [job EXCEPT ![r] = job'[r]]
             /\ \A q \in Requests \ {r} : job'[q] = job[q]
             /\ Entering(a, p) /\ job'[r] \in Busy
             /\ job'[r].pc = p /\ job'[r].ask = a /\ job'[r].code = job[r].code
             /\ job'[r].had = had /\ job'[r].todo = todo
<1> DEFINE a == job[r].ask
           had == live[a.user]
           todo == had \ {a.role}
           p == IF todo = {} THEN AfterRevokes(a, had) ELSE "revoke"
<1>1. a.op \in {"update", "remove"} /\ a.role # Keep /\ job[r] \in Busy /\ a \in Asked
  BY AtStep DEF ReplaceRead, At, OnItsChain
<1>2. had \in SUBSET Codes /\ todo \in SUBSET Codes
  BY <1>1, AskByOp DEF TypeOK
<1>3. Entering(a, p)
  <2>1. Entering(a, "revoke")
    BY <1>1 DEF Entering, Steps, ChainOf
  <2>2. Entering(a, AfterRevokes(a, had))
    <3> HIDE DEF had, todo, a
    <3> QED BY <1>1, <1>2, ChainGoesOn DEF Entering
  <2> QED BY <2>1, <2>2
<1>4. job' = [job EXCEPT ![r] = [@ EXCEPT !.had = had, !.todo = todo, !.pc = p]]
  BY DEF ReplaceRead
<1> HIDE DEF had, todo, p
<1>5. job'[r] = [job[r] EXCEPT !.had = had, !.todo = todo, !.pc = p]
  BY <1>4 DEF TypeOK
<1>6. /\ job'[r] \in Busy /\ job'[r].pc = p /\ job'[r].ask = a
      /\ job'[r].had = had /\ job'[r].todo = todo /\ job'[r].code = job[r].code
  BY <1>1, <1>2, <1>3, <1>5 DEF Busy, Entering
<1>7. job' = [job EXCEPT ![r] = job'[r]] /\ \A q \in Requests \ {r} : job'[q] = job[q]
  BY <1>4 DEF TypeOK
<1> QED BY <1>2, <1>3, <1>6, <1>7 DEF had, todo, p

LEMMA RevokeFinds ==
  ASSUME TypeOK, NEW r \in Requests, ~IsIdle(r), OnItsChain(job[r]),
         NEW c \in Codes, RevokeFind(r, c), ~Refuse(r)
  PROVE  LET a == job[r].ask
             p == IF a.op = "revoke" /\ ~a.confirm THEN "count" ELSE "unset"
         IN  /\ c \in job[r].todo /\ c \in live[a.user]
             /\ job' = [job EXCEPT ![r] = job'[r]]
             /\ \A q \in Requests \ {r} : job'[q] = job[q]
             /\ Entering(a, p) /\ job'[r] \in Busy
             /\ job'[r].pc = p /\ job'[r].ask = a /\ job'[r].code = c
             /\ job'[r].had = job[r].had /\ job'[r].todo = job[r].todo \ {c}
<1> DEFINE a == job[r].ask
           p == IF a.op = "revoke" /\ ~a.confirm THEN "count" ELSE "unset"
           todo == job[r].todo \ {c}
<1>1. /\ a.op \in {"update", "remove", "revoke"} /\ a.role # Keep
      /\ job[r] \in Busy /\ todo \in SUBSET Codes
  BY AtStep DEF RevokeFind, At, OnItsChain
<1>2. Entering(a, p)
  BY <1>1 DEF Entering, Steps, ChainOf
<1>3. /\ job' = [job EXCEPT ![r] = [@ EXCEPT !.code = c, !.todo = todo, !.pc = p]]
      /\ c \in job[r].todo /\ c \in live[a.user]
  BY DEF RevokeFind
<1> HIDE DEF todo, p
<1>4. job'[r] = [job[r] EXCEPT !.code = c, !.todo = todo, !.pc = p]
  BY <1>3 DEF TypeOK
<1>5. /\ job'[r] \in Busy /\ job'[r].pc = p /\ job'[r].ask = a
      /\ job'[r].had = job[r].had /\ job'[r].todo = todo /\ job'[r].code = c
  BY <1>1, <1>2, <1>4 DEF Busy, Entering
<1>6. job' = [job EXCEPT ![r] = job'[r]] /\ \A q \in Requests \ {r} : job'[q] = job[q]
  BY <1>3 DEF TypeOK
<1> QED BY <1>2, <1>3, <1>5, <1>6 DEF todo, p

LEMMA ChainStep ==
  ASSUME TypeOK, NEW r \in Requests, ~IsIdle(r) => OnItsChain(job[r]), Step(r)
  PROVE  ~IsIdle(r) /\ Continues(r)
<1> DEFINE a == job[r].ask
<1>1. ~IsIdle(r)
  BY DEF Step, IsIdle, At, CreateLookup, CreateAccount, CreateEnrol, UpdateAssert,
         UpdateAccount, RemoveAssert, ReplaceRead, Close, RemoveLeave, AssignFind,
         AssignUpsert, RevokeFind, RevokeCount, RevokeUnset, FoundSlug, FoundInsert,
         FoundProvision, AttachAccount, AttachJoin, Reply, Fail
<1>2. OnItsChain(job[r]) /\ a \in Asked
  BY <1>1, AtStep
<1> SUFFICES Continues(r)
  BY <1>1
<1>3. CASE Refuse(r)
  BY <1>3, RefuseContinues
<1>4. ASSUME NEW p, To(r, p), Entering(a, p)
      PROVE  Continues(r)
  BY <1>1, <1>4, ToContinues
<1>6. CASE CreateLookup(r)
  <2>1. Entering(a, "account")
    BY <1>1, <1>2, <1>6, AtStep DEF CreateLookup, At, Entering, Steps, ChainOf
  <2> QED BY <1>3, <1>4, <1>6, <2>1 DEF CreateLookup
<1>7. CASE CreateAccount(r)
  <2>1. Entering(a, "enrol")
    BY <1>1, <1>2, <1>7, AtStep DEF CreateAccount, At, Entering, Steps, ChainOf
  <2> QED BY <1>4, <1>7, <2>1 DEF CreateAccount
<1>8. CASE CreateEnrol(r)
  <2>1. a.op = "create" /\ a.role \in Codes \union {None}
    BY <1>1, <1>2, <1>8, AtStep, AskByOp DEF CreateEnrol, At
  <2>2. Entering(a, "reply") /\ (a.role # None => Entering(a, "assign"))
    BY <2>1 DEF Entering, Steps, ChainOf
  <2> QED BY <1>4, <1>8, <2>2 DEF CreateEnrol
<1>9. CASE UpdateAssert(r)
  <2>1. Entering(a, "update")
    BY <1>1, <1>2, <1>9, AtStep DEF UpdateAssert, At, Entering, Steps, ChainOf
  <2> QED BY <1>3, <1>4, <1>9, <2>1 DEF UpdateAssert
<1>10. CASE UpdateAccount(r)
  <2>1. a.op = "update"
    BY <1>1, <1>2, <1>10, AtStep DEF UpdateAccount, At
  <2>2. Entering(a, AfterRole(a))
    BY <1>2, <2>1, ChainGoesOn DEF Entering
  <2>3. a.role # Keep => Entering(a, "current")
    BY <2>1 DEF Entering, Steps, ChainOf
  <2> QED BY <1>4, <1>10, <2>2, <2>3 DEF UpdateAccount
<1>11. CASE RemoveAssert(r)
  <2>1. a.op = "remove" /\ a.role = None
    BY <1>1, <1>2, <1>11, AtStep, AskByOp DEF RemoveAssert, At
  <2>2. Entering(a, "current")
    BY <2>1, CodesAssumption DEF Entering, Steps, ChainOf
  <2> QED BY <1>3, <1>4, <1>11, <2>2 DEF RemoveAssert
<1>12. CASE Close(r)
  <2>1. a.op \in {"update", "remove"}
    BY <1>1, <1>2, <1>12, AtStep DEF Close, At
  <2>2. IF a.op = "remove" THEN Entering(a, "leave") ELSE Entering(a, "reply")
    BY <2>1 DEF Entering, Steps, ChainOf
  <2> QED BY <1>4, <1>12, <2>2 DEF Close
<1>13. CASE RemoveLeave(r)
  <2>1. Entering(a, "reply")
    BY <1>1, <1>2, <1>13, AtStep DEF RemoveLeave, At, Entering, Steps, ChainOf
  <2> QED BY <1>4, <1>13, <2>1 DEF RemoveLeave
<1>14. CASE AssignFind(r)
  <2>1. Entering(a, "upsert")
    BY <1>1, <1>2, <1>14, AtStep DEF AssignFind, At, Entering, Steps, ChainOf, OnItsChain
  <2> QED BY <1>3, <1>4, <1>14, <2>1 DEF AssignFind
<1>15. CASE AssignUpsert(r)
  <2>1. a.op \in {"create", "update", "assign", "found"}
    BY <1>1, <1>2, <1>15, AtStep DEF AssignUpsert, At
  <2>2. Entering(a, AfterRole(a))
    BY <1>2, <2>1, ChainGoesOn DEF Entering
  <2> QED BY <1>4, <1>15, <2>2 DEF AssignUpsert
<1>16. CASE RevokeCount(r)
  <2>1. a.op = "revoke" /\ a.role = None
    BY <1>1, <1>2, <1>16, AtStep, AskByOp DEF RevokeCount, At
  <2>2. Entering(a, "unset")
    BY <2>1, CodesAssumption DEF Entering, Steps, ChainOf
  <2> QED BY <1>3, <1>4, <1>16, <2>2 DEF RevokeCount
<1>17. CASE RevokeUnset(r)
  <2>1. /\ a.op \in {"update", "remove", "revoke"} /\ a.role # Keep
        /\ job[r].had \in SUBSET Codes
    BY <1>1, <1>2, <1>17, AtStep DEF RevokeUnset, At, OnItsChain
  <2>2. Entering(a, "revoke")
    BY <2>1 DEF Entering, Steps, ChainOf
  <2>3. Entering(a, AfterRevokes(a, job[r].had))
    BY <1>2, <2>1, ChainGoesOn DEF Entering
  <2> QED BY <1>4, <1>17, <2>2, <2>3 DEF RevokeUnset
<1>18. CASE FoundSlug(r) \/ FoundInsert(r) \/ FoundProvision(r) \/ AttachAccount(r)
  <2>1. a.op = "found"
    BY <1>1, <1>2, <1>18, AtStep
       DEF FoundSlug, FoundInsert, FoundProvision, AttachAccount, At
  <2>2. \A p \in {"insert", "provision", "attach", "join"} : Entering(a, p)
    BY <2>1 DEF Entering, Steps, ChainOf
  <2> QED BY <1>3, <1>4, <1>18, <2>2
             DEF FoundSlug, FoundInsert, FoundProvision, AttachAccount
<1>19. CASE AttachJoin(r)
  <2>1. a.op = "found" /\ a.role = Admin
    BY <1>1, <1>2, <1>19, AtStep, AskByOp DEF AttachJoin, At
  <2>2. Entering(a, "assign")
    BY <2>1, CodesAssumption DEF Entering, Steps, ChainOf
  <2> QED BY <1>4, <1>19, <2>2 DEF AttachJoin
<1>20. CASE Reply(r) \/ Fail(r)
  BY <1>3, <1>20 DEF Reply, Fail
<1>21. CASE ReplaceRead(r)
  BY <1>1, <1>2, <1>21, ReplaceReads DEF Continues, OnItsChain, Entering
<1>22. ASSUME NEW c \in Codes, RevokeFind(r, c), ~Refuse(r)
       PROVE  Continues(r)
  BY <1>1, <1>2, <1>22, RevokeFinds DEF Continues, OnItsChain, Entering
<1> QED
  BY <1>1, <1>3, <1>6, <1>7, <1>8, <1>9, <1>10, <1>11, <1>12, <1>13, <1>14, <1>15,
     <1>16, <1>17, <1>18, <1>19, <1>20, <1>21, <1>22 DEF Step

-----------------------------------------------------------------------------
(* Every request in flight is at a step of its chain. *)
Chains == \A r \in InFlight : OnItsChain(job[r])

(* What a step writes is about the user of its request, and nothing else than   *)
(* the assignment of a role adds one, or than a removal ends a membership.    *)
StepWrites(r) ==
  /\ \A u \in Users \ {Who(r)} :
       live'[u] = live[u] /\ account'[u] = account[u] /\ (u \in member' <=> u \in member)
  /\ live'[Who(r)] \subseteq live[Who(r)] \/ AssignUpsert(r)
  /\ member \subseteq member' \/ RemoveLeave(r)
  /\ org # "none" => org' # "none"

LEMMA WritesOfStep ==
  ASSUME TypeOK, Chains, NEW r \in Requests, Step(r)
  PROVE  /\ org' \in {"none", "bare", "ready"}
         /\ account' \in [Users -> {"none", "active", "inactive"}]
         /\ member' \subseteq Users
         /\ live' \in [Users -> SUBSET Codes]
         /\ StepWrites(r)
<1>1. ~IsIdle(r) => OnItsChain(job[r])
  BY DEF Chains, InFlight
<1>2. /\ Who(r) \in Users /\ OnItsChain(job[r])
      /\ job[r].pc \in {"upsert"} => job[r].ask.role \in Codes
  BY <1>1, ChainStep, AtStep DEF OnItsChain
<1>3. CASE UNCHANGED <<org, account, member, live>>
  BY <1>3 DEF StepWrites, TypeOK
<1>4. CASE CreateAccount(r) \/ UpdateAccount(r) \/ AttachAccount(r)
  <2>1. /\ UNCHANGED <<org, member, live>>
        /\ \/ UNCHANGED account
           \/ \E x \in {"none", "active", "inactive"} : account' = [account EXCEPT ![Who(r)] = x]
    BY <1>2, <1>4 DEF CreateAccount, UpdateAccount, AttachAccount, Who, TypeOK
  <2> QED BY <1>2, <2>1 DEF StepWrites, TypeOK
<1>5. CASE CreateEnrol(r) \/ AttachJoin(r)
  <2>1. UNCHANGED <<org, account, live>> /\ member' = member \union {Who(r)}
    BY <1>5 DEF CreateEnrol, AttachJoin
  <2> QED BY <1>2, <2>1 DEF StepWrites, TypeOK
<1>6. CASE RemoveLeave(r)
  <2>1. UNCHANGED <<org, account, live>> /\ member' = member \ {Who(r)}
    BY <1>6 DEF RemoveLeave
  <2> QED BY <1>2, <1>6, <2>1 DEF StepWrites, TypeOK
<1>7. CASE AssignUpsert(r)
  <2>1. /\ UNCHANGED <<org, account, member>> /\ job[r].ask.role \in Codes
        /\ live' = [live EXCEPT ![Who(r)] = @ \union {job[r].ask.role}]
    BY <1>2, <1>7 DEF AssignUpsert, At
  <2> QED BY <1>2, <1>7, <2>1 DEF StepWrites, TypeOK
<1>8. CASE RevokeUnset(r)
  <2>1. /\ UNCHANGED <<org, account, member>>
        /\ live' = [live EXCEPT ![Who(r)] = @ \ {job[r].code}]
    BY <1>8 DEF RevokeUnset
  <2> QED BY <1>2, <2>1 DEF StepWrites, TypeOK
<1>9. CASE FoundInsert(r) \/ FoundProvision(r)
  <2>1. UNCHANGED <<account, member, live>> /\ org' \in {"bare", "ready"}
    BY <1>9 DEF FoundInsert, FoundProvision
  <2> QED BY <2>1 DEF StepWrites, TypeOK
<1> QED
  BY <1>3, <1>4, <1>5, <1>6, <1>7, <1>8, <1>9
     DEF Step, Stay, CreateLookup, UpdateAssert, RemoveAssert, ReplaceRead, Close,
         AssignFind, RevokeFind, RevokeCount, FoundSlug, Reply, Fail

(* A request that arrives is at the first call of its chain. *)
LEMMA ArriveMoves ==
  ASSUME TypeOK, NEW r \in Requests, NEW a \in Asked, Arrive(r, a)
  PROVE  /\ IsIdle(r)
         /\ job' = [job EXCEPT ![r] = job'[r]]
         /\ \A q \in Requests \ {r} : job'[q] = job[q]
         /\ job'[r] \in Busy /\ job'[r].ask = a /\ job'[r].had = {}
         /\ job'[r].pc = FirstCall(a)
         /\ job'[r].todo = IF a.op = "revoke" THEN {a.code} ELSE {}
         /\ OnItsChain(job'[r])
<1> DEFINE todo == IF a.op = "revoke" THEN {a.code} ELSE {}
           j == [pc |-> FirstCall(a), ask |-> a, had |-> {}, todo |-> todo, code |-> None]
<1>1. /\ a.op \in Ops
      /\ a.op = "assign" => a.role \in Codes
      /\ a.op = "revoke" => a.role = None /\ a.code \in Codes
  BY AskByOp
<1>2. todo \in SUBSET Codes
  BY <1>1
<1>3. FirstCall(a) \in Steps \cap ChainOf(a.op)
  BY <1>1 DEF FirstCall, ChainOf, Ops, Steps
<1>4. j \in Busy
  BY <1>2, <1>3 DEF Busy
<1>5. OnItsChain(j)
  BY <1>1, <1>3, CodesAssumption DEF OnItsChain, FirstCall, ChainOf, Ops
<1>6. job' = [job EXCEPT ![r] = j] /\ IsIdle(r)
  BY DEF Arrive
<1>7. j.pc = FirstCall(a) /\ j.ask = a /\ j.had = {} /\ j.todo = todo
  OBVIOUS
<1> HIDE DEF j
<1>8. /\ job'[r] = j /\ job' = [job EXCEPT ![r] = job'[r]]
      /\ \A q \in Requests \ {r} : job'[q] = job[q]
  BY <1>6 DEF TypeOK
<1> QED BY <1>4, <1>5, <1>6, <1>7, <1>8

(* The arrival of a request, as in Next. *)
Arrival(r, a) ==
  /\ Arrive(r, a) /\ UNCHANGED open
  /\ calm' = (calm /\ InFlight = {})
  /\ raced' = IF \E q \in InFlight : /\ Who(q) = a.user
                                    /\ "remove" \in {a.op, job[q].ask.op}
              THEN raced \union {a.user} ELSE raced
  /\ direct' = IF a.op = "assign" THEN direct \union {a.user} ELSE direct

(* The three kinds of steps: an arrival, a call of a request, and one that     *)
(* moves neither requests nor roles.                                         *)
LEMMA StepKinds ==
  ASSUME [Next]_vars
  PROVE  \/ \E r \in Requests, a \in Asked : Arrival(r, a)
         \/ \E r \in Requests : Step(r) /\ UNCHANGED <<open, calm, raced, direct>>
         \/ \E u \in Users : Evaluate(u)
         \/ UNCHANGED vars
  BY DEF Next, Arrival

(* Rows, roles and jobs keep their types, and every request its chain. *)
LEMMA TypedStep ==
  ASSUME TypeOK, Chains, [Next]_vars
  PROVE  TypeOK' /\ Chains'
<1>1. ASSUME NEW r \in Requests, job' = [job EXCEPT ![r] = job'[r]],
             \A q \in Requests \ {r} : job'[q] = job[q],
             job'[r] = Idle \/ (job'[r] \in Busy /\ OnItsChain(job'[r]))
      PROVE  job' \in [Requests -> Jobs] /\ Chains'
  <2>1. job'[r] \in Jobs
    BY <1>1 DEF Jobs, Busy, Steps
  <2>2. job' \in [Requests -> Jobs]
    BY <1>1, <2>1 DEF TypeOK
  <2>3. ASSUME NEW q \in Requests, job'[q].pc # "idle"
        PROVE  OnItsChain(job'[q])
    BY <1>1, <2>3 DEF Chains, InFlight, IsIdle, Idle
  <2>4. Chains'
    BY <2>3 DEF Chains, InFlight, IsIdle, OnItsChain
  <2> QED BY <2>2, <2>4
<1>2. ASSUME NEW r \in Requests, NEW a \in Asked, Arrival(r, a)
      PROVE  TypeOK' /\ Chains'
  <2>1. Arrive(r, a)
    BY <1>2 DEF Arrival
  <2>2. job' \in [Requests -> Jobs] /\ Chains'
    BY <1>1, <2>1, ArriveMoves
  <2>3. a.user \in Users
    BY AskByOp
  <2>4. raced' \subseteq Users /\ direct' \subseteq Users /\ calm' \in BOOLEAN
    BY <1>2, <2>3 DEF Arrival, TypeOK
  <2>5. UNCHANGED <<org, account, member, live, open>>
    BY <1>2, <2>1 DEF Arrival, Arrive, Stay
  <2> QED BY <2>2, <2>4, <2>5 DEF TypeOK
<1>3. ASSUME NEW r \in Requests, Step(r), UNCHANGED <<open, calm, raced, direct>>
      PROVE  TypeOK' /\ Chains'
  <2>1. Continues(r)
    BY <1>3, ChainStep DEF Chains, InFlight
  <2>2. job' \in [Requests -> Jobs] /\ Chains'
    BY <1>1, <2>1 DEF Continues
  <2> QED BY <1>3, <2>2, WritesOfStep DEF TypeOK
<1>4. CASE UNCHANGED job /\ UNCHANGED <<org, account, member, live, raced, direct>>
             /\ open' \subseteq Users /\ calm' \in BOOLEAN
  BY <1>4 DEF TypeOK, Chains, InFlight, IsIdle
<1>5. ASSUME NEW u \in Users, Evaluate(u)
      PROVE  TypeOK' /\ Chains'
  BY <1>4, <1>5 DEF Evaluate, Stay, TypeOK
<1>6. CASE UNCHANGED vars
  BY <1>4, <1>6 DEF vars, TypeOK
<1> QED BY <1>2, <1>3, <1>5, <1>6, StepKinds

(* Whatever is asked and fails, accounts, memberships, roles and the chains of  *)
(* the requests have their types.                                            *)
THEOREM MembersTypeCorrect == Spec => [](TypeOK /\ Chains)
<1>1. Init => TypeOK /\ Chains
  BY DEF Init, TypeOK, Jobs, Chains, InFlight, IsIdle, Idle
<1>2. TypeOK /\ Chains /\ [Next]_vars => (TypeOK /\ Chains)'
  BY TypedStep
<1> QED BY <1>1, <1>2, PTL DEF Spec

-----------------------------------------------------------------------------
(* Roles and memberships, however requests overlap.                           *)

(* The users the promise is about. *)
Watched(u) == u \notin direct \union raced

(* A removal that overlaps another request about the same user was noted, and  *)
(* so was a role given directly.                                             *)
OverlapsNoted ==
  \A q, r \in InFlight :
    q # r /\ Who(q) = Who(r) /\ "remove" \in {job[q].ask.op, job[r].ask.op}
      => Who(r) \in raced
DirectNoted == \A r \in InFlight : job[r].ask.op = "assign" => Who(r) \in direct

(* A request about to give a role has found, or made, its user a member. *)
MemberFirst(r) ==
  job[r].pc \in {"assign", "upsert"} \/ (job[r].ask.op = "update" /\ job[r].pc # "assertUpdate")
    => Who(r) \in member

(* A removal knows every role it still has to take, and leaves with none. *)
RolesFirst(r) ==
  job[r].ask.op = "remove" =>
    /\ job[r].pc = "revoke" => live[Who(r)] \subseteq job[r].todo
    /\ job[r].pc = "unset" => live[Who(r)] \subseteq job[r].todo \union {job[r].code}
    /\ job[r].pc \in {"close", "leave"} => live[Who(r)] = {}

(* The inductive invariant of the memberships. *)
MembersInv ==
  /\ TypeOK /\ Chains
  /\ OverlapsNoted /\ DirectNoted
  /\ RolesOnlyForMembers
  /\ \A r \in InFlight : Watched(Who(r)) => MemberFirst(r) /\ RolesFirst(r)

(* The request that moves still follows its rule. *)
LEMMA MemberFirstStep ==
  ASSUME TypeOK, Chains, NEW r \in Requests, Step(r), MemberFirst(r), ~IsIdle(r)',
         job[r].ask.op # "assign"
  PROVE  MemberFirst(r)'
<1> DEFINE a == job[r].ask
<1>1. ~IsIdle(r) /\ OnItsChain(job[r]) /\ Continues(r)
  BY ChainStep DEF Chains, InFlight
<1>2. job'[r] \in Busy /\ job'[r].ask = a /\ OnItsChain(job'[r]) /\ a \in Asked
  BY <1>1, AtStep DEF Continues, Idle, IsIdle
<1>3. CASE a.op = "remove"
  BY <1>2, <1>3 DEF MemberFirst, OnItsChain, ChainOf
<1>4. CASE a.op = "revoke"
  BY <1>2, <1>4 DEF MemberFirst, OnItsChain, ChainOf
<1> SUFFICES ASSUME a.op \in {"create", "update", "found"},
                    job'[r].pc \in {"assign", "upsert"} \/ a.op = "update"
             PROVE  Who(r) \in member'
  BY <1>2, <1>3, <1>4, AskByOp DEF MemberFirst, Who, Ops
<1>5. CASE Who(r) \in member
  <2>1. ~RemoveLeave(r)
    BY <1>1, AtStep DEF RemoveLeave, At
  <2> QED BY <1>5, <2>1, WritesOfStep DEF StepWrites
<1>6. CASE Who(r) \notin member
  <2>1. job[r].pc \notin {"assign", "upsert"} /\ (a.op = "update" => job[r].pc = "assertUpdate")
    BY <1>6 DEF MemberFirst
  <2>2. CASE a.op = "update"
    <3>1. At(r, "assertUpdate")
      BY <2>1, <2>2 DEF At
    <3>2. UpdateAssert(r) \/ Fail(r)
      BY <3>1 DEF Step, At, CreateLookup, CreateAccount, CreateEnrol, UpdateAccount,
             RemoveAssert, ReplaceRead, Close, RemoveLeave, AssignFind, AssignUpsert,
             RevokeFind, RevokeCount, RevokeUnset, FoundSlug, FoundInsert,
             FoundProvision, AttachAccount, AttachJoin, Reply
    <3>3. Refuse(r)
      BY <1>6, <3>2 DEF UpdateAssert, Fail
    <3> QED BY <3>3, RefuseMoves DEF IsIdle, Idle
  <2>3. CASE CreateEnrol(r) \/ AttachJoin(r)
    BY <2>3 DEF CreateEnrol, AttachJoin
  <2>4. CASE a.op \in {"create", "found"} /\ ~CreateEnrol(r) /\ ~AttachJoin(r)
    <3>1. job[r].pc \in {"lookup", "account", "reply", "slug", "insert", "provision", "attach",
                         "enrol", "join"}
      BY <1>1, <2>1, <2>4 DEF OnItsChain, ChainOf
    <3>2. \/ CreateLookup(r) \/ CreateAccount(r) \/ FoundSlug(r) \/ FoundInsert(r)
          \/ FoundProvision(r) \/ AttachAccount(r) \/ Reply(r) \/ Fail(r)
      BY <2>4, <3>1 DEF Step, At, UpdateAssert, UpdateAccount,
             RemoveAssert, ReplaceRead, Close, RemoveLeave, AssignFind, AssignUpsert,
             RevokeFind, RevokeCount, RevokeUnset
    <3>3. Refuse(r) \/ \E p \in {"account", "enrol", "insert", "provision", "attach", "join"} : To(r, p)
      BY <3>2 DEF CreateLookup, CreateAccount, FoundSlug, FoundInsert, FoundProvision,
                  AttachAccount, Reply, Fail
    <3>4. job'[r].pc \notin {"assign", "upsert"}
      <4>1. CASE Refuse(r)
        BY <4>1, RefuseMoves DEF Idle
      <4>2. ASSUME NEW p \in {"account", "enrol", "insert", "provision", "attach", "join"}, To(r, p)
            PROVE  job'[r].pc = p
        <5>1. p \in Steps
          BY DEF Steps
        <5> QED BY <1>1, <4>2, <5>1, ToMoves
      <4> QED BY <3>3, <4>1, <4>2
    <3> QED BY <2>4, <3>4
  <2> QED BY <2>2, <2>3, <2>4
<1> QED BY <1>5, <1>6

(* The calls of a removal. *)
LEMMA RolesFirstStep ==
  ASSUME TypeOK, Chains, NEW r \in Requests, Step(r), RolesFirst(r), ~IsIdle(r)'
  PROVE  RolesFirst(r)'
<1> DEFINE a == job[r].ask
           u == Who(r)
<1>1. /\ ~IsIdle(r) /\ OnItsChain(job[r]) /\ Continues(r)
      /\ job[r] \in Busy /\ a \in Asked /\ u \in Users
  BY ChainStep, AtStep DEF Chains, InFlight
<1>2. job'[r] \in Busy /\ job'[r].ask = a /\ ~Refuse(r)
  BY <1>1, RefuseMoves DEF Continues, Idle, IsIdle
<1> SUFFICES ASSUME a.op = "remove"
             PROVE  /\ job'[r].pc = "revoke" => live'[u] \subseteq job'[r].todo
                    /\ job'[r].pc = "unset" => live'[u] \subseteq job'[r].todo \union {job'[r].code}
                    /\ job'[r].pc \in {"close", "leave"} => live'[u] = {}
  BY <1>2 DEF RolesFirst, Who
<1>3. a.role = None /\ live[u] \in SUBSET Codes /\ live'[u] \in SUBSET Codes
  BY <1>1, AskByOp, WritesOfStep DEF TypeOK
<1>4. AfterRole(a) = "close" /\ \A had \in SUBSET Codes : AfterRevokes(a, had) = "close"
  BY <1>3 DEF AfterRole, AfterRevokes
<1>5. job[r].pc \in {"assertRemove", "current", "revoke", "unset", "close", "leave", "reply"}
  BY <1>1 DEF OnItsChain, ChainOf
<1>6. CASE RemoveAssert(r)
  <2>1. To(r, "current")
    BY <1>2, <1>6 DEF RemoveAssert
  <2>2. job'[r].pc = "current"
    BY <1>1, <2>1, ToMoves DEF Steps
  <2> QED BY <2>2
<1>7. CASE ReplaceRead(r)
  <2>1. live'[u] = live[u]
    BY <1>7 DEF ReplaceRead, Stay
  <2>2. /\ job'[r].todo = live[u] \ {None}
        /\ job'[r].pc = IF live[u] \ {None} = {} THEN AfterRevokes(a, live[u]) ELSE "revoke"
    BY <1>1, <1>3, <1>7, ReplaceReads DEF Who
  <2>3. live[u] \ {None} = live[u]
    BY <1>3, CodesAssumption
  <2> QED BY <1>3, <1>4, <2>1, <2>2, <2>3
<1>8. ASSUME NEW c \in Codes, RevokeFind(r, c)
      PROVE  job'[r].pc = "unset" /\ live'[u] \subseteq job'[r].todo \union {job'[r].code}
  <2>1. live'[u] = live[u] /\ job[r].pc = "revoke"
    BY <1>8 DEF RevokeFind, Stay, At
  <2>2. live[u] \subseteq job[r].todo
    BY <2>1 DEF RolesFirst
  <2>3. job'[r].pc = "unset" /\ job'[r].todo = job[r].todo \ {c} /\ job'[r].code = c
    BY <1>1, <1>2, <1>8, RevokeFinds
  <2> QED BY <2>1, <2>2, <2>3
<1>9. CASE RevokeUnset(r)
  <2>1. job[r].pc = "unset" /\ live'[u] = live[u] \ {job[r].code}
    BY <1>1, <1>9 DEF RevokeUnset, At, TypeOK
  <2>2. live'[u] \subseteq job[r].todo
    BY <2>1 DEF RolesFirst
  <2>3. CASE job[r].todo # {}
    <3>1. To(r, "revoke")
      BY <1>9, <2>3 DEF RevokeUnset
    <3>2. job'[r].pc = "revoke" /\ job'[r].todo = job[r].todo
      BY <1>1, <3>1, ToMoves DEF Steps
    <3> QED BY <2>2, <3>2
  <2>4. CASE job[r].todo = {}
    <3>1. To(r, AfterRevokes(a, job[r].had)) /\ job[r].had \in SUBSET Codes
      BY <1>1, <1>9, <2>4 DEF RevokeUnset, Busy
    <3>2. To(r, "close")
      BY <1>4, <3>1
    <3>3. job'[r].pc = "close"
      BY <1>1, <3>2, ToMoves DEF Steps
    <3> QED BY <2>2, <2>4, <3>3
  <2> QED BY <2>3, <2>4
<1>10. CASE Close(r)
  <2>1. live'[u] = live[u] /\ job[r].pc = "close" /\ To(r, "leave")
    BY <1>10 DEF Close, Stay, At
  <2>2. job'[r].pc = "leave"
    BY <1>1, <2>1, ToMoves DEF Steps
  <2> QED BY <2>1, <2>2 DEF RolesFirst
<1>11. CASE RemoveLeave(r)
  <2>1. To(r, "reply")
    BY <1>11 DEF RemoveLeave
  <2>2. job'[r].pc = "reply"
    BY <1>1, <2>1, ToMoves DEF Steps
  <2> QED BY <2>2
<1> QED
  BY <1>2, <1>5, <1>6, <1>7, <1>8, <1>9, <1>10, <1>11
     DEF Step, At, CreateLookup, CreateAccount, CreateEnrol, UpdateAssert, UpdateAccount,
         AssignFind, AssignUpsert, RevokeCount, FoundSlug, FoundInsert, FoundProvision,
         AttachAccount, AttachJoin, Reply, Fail

(* Neither requests nor their failures leave a role to somebody who is no      *)
(* member, save for the two ways round it.                                   *)
LEMMA MembersStep == MembersInv /\ [Next]_vars => MembersInv'
<1> SUFFICES ASSUME MembersInv, [Next]_vars PROVE MembersInv'
  OBVIOUS
<1>1. TypeOK /\ Chains /\ OverlapsNoted /\ DirectNoted /\ RolesOnlyForMembers
  BY DEF MembersInv
<1>2. TypeOK' /\ Chains'
  BY <1>1, TypedStep
<1>3. ASSUME NEW r \in Requests, Step(r), UNCHANGED <<open, calm, raced, direct>>
      PROVE  MembersInv'
  <2> DEFINE u == Who(r)
  <2>1. /\ ~IsIdle(r) /\ OnItsChain(job[r]) /\ Continues(r)
        /\ u \in Users /\ job[r].ask.op \in Ops /\ r \in InFlight
    BY <1>1, <1>3, ChainStep, AtStep, AskByOp DEF Chains, InFlight
  <2>2. StepWrites(r)
    BY <1>1, <1>3, WritesOfStep
  <2>3. \A q \in InFlight' : q \in InFlight /\ job'[q].ask = job[q].ask /\ (q # r => job'[q] = job[q])
    BY <2>1 DEF Continues, InFlight, IsIdle, Idle
  <2>4. OverlapsNoted'
    BY <1>1, <1>3, <2>3 DEF OverlapsNoted, Who
  <2>5. DirectNoted'
    BY <1>1, <1>3, <2>3 DEF DirectNoted, Who
  <2>6. Watched(u) => MemberFirst(r) /\ RolesFirst(r) /\ job[r].ask.op # "assign"
    BY <1>1, <2>1 DEF MembersInv, DirectNoted, Watched
  <2>7. ASSUME NEW v \in Users \ (direct' \union raced'), live'[v] # {}
        PROVE  v \in member'
    <3>1. v \in Users \ (direct \union raced) /\ Watched(v)
      BY <1>3, <2>7 DEF Watched
    <3>2. CASE v # u
      BY <1>1, <2>2, <2>7, <3>1, <3>2 DEF StepWrites, RolesOnlyForMembers
    <3>3. CASE v = u /\ AssignUpsert(r)
      <4>1. v \in member
        BY <2>6, <3>1, <3>3 DEF AssignUpsert, At, MemberFirst
      <4> QED BY <3>3, <4>1 DEF AssignUpsert
    <3>4. CASE v = u /\ RemoveLeave(r)
      <4>1. job[r].ask.op = "remove" /\ job[r].pc = "leave"
        BY <1>1, <2>1, <3>4, AtStep DEF RemoveLeave, At
      <4>2. live[v] = {}
        BY <2>6, <3>1, <3>4, <4>1 DEF RolesFirst
      <4> QED BY <2>7, <3>4, <4>2 DEF RemoveLeave
    <3>5. CASE v = u /\ ~AssignUpsert(r) /\ ~RemoveLeave(r)
      BY <1>1, <2>2, <2>7, <3>1, <3>5 DEF StepWrites, RolesOnlyForMembers
    <3> QED BY <3>2, <3>3, <3>4, <3>5
  <2>8. ASSUME NEW q \in InFlight', Watched(Who(q))'
        PROVE  MemberFirst(q)' /\ RolesFirst(q)'
    <3>1. q \in Requests /\ q \in InFlight /\ ~IsIdle(q)' /\ Watched(Who(q)) /\ OnItsChain(job[q])
      BY <1>1, <1>3, <2>3, <2>8 DEF InFlight, Watched, Who, Chains
    <3>2. MemberFirst(q) /\ RolesFirst(q)
      BY <3>1 DEF MembersInv
    <3>3. CASE q = r
      BY <1>1, <1>3, <2>6, <3>1, <3>2, <3>3, MemberFirstStep, RolesFirstStep
    <3>4. CASE q # r
      <4>1. job'[q] = job[q] /\ Who(q) \in Users
        BY <1>1, <2>3, <2>8, <3>1, <3>4, AtStep DEF InFlight
      <4>2. CASE Who(q) # u
        <5>1. live'[Who(q)] = live[Who(q)] /\ (Who(q) \in member' <=> Who(q) \in member)
          BY <2>2, <4>1, <4>2 DEF StepWrites
        <5> QED BY <3>2, <4>1, <5>1 DEF MemberFirst, RolesFirst, Who
      <4>3. CASE Who(q) = u
        <5>1. job[q].ask.op # "remove" /\ job[r].ask.op # "remove"
          BY <1>1, <2>1, <3>1, <3>4, <4>3 DEF OverlapsNoted, Watched
        <5>2. ~RemoveLeave(r)
          BY <1>1, <2>1, <5>1, AtStep DEF RemoveLeave, At
        <5>3. member \subseteq member'
          BY <2>2, <5>2 DEF StepWrites
        <5> QED BY <3>2, <4>1, <5>1, <5>3 DEF MemberFirst, RolesFirst, Who
      <4> QED BY <4>2, <4>3
    <3> QED BY <3>3, <3>4
  <2> QED BY <1>2, <2>4, <2>5, <2>7, <2>8 DEF MembersInv, RolesOnlyForMembers
<1>4. ASSUME NEW r \in Requests, NEW a \in Asked, Arrival(r, a)
      PROVE  MembersInv'
  <2>1. Arrive(r, a) /\ UNCHANGED <<org, account, member, live>>
    BY <1>4 DEF Arrival, Arrive, Stay
  <2>2. /\ IsIdle(r) /\ \A q \in Requests \ {r} : job'[q] = job[q]
        /\ job'[r].ask = a /\ job'[r].pc = FirstCall(a)
    BY <1>1, <2>1, ArriveMoves
  <2>3. raced \subseteq raced' /\ direct \subseteq direct'
    BY <1>4 DEF Arrival
  <2>4. \A q \in InFlight' \ {r} : q \in InFlight /\ job'[q] = job[q]
    BY <2>2 DEF InFlight, IsIdle
  <2>5. OverlapsNoted'
    <3> SUFFICES ASSUME NEW p \in InFlight', NEW q \in InFlight', p # q,
                        job'[p].ask.user = job'[q].ask.user,
                        "remove" \in {job'[p].ask.op, job'[q].ask.op}
                 PROVE  job'[q].ask.user \in raced'
      BY DEF OverlapsNoted, Who
    <3>1. CASE p # r /\ q # r
      BY <1>1, <2>3, <2>4, <3>1 DEF OverlapsNoted, Who
    <3>2. CASE p = r \/ q = r
      <4>1. PICK s \in InFlight : Who(s) = a.user /\ "remove" \in {a.op, job[s].ask.op}
        BY <2>2, <2>4, <3>2 DEF Who
      <4>2. a.user \in raced'
        BY <1>4, <4>1 DEF Arrival
      <4> QED BY <2>2, <3>2, <4>2
    <3> QED BY <3>1, <3>2
  <2>6. DirectNoted'
    <3> SUFFICES ASSUME NEW q \in InFlight', job'[q].ask.op = "assign"
                 PROVE  job'[q].ask.user \in direct'
      BY DEF DirectNoted, Who
    <3>1. CASE q = r
      BY <1>4, <2>2, <3>1 DEF Arrival
    <3>2. CASE q # r
      BY <1>1, <2>3, <2>4, <3>2 DEF DirectNoted, Who
    <3> QED BY <3>1, <3>2
  <2>7. RolesOnlyForMembers'
    BY <1>1, <2>1, <2>3 DEF RolesOnlyForMembers
  <2>8. ASSUME NEW q \in InFlight', Watched(Who(q))'
        PROVE  MemberFirst(q)' /\ RolesFirst(q)'
    <3>1. CASE q = r
      <4>1. a.op \in Ops
        BY AskByOp
      <4>2. a.op # "assign"
        BY <1>4, <2>2, <2>8, <3>1 DEF Arrival, Watched, Who
      <4> QED BY <2>2, <3>1, <4>1, <4>2 DEF FirstCall, MemberFirst, RolesFirst, Who, Ops
    <3>2. CASE q # r
      <4>1. q \in InFlight /\ job'[q] = job[q] /\ Watched(Who(q))
        BY <2>3, <2>4, <2>8, <3>2 DEF Watched, Who
      <4> QED BY <2>1, <4>1 DEF MembersInv, MemberFirst, RolesFirst, Who
    <3> QED BY <3>1, <3>2
  <2> QED BY <1>2, <2>5, <2>6, <2>7, <2>8 DEF MembersInv
<1>5. CASE UNCHANGED <<org, account, member, live, job, raced, direct>>
  BY <1>1, <1>2, <1>5
     DEF MembersInv, OverlapsNoted, DirectNoted, RolesOnlyForMembers, Watched,
         MemberFirst, RolesFirst, InFlight, IsIdle, Who
<1>6. ASSUME NEW u \in Users, Evaluate(u)
      PROVE  MembersInv'
  BY <1>5, <1>6 DEF Evaluate, Stay
<1>7. CASE UNCHANGED vars
  BY <1>5, <1>7 DEF vars
<1> QED BY <1>3, <1>4, <1>6, <1>7, StepKinds

(* The roles go before the membership and come after it, in every overlap and  *)
(* after every failure: only members hold roles.                             *)
LEMMA MembersInvariant == Spec => []MembersInv
<1>1. Init => MembersInv
  <2> SUFFICES ASSUME Init PROVE MembersInv
    OBVIOUS
  <2>1. TypeOK
    BY DEF Init, TypeOK, Jobs
  <2>2. InFlight = {}
    BY DEF Init, InFlight, IsIdle, Idle
  <2>3. RolesOnlyForMembers
    BY DEF Init, RolesOnlyForMembers
  <2> QED BY <2>1, <2>2, <2>3 DEF MembersInv, Chains, OverlapsNoted, DirectNoted
<1> QED BY <1>1, MembersStep, PTL DEF Spec

(* At every moment, whatever requests overlap or fail, only a member holds a   *)
(* role: except a user some request gave a role directly, or whose removal     *)
(* raced another request about that user.                                     *)
THEOREM OnlyMembersHoldRoles == Spec => []RolesOnlyForMembers
  BY MembersInvariant, PTL DEF MembersInv

-----------------------------------------------------------------------------
(* What holds while requests come one at a time.                              *)

(* What each chain has done by each of its steps. *)
CreateProgress(r) ==
  LET u == Who(r) pc == job[r].pc IN
  /\ pc = "account" => u \notin member
  /\ pc \in {"enrol", "assign", "upsert"} => account[u] = "active"
  /\ pc \in {"assign", "upsert"} => u \in member
  /\ pc \in {"account", "enrol", "assign", "upsert"} /\ u \notin direct => live[u] = {}

(* The roles still to be revoked, and the one that stays. *)
Replacing(r) ==
  LET u == Who(r) a == job[r].ask had == job[r].had todo == job[r].todo IN
  /\ job[r].pc \in {"revoke", "unset"} => a.role \notin todo
  /\ job[r].pc = "revoke" => live[u] = todo \union (had \cap {a.role})
  /\ job[r].pc = "unset" => /\ live[u] = todo \union {job[r].code} \union (had \cap {a.role})
                            /\ job[r].code # a.role /\ job[r].code \notin todo

UpdateProgress(r) ==
  LET u == Who(r) a == job[r].ask pc == job[r].pc IN
  /\ pc \notin {"assertUpdate", "update"} /\ a.active = FALSE => account[u] = "inactive"
  /\ pc \in {"assign", "upsert"} => live[u] = {}
  /\ pc = "close" /\ a.role # Keep => live[u] = {a.role} \ {None}
  /\ Replacing(r)

RemoveProgress(r) ==
  /\ job[r].pc \in {"close", "leave"} => live[Who(r)] = {}
  /\ Replacing(r)

RevokeProgress(r) ==
  LET a == job[r].ask pc == job[r].pc IN
  /\ pc = "revoke" => job[r].todo = {a.code}
  /\ pc \in {"count", "unset"} => job[r].todo = {} /\ job[r].code = a.code
  /\ pc = "unset" => a.confirm \/ a.user \notin open

FoundProgress(r) ==
  LET u == Who(r) pc == job[r].pc IN
  /\ pc \in {"attach", "join", "assign", "upsert"} => org = "ready"
  /\ pc \in {"assign", "upsert"} => u \in member
  /\ pc \in {"provision", "attach", "join", "assign", "upsert"} => live[u] = {}

Answered(r) == At(r, "reply") => Promised(job[r].ask)

Progress(r) ==
  /\ job[r].ask.op = "create" => CreateProgress(r)
  /\ job[r].ask.op = "update" => UpdateProgress(r)
  /\ job[r].ask.op = "remove" => RemoveProgress(r)
  /\ job[r].ask.op = "revoke" => RevokeProgress(r)
  /\ job[r].ask.op = "found" => FoundProgress(r)
  /\ Answered(r)

(* The call that a request makes at a step, when it goes on. *)
LEMMA CallAt ==
  ASSUME TypeOK, NEW r \in Requests, Step(r), ~IsIdle(r)'
  PROVE  /\ ~Refuse(r)
         /\ job[r].pc = "lookup" => CreateLookup(r)
         /\ job[r].pc = "account" => CreateAccount(r)
         /\ job[r].pc = "enrol" => CreateEnrol(r)
         /\ job[r].pc = "assertUpdate" => UpdateAssert(r)
         /\ job[r].pc = "update" => UpdateAccount(r)
         /\ job[r].pc = "assertRemove" => RemoveAssert(r)
         /\ job[r].pc = "current" => ReplaceRead(r)
         /\ job[r].pc = "close" => Close(r)
         /\ job[r].pc = "leave" => RemoveLeave(r)
         /\ job[r].pc = "assign" => AssignFind(r)
         /\ job[r].pc = "upsert" => AssignUpsert(r)
         /\ job[r].pc = "revoke" => \E c \in Codes : RevokeFind(r, c)
         /\ job[r].pc = "count" => RevokeCount(r)
         /\ job[r].pc = "unset" => RevokeUnset(r)
         /\ job[r].pc = "slug" => FoundSlug(r)
         /\ job[r].pc = "insert" => FoundInsert(r)
         /\ job[r].pc = "provision" => FoundProvision(r)
         /\ job[r].pc = "attach" => AttachAccount(r)
         /\ job[r].pc = "join" => AttachJoin(r)
         /\ job[r].pc # "reply"
<1>1. ~Refuse(r)
  BY RefuseMoves DEF IsIdle, Idle
<1>2. ~Fail(r) /\ ~Reply(r)
  BY <1>1 DEF Fail, Reply
<1>3. ~IsIdle(r) => job[r].pc # "idle"
  BY DEF IsIdle
<1> QED
  BY <1>1, <1>2
     DEF Step, At, CreateLookup, CreateAccount, CreateEnrol, UpdateAssert,
         UpdateAccount, RemoveAssert, ReplaceRead, Close, RemoveLeave, AssignFind,
         AssignUpsert, RevokeFind, RevokeCount, RevokeUnset, FoundSlug, FoundInsert,
         FoundProvision, AttachAccount, AttachJoin

(* The creation of a member. *)
LEMMA CreateGoesOn ==
  ASSUME TypeOK, Chains, NEW r \in Requests, Step(r), ~IsIdle(r)', UNCHANGED direct,
         job[r].ask.op = "create", CreateProgress(r),
         Who(r) \notin member \union direct => live[Who(r)] = {}
  PROVE  CreateProgress(r)' /\ Answered(r)'
<1> DEFINE a == job[r].ask
           u == Who(r)
<1>1. /\ ~IsIdle(r) /\ OnItsChain(job[r]) /\ Continues(r)
      /\ a \in Asked /\ u \in Users /\ a.role \in Codes \union {None}
  BY ChainStep, AtStep, AskByOp DEF Chains, InFlight
<1>2. job'[r].ask = a /\ job'[r].ask.user = u
  BY <1>1 DEF Continues, IsIdle, Idle, Who
<1>3. job[r].pc \in {"lookup", "account", "enrol", "assign", "upsert"}
  BY <1>1, CallAt DEF OnItsChain, ChainOf
<1>4. CASE job[r].pc = "lookup"
  <2>1. To(r, "account") /\ u \notin member /\ UNCHANGED <<account, member, live>>
    BY <1>4, CallAt DEF CreateLookup, Stay
  <2>2. job'[r].pc = "account"
    BY <1>1, <2>1, ToMoves DEF Steps
  <2> QED BY <1>2, <2>1, <2>2 DEF CreateProgress, Answered, At, Who
<1>5. CASE job[r].pc = "account"
  <2>1. To(r, "enrol") /\ account'[u] = "active" /\ UNCHANGED <<member, live>>
    BY <1>1, <1>5, CallAt DEF CreateAccount, TypeOK
  <2>2. job'[r].pc = "enrol"
    BY <1>1, <2>1, ToMoves DEF Steps
  <2> QED BY <1>2, <1>5, <2>1, <2>2 DEF CreateProgress, Answered, At, Who
<1>6. CASE job[r].pc = "enrol"
  <2>1. /\ To(r, IF a.role = None THEN "reply" ELSE "assign")
        /\ u \in member' /\ UNCHANGED <<account, live>>
    BY <1>6, CallAt DEF CreateEnrol
  <2>2. job'[r].pc = IF a.role = None THEN "reply" ELSE "assign"
    BY <1>1, <2>1, ToMoves DEF Steps
  <2> QED BY <1>2, <1>6, <2>1, <2>2 DEF CreateProgress, Answered, At, Who, Promised
<1>7. CASE job[r].pc = "assign"
  <2>1. To(r, "upsert") /\ UNCHANGED <<account, member, live>>
    BY <1>7, CallAt DEF AssignFind, Stay
  <2>2. job'[r].pc = "upsert"
    BY <1>1, <2>1, ToMoves DEF Steps
  <2> QED BY <1>2, <1>7, <2>1, <2>2 DEF CreateProgress, Answered, At, Who
<1>8. CASE job[r].pc = "upsert"
  <2>1. AfterRole(a) = "reply"
    BY DEF AfterRole
  <2>2. /\ To(r, "reply") /\ UNCHANGED <<account, member>>
        /\ live'[u] = live[u] \union {a.role}
    BY <1>1, <1>8, <2>1, CallAt DEF AssignUpsert, TypeOK
  <2>3. job'[r].pc = "reply"
    BY <1>1, <2>2, ToMoves DEF Steps
  <2> QED BY <1>2, <1>8, <2>2, <2>3 DEF CreateProgress, Answered, At, Who, Promised
<1> QED BY <1>3, <1>4, <1>5, <1>6, <1>7, <1>8

(* Where the end of the revocations leads, for the roles that were there. *)
LEMMA AfterRevokesLeads ==
  ASSUME NEW a \in Asked, NEW had \in SUBSET Codes, NEW p, p = AfterRevokes(a, had),
         a.op \in {"update", "remove", "revoke"}, a.role # Keep
  PROVE  /\ p \in Steps /\ p \in {"assign", "close", "reply"}
         /\ p = "assign" => had \cap {a.role} = {}
         /\ p # "assign" => had \cap {a.role} = {a.role} \ {None}
<1>1. /\ p \in Steps /\ p \in {"assign", "close", "reply"}
      /\ p = "assign" => a.role \notin had
      /\ p # "assign" => a.role = None \/ a.role \in had
  BY ChainGoesOn
<1>2. None \notin had
  BY CodesAssumption
<1> QED BY <1>1, <1>2

(* replaceRole: what it has read and not yet revoked is what there is, and     *)
(* when it is done the role asked for is the only one left, or none is.      *)
LEMMA ReplacingGoesOn ==
  ASSUME TypeOK, Chains, NEW r \in Requests, Step(r), ~IsIdle(r)',
         job[r].ask.op \in {"update", "remove"}, Replacing(r)
  PROVE  /\ Replacing(r)'
         /\ job[r].pc \in {"current", "revoke", "unset"} =>
              /\ UNCHANGED <<account, member>>
              /\ job'[r].pc \in {"revoke", "unset", "assign", "close", "reply"}
              /\ job'[r].pc = "assign" => live'[Who(r)] = {}
              /\ job'[r].pc \in {"close", "reply"} =>
                   live'[Who(r)] = {job[r].ask.role} \ {None}
<1> DEFINE a == job[r].ask
           u == Who(r)
<1>1. /\ ~IsIdle(r) /\ OnItsChain(job[r]) /\ Continues(r)
      /\ a \in Asked /\ u \in Users /\ job[r] \in Busy
      /\ a.role \in Codes \union {None, Keep}
      /\ job[r].had \in SUBSET Codes /\ job[r].todo \in SUBSET Codes
  BY ChainStep, AtStep, AskByOp DEF Chains, InFlight
<1>2. job'[r].ask = a /\ job'[r].ask.user = u
  BY <1>1 DEF Continues, IsIdle, Idle, Who
<1>3. \A had \in SUBSET Codes : None \notin had /\ Keep \notin had
  BY CodesAssumption
<1>4. CASE job[r].pc = "current"
  <2>1. ReplaceRead(r) /\ UNCHANGED <<account, member, live>>
    BY <1>4, CallAt DEF ReplaceRead, Stay
  <2> DEFINE had == live[u]
             todo == had \ {a.role}
  <2>2. /\ had \in SUBSET Codes /\ job'[r].had = had /\ job'[r].todo = todo
        /\ job'[r].pc = IF todo = {} THEN AfterRevokes(a, had) ELSE "revoke"
    BY <1>1, <2>1, ReplaceReads DEF Who
  <2>3. a.role # Keep
    BY <1>1, <1>4 DEF OnItsChain
  <2>4. live'[u] = had
    BY <2>1
  <2> HIDE DEF had
  <2>5. CASE todo # {}
    <3>1. job'[r].pc = "revoke" /\ live'[u] = todo \union (had \cap {a.role})
      BY <2>2, <2>4, <2>5
    <3> QED BY <1>2, <2>1, <2>2, <3>1 DEF Replacing, Who
  <2>6. CASE todo = {}
    <3>1. job'[r].pc = AfterRevokes(a, had) /\ had \subseteq {a.role}
      BY <2>2, <2>6
    <3>2. /\ job'[r].pc \in {"assign", "close", "reply"}
          /\ job'[r].pc = "assign" => had \cap {a.role} = {}
          /\ job'[r].pc # "assign" => had \cap {a.role} = {a.role} \ {None}
      BY <1>1, <2>2, <2>3, <3>1, AfterRevokesLeads
    <3>3. had \cap {a.role} = had
      BY <3>1
    <3> QED BY <1>2, <2>1, <2>4, <3>2, <3>3 DEF Replacing
  <2> QED BY <2>5, <2>6
<1>5. CASE job[r].pc = "revoke"
  <2>1. PICK c \in Codes : RevokeFind(r, c)
    BY <1>5, CallAt
  <2>2. /\ UNCHANGED <<account, member, live>> /\ c \in job[r].todo
        /\ job'[r].pc = "unset" /\ job'[r].code = c
        /\ job'[r].had = job[r].had /\ job'[r].todo = job[r].todo \ {c}
    BY <1>1, <2>1, CallAt, RevokeFinds DEF RevokeFind, Stay
  <2>3. a.role \notin job[r].todo /\ live[u] = job[r].todo \union (job[r].had \cap {a.role})
    BY <1>5 DEF Replacing
  <2>4. /\ a.role \notin job'[r].todo /\ job'[r].code # a.role
        /\ live'[u] = job'[r].todo \union {job'[r].code} \union (job'[r].had \cap {a.role})
    BY <2>2, <2>3
  <2> QED BY <1>2, <1>5, <2>2, <2>4 DEF Replacing, Who
<1>6. CASE job[r].pc = "unset"
  <2> DEFINE had == job[r].had
             todo == job[r].todo
             p == IF todo # {} THEN "revoke" ELSE AfterRevokes(a, had)
  <2>1. /\ UNCHANGED <<account, member>> /\ live'[u] = live[u] \ {job[r].code}
        /\ To(r, p)
    BY <1>1, <1>6, CallAt DEF RevokeUnset, TypeOK
  <2>2. a.role # Keep
    BY <1>1, <1>6 DEF OnItsChain
  <2>3. /\ a.role \notin todo /\ job[r].code # a.role /\ job[r].code \notin todo
        /\ live[u] = todo \union {job[r].code} \union (had \cap {a.role})
    BY <1>6 DEF Replacing
  <2>4. live'[u] = todo \union (had \cap {a.role})
    <3> DEFINE code == job[r].code
               stay == had \cap {a.role}
    <3>1. live'[u] = (todo \union {code} \union stay) \ {code}
      BY <2>1, <2>3
    <3>2. code \notin todo /\ code \notin stay
      BY <2>3
    <3>3. live'[u] = todo \union stay
      <4> HIDE DEF code, stay, todo
      <4> QED BY <3>1, <3>2
    <3> QED BY <3>3
  <2>5. /\ p \in Steps /\ p \in {"revoke", "assign", "close", "reply"}
        /\ p = "assign" => had \cap {a.role} = {} /\ todo = {}
        /\ p \in {"close", "reply"} => had \cap {a.role} = {a.role} \ {None} /\ todo = {}
    <3>1. CASE todo # {}
      BY <3>1 DEF Steps
    <3>2. CASE todo = {}
      BY <1>1, <2>2, <3>2, AfterRevokesLeads
    <3> QED BY <3>1, <3>2
  <2>6. job'[r].pc = p /\ job'[r].todo = todo /\ job'[r].had = had
    <3> HIDE DEF p
    <3> QED BY <1>1, <2>1, <2>5, ToMoves
  <2>7. Replacing(r)'
    BY <1>2, <2>3, <2>4, <2>5, <2>6 DEF Replacing, Who
  <2>8. /\ p = "assign" => live'[u] = {}
        /\ p \in {"close", "reply"} => live'[u] = {a.role} \ {None}
    <3> HIDE DEF p, had, todo
    <3> QED BY <2>4, <2>5
  <2> HIDE DEF p
  <2> QED BY <1>6, <2>1, <2>5, <2>6, <2>7, <2>8
<1>7. CASE job[r].pc \notin {"current", "revoke", "unset"}
  <2>1. job'[r].pc \notin {"revoke", "unset"}
    <3>1. job[r].pc \in {"assertUpdate", "update", "assign", "upsert", "assertRemove",
                         "close", "leave"}
      BY <1>1, <1>7, CallAt DEF OnItsChain, ChainOf
    <3>2. \/ To(r, "update") \/ To(r, "current") \/ To(r, "upsert") \/ To(r, "reply")
          \/ To(r, "leave") \/ To(r, AfterRole(a))
      BY <3>1, CallAt DEF UpdateAssert, RemoveAssert, AssignFind, RemoveLeave, Close,
                          UpdateAccount, AssignUpsert
    <3>3. AfterRole(a) \in {"close", "reply"}
      BY DEF AfterRole
    <3>4. PICK p \in {"update", "current", "upsert", "reply", "leave", "close"} : To(r, p)
      BY <3>2, <3>3
    <3>5. p \in Steps
      BY DEF Steps
    <3> QED BY <1>1, <3>4, <3>5, ToMoves
  <2> QED BY <1>7, <2>1 DEF Replacing
<1> QED BY <1>4, <1>5, <1>6, <1>7

(* The change of a member's role or account. *)
LEMMA UpdateGoesOn ==
  ASSUME TypeOK, Chains, NEW r \in Requests, Step(r), ~IsIdle(r)',
         job[r].ask.op = "update", UpdateProgress(r)
  PROVE  UpdateProgress(r)' /\ Answered(r)'
<1> DEFINE a == job[r].ask
           u == Who(r)
<1>1. /\ ~IsIdle(r) /\ OnItsChain(job[r]) /\ Continues(r)
      /\ a \in Asked /\ u \in Users
      /\ a.role \in Codes \union {None, Keep} /\ a.active \in BOOLEAN \union {Keep}
  BY ChainStep, AtStep, AskByOp DEF Chains, InFlight
<1>2. job'[r].ask = a /\ job'[r].ask.user = u
  BY <1>1 DEF Continues, IsIdle, Idle, Who
<1>3. job[r].pc \in {"assertUpdate", "update", "current", "revoke", "unset", "assign",
                     "upsert", "close"}
  BY <1>1, CallAt DEF OnItsChain, ChainOf
<1>4. /\ Replacing(r)'
      /\ job[r].pc \in {"current", "revoke", "unset"} =>
           /\ UNCHANGED <<account, member>>
           /\ job'[r].pc \in {"revoke", "unset", "assign", "close", "reply"}
           /\ job'[r].pc = "assign" => live'[u] = {}
           /\ job'[r].pc \in {"close", "reply"} => live'[u] = {a.role} \ {None}
  BY ReplacingGoesOn DEF UpdateProgress
<1>5. AfterRole(a) = IF a.active = FALSE THEN "close" ELSE "reply"
  BY DEF AfterRole
<1>6. ASSUME job'[r].pc \notin {"assertUpdate", "update"} /\ a.active = FALSE
               => account'[u] = "inactive",
             job'[r].pc \in {"assign", "upsert"} => live'[u] = {},
             job'[r].pc \in {"close", "reply"} /\ a.role # Keep => live'[u] = {a.role} \ {None}
      PROVE  UpdateProgress(r)' /\ Answered(r)'
  BY <1>2, <1>4, <1>6 DEF UpdateProgress, Answered, At, Who, Promised
<1>7. CASE job[r].pc = "assertUpdate"
  <2>1. To(r, "update")
    BY <1>7, CallAt DEF UpdateAssert
  <2>2. job'[r].pc = "update"
    BY <1>1, <2>1, ToMoves DEF Steps
  <2> QED BY <1>6, <2>2
<1>8. CASE job[r].pc = "update"
  <2>1. UpdateAccount(r)
    BY <1>8, CallAt
  <2>2. a.active = FALSE => account'[u] = "inactive"
    BY <1>1, <2>1, CodesAssumption DEF UpdateAccount, Who, TypeOK
  <2>3. PICK p \in {"current", "close", "reply"} :
          To(r, p) /\ (p # "current" => a.role = Keep)
    BY <1>5, <2>1 DEF UpdateAccount
  <2>4. p \in Steps
    BY DEF Steps
  <2>5. job'[r].pc = p
    BY <1>1, <2>3, <2>4, ToMoves
  <2> QED BY <1>6, <2>2, <2>3, <2>5
<1>9. CASE job[r].pc \in {"current", "revoke", "unset"}
  <2>1. a.active = FALSE => account'[u] = "inactive"
    BY <1>4, <1>9 DEF UpdateProgress
  <2> QED BY <1>4, <1>6, <1>9, <2>1
<1>10. CASE job[r].pc = "assign"
  <2>1. To(r, "upsert") /\ UNCHANGED <<account, live>>
    BY <1>10, CallAt DEF AssignFind, Stay
  <2>2. job'[r].pc = "upsert"
    BY <1>1, <2>1, ToMoves DEF Steps
  <2> QED BY <1>6, <1>10, <2>1, <2>2 DEF UpdateProgress
<1>11. CASE job[r].pc = "upsert"
  <2>1. /\ To(r, AfterRole(a)) /\ UNCHANGED account
        /\ live'[u] = live[u] \union {a.role}
    BY <1>1, <1>11, CallAt DEF AssignUpsert, TypeOK
  <2>2. a.role \in Codes /\ live[u] = {}
    BY <1>1, <1>11 DEF OnItsChain, UpdateProgress
  <2>3. live'[u] = {a.role} \ {None}
    BY <2>1, <2>2, CodesAssumption
  <2>4. job'[r].pc \in {"close", "reply"}
    BY <1>1, <1>5, <2>1, ToMoves DEF Steps
  <2> QED BY <1>6, <1>11, <2>1, <2>3, <2>4 DEF UpdateProgress
<1>12. CASE job[r].pc = "close"
  <2>1. To(r, "reply") /\ UNCHANGED <<account, live>>
    BY <1>12, CallAt DEF Close, Stay
  <2>2. job'[r].pc = "reply"
    BY <1>1, <2>1, ToMoves DEF Steps
  <2> QED BY <1>6, <1>12, <2>1, <2>2 DEF UpdateProgress
<1> QED BY <1>3, <1>7, <1>8, <1>9, <1>10, <1>11, <1>12

(* The removal of a member. *)
LEMMA RemoveGoesOn ==
  ASSUME TypeOK, Chains, NEW r \in Requests, Step(r), ~IsIdle(r)',
         job[r].ask.op = "remove", RemoveProgress(r)
  PROVE  RemoveProgress(r)' /\ Answered(r)'
<1> DEFINE a == job[r].ask
           u == Who(r)
<1>1. /\ ~IsIdle(r) /\ OnItsChain(job[r]) /\ Continues(r)
      /\ a \in Asked /\ u \in Users /\ a.role = None
  BY ChainStep, AtStep, AskByOp DEF Chains, InFlight
<1>2. job'[r].ask = a /\ job'[r].ask.user = u
  BY <1>1 DEF Continues, IsIdle, Idle, Who
<1>3. job[r].pc \in {"assertRemove", "current", "revoke", "unset", "close", "leave"}
  BY <1>1, CallAt DEF OnItsChain, ChainOf
<1>4. /\ Replacing(r)'
      /\ job[r].pc \in {"current", "revoke", "unset"} =>
           /\ job'[r].pc \in {"revoke", "unset", "assign", "close", "reply"}
           /\ job'[r].pc \in {"close", "reply"} => live'[u] = {a.role} \ {None}
  BY ReplacingGoesOn DEF RemoveProgress
<1>5. CASE job[r].pc = "assertRemove"
  <2>1. To(r, "current")
    BY <1>5, CallAt DEF RemoveAssert
  <2>2. job'[r].pc = "current"
    BY <1>1, <2>1, ToMoves DEF Steps
  <2> QED BY <1>4, <2>2 DEF RemoveProgress, Answered, At
<1>6. CASE job[r].pc \in {"current", "revoke", "unset"}
  <2>1. job'[r].pc \in {"close", "reply"} => live'[u] = {}
    BY <1>1, <1>4, <1>6
  <2>2. job'[r].pc # "reply"
    <3>1. CASE job[r].pc = "revoke"
      <4>1. PICK c \in Codes : RevokeFind(r, c)
        BY <3>1, CallAt
      <4>2. job'[r].pc = "unset"
        BY <1>1, <4>1, CallAt, RevokeFinds
      <4> QED BY <4>2
    <3>2. \A had \in SUBSET Codes : AfterRevokes(a, had) = "close"
      BY <1>1 DEF AfterRevokes, AfterRole
    <3>3. CASE job[r].pc = "current"
      <4>1. ReplaceRead(r)
        BY <3>3, CallAt
      <4>2. job'[r].pc \in {"revoke", "close"}
        BY <1>1, <3>2, <4>1, ReplaceReads
      <4> QED BY <4>2
    <3>4. CASE job[r].pc = "unset"
      <4>1. job[r].had \in SUBSET Codes
        BY <1>1, AtStep
      <4>2. To(r, "revoke") \/ To(r, "close")
        BY <3>2, <3>4, <4>1, CallAt DEF RevokeUnset
      <4>3. job'[r].pc \in {"revoke", "close"}
        BY <1>1, <4>2, ToMoves DEF Steps
      <4> QED BY <4>3
    <3> QED BY <1>6, <3>1, <3>3, <3>4
  <2> QED BY <1>2, <1>4, <1>6, <2>1, <2>2 DEF RemoveProgress, Answered, At, Who
<1>7. CASE job[r].pc = "close"
  <2>1. To(r, "leave") /\ UNCHANGED live
    BY <1>7, CallAt DEF Close, Stay
  <2>2. job'[r].pc = "leave"
    BY <1>1, <2>1, ToMoves DEF Steps
  <2> QED BY <1>2, <1>4, <1>7, <2>1, <2>2 DEF RemoveProgress, Answered, At, Who
<1>8. CASE job[r].pc = "leave"
  <2>1. To(r, "reply") /\ UNCHANGED live /\ u \notin member'
    BY <1>8, CallAt DEF RemoveLeave
  <2>2. job'[r].pc = "reply"
    BY <1>1, <2>1, ToMoves DEF Steps
  <2> QED BY <1>2, <1>4, <1>8, <2>1, <2>2 DEF RemoveProgress, Answered, At, Who, Promised
<1> QED BY <1>3, <1>5, <1>6, <1>7, <1>8

(* The revocation of one role. *)
LEMMA RevokeGoesOn ==
  ASSUME TypeOK, Chains, NEW r \in Requests, Step(r), ~IsIdle(r)', UNCHANGED open,
         job[r].ask.op = "revoke", RevokeProgress(r)
  PROVE  RevokeProgress(r)' /\ Answered(r)'
<1> DEFINE a == job[r].ask
           u == Who(r)
<1>1. /\ ~IsIdle(r) /\ OnItsChain(job[r]) /\ Continues(r)
      /\ a \in Asked /\ u \in Users /\ a.role = None /\ a.code \in Codes
  BY ChainStep, AtStep, AskByOp DEF Chains, InFlight
<1>2. job'[r].ask = a /\ job'[r].ask.user = u
  BY <1>1 DEF Continues, IsIdle, Idle, Who
<1>3. job[r].pc \in {"revoke", "count", "unset"}
  BY <1>1, CallAt DEF OnItsChain, ChainOf
<1>4. CASE job[r].pc = "revoke"
  <2>1. PICK c \in Codes : RevokeFind(r, c)
    BY <1>4, CallAt
  <2>2. /\ job'[r].pc = IF ~a.confirm THEN "count" ELSE "unset"
        /\ c \in job[r].todo /\ job'[r].code = c /\ job'[r].todo = job[r].todo \ {c}
    BY <1>1, <2>1, CallAt, RevokeFinds
  <2>3. job[r].todo = {a.code}
    BY <1>4 DEF RevokeProgress
  <2> QED BY <1>2, <2>2, <2>3 DEF RevokeProgress, Answered, At
<1>5. CASE job[r].pc = "count"
  <2>1. To(r, "unset") /\ u \notin open
    BY <1>5, CallAt DEF RevokeCount
  <2>2. job'[r].pc = "unset" /\ job'[r].todo = job[r].todo /\ job'[r].code = job[r].code
    BY <1>1, <2>1, ToMoves DEF Steps
  <2> QED BY <1>2, <1>5, <2>1, <2>2 DEF RevokeProgress, Answered, At, Who
<1>6. CASE job[r].pc = "unset"
  <2>1. AfterRevokes(a, job[r].had) = "reply"
    BY <1>1 DEF AfterRevokes, AfterRole
  <2>2. job[r].todo = {} /\ job[r].code = a.code /\ (a.confirm \/ u \notin open)
    BY <1>6 DEF RevokeProgress, Who
  <2>3. To(r, "reply") /\ live'[u] = live[u] \ {a.code}
    BY <1>1, <1>6, <2>1, <2>2, CallAt DEF RevokeUnset, TypeOK
  <2>4. job'[r].pc = "reply"
    BY <1>1, <2>3, ToMoves DEF Steps
  <2> QED BY <1>2, <2>2, <2>3, <2>4 DEF RevokeProgress, Answered, At, Who, Promised
<1> QED BY <1>3, <1>4, <1>5, <1>6

(* The creation of the organisation. *)
LEMMA FoundGoesOn ==
  ASSUME TypeOK, Chains, NEW r \in Requests, Step(r), ~IsIdle(r)',
         job[r].ask.op = "found", FoundProgress(r),
         org = "none" => live[Who(r)] = {}
  PROVE  FoundProgress(r)' /\ Answered(r)'
<1> DEFINE a == job[r].ask
           u == Who(r)
<1>1. /\ ~IsIdle(r) /\ OnItsChain(job[r]) /\ Continues(r)
      /\ a \in Asked /\ u \in Users /\ a.role = Admin
  BY ChainStep, AtStep, AskByOp DEF Chains, InFlight
<1>2. job'[r].ask = a /\ job'[r].ask.user = u
  BY <1>1 DEF Continues, IsIdle, Idle, Who
<1>3. job[r].pc \in {"slug", "insert", "provision", "attach", "join", "assign", "upsert"}
  BY <1>1, CallAt DEF OnItsChain, ChainOf
<1>4. CASE job[r].pc = "slug"
  <2>1. To(r, "insert")
    BY <1>4, CallAt DEF FoundSlug
  <2>2. job'[r].pc = "insert"
    BY <1>1, <2>1, ToMoves DEF Steps
  <2> QED BY <2>2 DEF FoundProgress, Answered, At
<1>5. CASE job[r].pc = "insert"
  <2>1. To(r, "provision") /\ live[u] = {} /\ UNCHANGED live
    BY <1>5, CallAt DEF FoundInsert
  <2>2. job'[r].pc = "provision"
    BY <1>1, <2>1, ToMoves DEF Steps
  <2> QED BY <1>2, <2>1, <2>2 DEF FoundProgress, Answered, At, Who
<1>6. CASE job[r].pc = "provision"
  <2>1. To(r, "attach") /\ org' = "ready" /\ UNCHANGED live
    BY <1>6, CallAt DEF FoundProvision
  <2>2. job'[r].pc = "attach"
    BY <1>1, <2>1, ToMoves DEF Steps
  <2> QED BY <1>2, <1>6, <2>1, <2>2 DEF FoundProgress, Answered, At, Who
<1>7. CASE job[r].pc = "attach"
  <2>1. To(r, "join") /\ UNCHANGED <<org, live>>
    BY <1>7, CallAt DEF AttachAccount
  <2>2. job'[r].pc = "join"
    BY <1>1, <2>1, ToMoves DEF Steps
  <2> QED BY <1>2, <1>7, <2>1, <2>2 DEF FoundProgress, Answered, At, Who
<1>8. CASE job[r].pc = "join"
  <2>1. To(r, "assign") /\ UNCHANGED <<org, live>> /\ u \in member'
    BY <1>8, CallAt DEF AttachJoin
  <2>2. job'[r].pc = "assign"
    BY <1>1, <2>1, ToMoves DEF Steps
  <2> QED BY <1>2, <1>8, <2>1, <2>2 DEF FoundProgress, Answered, At, Who
<1>9. CASE job[r].pc = "assign"
  <2>1. To(r, "upsert") /\ UNCHANGED <<org, live, member>>
    BY <1>9, CallAt DEF AssignFind, Stay
  <2>2. job'[r].pc = "upsert"
    BY <1>1, <2>1, ToMoves DEF Steps
  <2> QED BY <1>2, <1>9, <2>1, <2>2 DEF FoundProgress, Answered, At, Who
<1>10. CASE job[r].pc = "upsert"
  <2>1. AfterRole(a) = "reply"
    BY DEF AfterRole
  <2>2. To(r, "reply") /\ UNCHANGED <<org, member>> /\ live'[u] = live[u] \union {Admin}
    BY <1>1, <1>10, <2>1, CallAt DEF AssignUpsert, TypeOK
  <2>3. job'[r].pc = "reply"
    BY <1>1, <2>2, ToMoves DEF Steps
  <2> QED BY <1>2, <1>10, <2>2, <2>3 DEF FoundProgress, Answered, At, Who, Promised
<1> QED BY <1>3, <1>4, <1>5, <1>6, <1>7, <1>8, <1>9, <1>10

(* A role given directly. *)
LEMMA AssignGoesOn ==
  ASSUME TypeOK, Chains, NEW r \in Requests, Step(r), ~IsIdle(r)',
         job[r].ask.op = "assign"
  PROVE  Answered(r)'
<1> DEFINE a == job[r].ask
           u == Who(r)
<1>1. /\ ~IsIdle(r) /\ OnItsChain(job[r]) /\ Continues(r)
      /\ a \in Asked /\ u \in Users
  BY ChainStep, AtStep DEF Chains, InFlight
<1>2. job'[r].ask = a
  BY <1>1 DEF Continues, IsIdle, Idle
<1>3. job[r].pc \in {"assign", "upsert"}
  BY <1>1, CallAt DEF OnItsChain, ChainOf
<1>4. CASE job[r].pc = "assign"
  <2>1. To(r, "upsert")
    BY <1>4, CallAt DEF AssignFind
  <2>2. job'[r].pc = "upsert"
    BY <1>1, <2>1, ToMoves DEF Steps
  <2> QED BY <2>2 DEF Answered, At
<1>5. CASE job[r].pc = "upsert"
  <2>1. live'[a.user] = live[a.user] \union {a.role}
    BY <1>1, <1>5, CallAt DEF AssignUpsert, TypeOK, Who
  <2> QED BY <1>2, <2>1 DEF Answered, Promised
<1> QED BY <1>3, <1>4, <1>5

(* Nobody has a role before there is an organisation to have it in, and only    *)
(* its creation is under way by then.                                        *)
OrgFirst ==
  /\ org = "none" => \A u \in Users : live[u] = {}
  /\ \A r \in InFlight : org = "none" => job[r].pc \in {"slug", "insert"}

OneRole == \A u \in Users : u \notin direct => \A c, d \in live[u] : c = d

Calm ==
  /\ \A q, r \in InFlight : q = r
  /\ raced = {}
  /\ \A r \in InFlight : Progress(r)
  /\ OneRole

(* The inductive invariant of the calm administration. *)
CalmInv == MembersInv /\ OrgFirst /\ (calm => Calm)

(* The organisation comes first, in every overlap. *)
LEMMA OrgFirstStep == MembersInv /\ OrgFirst /\ [Next]_vars => OrgFirst'
<1> SUFFICES ASSUME MembersInv, OrgFirst, [Next]_vars, org' = "none"
             PROVE  /\ \A u \in Users : live'[u] = {}
                    /\ \A r \in InFlight' : job'[r].pc \in {"slug", "insert"}
  BY DEF OrgFirst
<1>1. TypeOK /\ Chains
  BY DEF MembersInv
<1>2. ASSUME NEW r \in Requests, Step(r)
      PROVE  /\ \A u \in Users : live'[u] = {}
             /\ \A q \in InFlight' : job'[q].pc \in {"slug", "insert"}
  <2>1. /\ ~IsIdle(r) /\ OnItsChain(job[r]) /\ Continues(r) /\ r \in InFlight
        /\ Who(r) \in Users
    BY <1>1, <1>2, ChainStep, AtStep DEF Chains, InFlight
  <2>2. StepWrites(r)
    BY <1>1, <1>2, WritesOfStep
  <2>3. org = "none"
    BY <2>2 DEF StepWrites
  <2>4. /\ \A u \in Users : live[u] = {}
        /\ \A q \in InFlight : job[q].pc \in {"slug", "insert"}
    BY <2>3 DEF OrgFirst
  <2>5. ~AssignUpsert(r)
    BY <2>1, <2>4 DEF AssignUpsert, At
  <2>6. \A u \in Users : live'[u] = {}
    BY <2>1, <2>2, <2>4, <2>5 DEF StepWrites
  <2>7. ASSUME ~IsIdle(r)'
        PROVE  job'[r].pc \in {"slug", "insert"}
    <3>1. FoundSlug(r) \/ FoundInsert(r)
      BY <1>1, <1>2, <2>1, <2>4, <2>7, CallAt
    <3>2. To(r, "insert")
      BY <1>1, <1>2, <2>7, <3>1, CallAt DEF FoundSlug, FoundInsert
    <3> QED BY <1>1, <2>1, <3>2, ToMoves DEF Steps
  <2> QED BY <2>1, <2>4, <2>6, <2>7 DEF Continues, InFlight, IsIdle
<1>3. ASSUME NEW r \in Requests, NEW a \in Asked, Arrival(r, a)
      PROVE  /\ \A u \in Users : live'[u] = {}
             /\ \A q \in InFlight' : job'[q].pc \in {"slug", "insert"}
  <2>1. Arrive(r, a) /\ org = "none" /\ UNCHANGED live
    BY <1>3 DEF Arrival, Arrive, Stay
  <2>2. a.op = "found"
    BY <2>1 DEF Arrive
  <2>3. job'[r].pc = "slug" /\ \A q \in Requests \ {r} : job'[q] = job[q]
    BY <1>1, <2>1, <2>2, ArriveMoves DEF FirstCall
  <2> QED BY <2>1, <2>3 DEF OrgFirst, InFlight, IsIdle
<1>4. CASE UNCHANGED <<org, live, job>>
  BY <1>4 DEF OrgFirst, InFlight, IsIdle
<1>5. ASSUME NEW u \in Users, Evaluate(u)
      PROVE  UNCHANGED <<org, live, job>>
  BY <1>5 DEF Evaluate, Stay
<1> QED BY <1>2, <1>3, <1>4, <1>5, StepKinds DEF vars

(* A request alone goes on along its chain, and gives a role only to who has    *)
(* none.                                                                     *)
LEMMA AloneGoesOn ==
  ASSUME MembersInv, OrgFirst, Calm, NEW r \in Requests, Step(r),
         UNCHANGED <<open, calm, raced, direct>>
  PROVE  Calm'
<1> DEFINE a == job[r].ask
           u == Who(r)
<1>1. TypeOK /\ Chains /\ RolesOnlyForMembers /\ DirectNoted
  BY DEF MembersInv
<1>2. /\ ~IsIdle(r) /\ r \in InFlight /\ OnItsChain(job[r]) /\ Continues(r)
      /\ a \in Asked /\ a.op \in Ops /\ u \in Users
  BY <1>1, ChainStep, AtStep, AskByOp DEF Chains, InFlight
<1>3. Progress(r) /\ \A q \in InFlight : q = r
  BY <1>2 DEF Calm
<1>4. \A q \in InFlight' : q = r
  BY <1>2, <1>3 DEF Continues, InFlight, IsIdle
<1>5. u \notin member \union direct => live[u] = {}
  BY <1>1, <1>2 DEF RolesOnlyForMembers, Calm
<1>6. org = "none" => live[u] = {}
  BY <1>2 DEF OrgFirst
<1>7. ASSUME ~IsIdle(r)'
      PROVE  Progress(r)'
  <2>1. job'[r].ask = a
    BY <1>2, <1>7 DEF Continues, IsIdle, Idle
  <2>2. CASE a.op = "create"
    <3>1. CreateProgress(r)
      BY <1>3, <2>2 DEF Progress
    <3> QED BY <1>1, <1>5, <1>7, <2>1, <2>2, <3>1, CreateGoesOn DEF Progress
  <2>3. CASE a.op = "update"
    <3>1. UpdateProgress(r)
      BY <1>3, <2>3 DEF Progress
    <3> QED BY <1>1, <1>7, <2>1, <2>3, <3>1, UpdateGoesOn DEF Progress
  <2>4. CASE a.op = "remove"
    <3>1. RemoveProgress(r)
      BY <1>3, <2>4 DEF Progress
    <3> QED BY <1>1, <1>7, <2>1, <2>4, <3>1, RemoveGoesOn DEF Progress
  <2>5. CASE a.op = "revoke"
    <3>1. RevokeProgress(r)
      BY <1>3, <2>5 DEF Progress
    <3> QED BY <1>1, <1>7, <2>1, <2>5, <3>1, RevokeGoesOn DEF Progress
  <2>6. CASE a.op = "found"
    <3>1. FoundProgress(r)
      BY <1>3, <2>6 DEF Progress
    <3> QED BY <1>1, <1>6, <1>7, <2>1, <2>6, <3>1, FoundGoesOn DEF Progress
  <2>7. CASE a.op = "assign"
    BY <1>1, <1>7, <2>1, <2>7, AssignGoesOn DEF Progress
  <2> QED BY <1>2, <2>2, <2>3, <2>4, <2>5, <2>6, <2>7 DEF Ops
<1>8. ASSUME NEW v \in Users, v \notin direct', NEW c \in live'[v], NEW d \in live'[v]
      PROVE  c = d
  <2>1. StepWrites(r)
    BY <1>1, WritesOfStep
  <2>2. v \notin direct /\ \A x, y \in live[v] : x = y
    BY <1>8 DEF Calm, OneRole
  <2>3. CASE v # u
    <3>1. live'[v] = live[v]
      BY <2>1, <2>3 DEF StepWrites
    <3> QED BY <1>8, <2>2, <3>1
  <2>4. CASE v = u /\ ~AssignUpsert(r)
    <3>1. live'[v] \subseteq live[v]
      BY <2>1, <2>4 DEF StepWrites
    <3> QED BY <1>8, <2>2, <3>1
  <2>5. CASE v = u /\ AssignUpsert(r)
    <3>1. job[r].pc = "upsert" /\ live'[v] = live[v] \union {a.role}
      BY <1>1, <1>2, <2>5 DEF AssignUpsert, At, TypeOK
    <3>2. a.op \in {"create", "update", "assign", "found"}
      BY <1>1, <1>2, <3>1, AtStep
    <3>3. a.op # "assign"
      BY <1>1, <1>2, <2>2, <2>5 DEF DirectNoted
    <3>4. live[v] = {}
      BY <1>3, <2>2, <2>5, <3>1, <3>2, <3>3
         DEF Progress, CreateProgress, UpdateProgress, FoundProgress
    <3> QED BY <1>8, <3>1, <3>4
  <2> QED BY <2>3, <2>4, <2>5
<1>9. raced' = {} /\ OneRole'
  BY <1>8 DEF Calm, OneRole
<1>10. ASSUME NEW q \in InFlight'
       PROVE  Progress(q)'
  <2>1. q = r
    BY <1>4, <1>10
  <2> QED BY <1>7, <1>10, <2>1 DEF InFlight
<1> QED BY <1>4, <1>9, <1>10 DEF Calm

(* A request that arrives alone has done nothing yet. *)
LEMMA AloneArrives ==
  ASSUME MembersInv, Calm, InFlight = {}, NEW r \in Requests, NEW a \in Asked, Arrival(r, a)
  PROVE  Calm'
<1>1. TypeOK /\ Arrive(r, a) /\ UNCHANGED <<org, account, member, live>>
  BY DEF MembersInv, Arrival, Arrive, Stay
<1>2. /\ \A q \in Requests \ {r} : job'[q] = job[q]
      /\ job'[r].ask = a /\ job'[r].pc = FirstCall(a)
      /\ job'[r].todo = IF a.op = "revoke" THEN {a.code} ELSE {}
  BY <1>1, ArriveMoves
<1>3. \A q \in InFlight' : q = r
  BY <1>2 DEF InFlight, IsIdle
<1>4. Progress(r)'
  <2>1. a.op \in Ops
    BY AskByOp
  <2> QED BY <1>2, <2>1 DEF FirstCall, Ops, Progress, CreateProgress, UpdateProgress,
                RemoveProgress, RevokeProgress, FoundProgress, Replacing, Answered, At
<1>5. raced' = {} /\ direct \subseteq direct'
  BY DEF Arrival, Calm
<1>6. OneRole'
  BY <1>1, <1>5 DEF Calm, OneRole
<1> QED BY <1>3, <1>4, <1>5, <1>6 DEF Calm

LEMMA CalmInvariant == Spec => []CalmInv
<1>1. Init => CalmInv
  <2> SUFFICES ASSUME Init PROVE CalmInv
    OBVIOUS
  <2>1. TypeOK
    BY DEF Init, TypeOK, Jobs
  <2>2. InFlight = {}
    BY DEF Init, InFlight, IsIdle, Idle
  <2>3. \A u \in Users : live[u] = {}
    BY DEF Init
  <2>4. MembersInv
    BY <2>1, <2>2, <2>3
       DEF MembersInv, Chains, OverlapsNoted, DirectNoted, RolesOnlyForMembers
  <2>5. raced = {} /\ OneRole
    BY <2>3 DEF Init, OneRole
  <2> QED BY <2>2, <2>3, <2>4, <2>5 DEF CalmInv, OrgFirst, Calm
<1>2. CalmInv /\ [Next]_vars => CalmInv'
  <2> SUFFICES ASSUME CalmInv, [Next]_vars PROVE CalmInv'
    OBVIOUS
  <2>1. MembersInv /\ OrgFirst /\ MembersInv' /\ OrgFirst' /\ TypeOK
    BY MembersStep, OrgFirstStep DEF CalmInv, MembersInv
  <2> SUFFICES ASSUME calm' PROVE Calm'
    BY <2>1 DEF CalmInv
  <2>2. ASSUME NEW r \in Requests, NEW a \in Asked, Arrival(r, a)
        PROVE  Calm'
    <3>1. calm /\ InFlight = {}
      BY <2>1, <2>2 DEF Arrival, TypeOK
    <3> QED BY <2>1, <2>2, <3>1, AloneArrives DEF CalmInv
  <2>3. ASSUME NEW r \in Requests, Step(r), UNCHANGED <<open, calm, raced, direct>>
        PROVE  Calm'
    BY <2>1, <2>3, AloneGoesOn DEF CalmInv
  <2>4. ASSUME NEW u \in Users, Evaluate(u)
        PROVE  Calm'
    <3>1. calm /\ InFlight = {} /\ UNCHANGED <<live, job, raced, direct>>
      BY <2>1, <2>4 DEF Evaluate, Stay, TypeOK
    <3>2. InFlight' = {}
      BY <3>1 DEF InFlight, IsIdle
    <3> QED BY <3>1, <3>2 DEF CalmInv, Calm, OneRole
  <2>5. CASE UNCHANGED vars
    <3>1. Calm
      BY <2>5 DEF vars, CalmInv
    <3>2. \A r \in Requests : Answered(r)' <=> Answered(r)
      BY <2>5 DEF vars, Answered, At, Promised
    <3>3. \A r \in Requests : Progress(r)' <=> Progress(r)
      BY <2>5, <3>2
         DEF vars, Progress, CreateProgress, UpdateProgress, RemoveProgress,
             RevokeProgress, FoundProgress, Replacing, Who
    <3>4. InFlight' = InFlight /\ UNCHANGED <<live, raced, direct>>
      BY <2>5 DEF vars, InFlight, IsIdle
    <3> QED BY <3>1, <3>3, <3>4 DEF Calm, OneRole, InFlight
  <2> QED BY <2>2, <2>3, <2>4, <2>5, StepKinds
<1> QED BY <1>1, <1>2, PTL DEF Spec

(* While requests come one at a time, an operation that answers has done all   *)
(* that it was asked.                                                        *)
THEOREM AnswersAreTrue == Spec => []AnswersHold
<1>1. CalmInv => AnswersHold
  <2> SUFFICES ASSUME CalmInv, calm, NEW r \in Requests, At(r, "reply")
               PROVE  Promised(job[r].ask)
    BY DEF AnswersHold
  <2>1. r \in InFlight
    BY DEF At, InFlight, IsIdle
  <2> QED BY <2>1 DEF CalmInv, Calm, Progress, Answered
<1> QED BY <1>1, CalmInvariant, PTL

(* While requests come one at a time, and whichever of their calls fail,        *)
(* nobody ends with two roles.                                               *)
THEOREM NobodyHasTwoRoles == Spec => []OneRoleEach
<1>1. CalmInv => OneRoleEach
  <2> SUFFICES ASSUME CalmInv, calm, NEW u \in Users \ direct
               PROVE  Cardinality(live[u]) <= 1
    BY DEF OneRoleEach
  <2> DEFINE S == live[u]
  <2>1. \A c, d \in S : c = d
    BY DEF CalmInv, Calm, OneRole
  <2> HIDE DEF S
  <2>2. Cardinality(S) <= 1
    <3>1. CASE S = {}
      BY <3>1, FS_EmptySet
    <3>2. CASE \E c : S = {c}
      BY <3>2, FS_Singleton
    <3> QED BY <2>1, <3>1, <3>2
  <2> QED BY <2>2 DEF S
<1> QED BY <1>1, CalmInvariant, PTL

=============================================================================
