------------------------- MODULE EvaluationLifecycle -------------------------
(***************************************************************************)
(* The life of the evaluations of one organisation and one tool: POST      *)
(* /evaluations, PUT /evaluations/:id/responses, POST                      *)
(* /evaluations/:id/complete and PUT /profiles/:id/applicability.          *)
(*                                                                         *)
(* The server is one Node process.  A request runs without interruption    *)
(* between two awaits, and every await of a Prisma call lets the other     *)
(* requests run, so a request is a sequence of atomic database calls that  *)
(* carries what it has read from one to the next.  req[r] is the           *)
(* continuation of request r: the call it is about to make (pc) and the    *)
(* values it read earlier.                                                 *)
(*                                                                         *)
(* A score is kept as the answers it is computed from; the arithmetic of   *)
(* the averages is left out.  The template structure is fixed here: its    *)
(* versions are the subject of TemplateVersions.                           *)
(***************************************************************************)
EXTENDS Naturals, FiniteSets

CONSTANTS
  Requests,     \* requests the server may have in flight at once
  Profiles,     \* organisation profiles
  Sections,     \* sections of the template
  Indicators,   \* active indicators (KPI) of the template
  SectionOf,    \* the section of each indicator
  Scores,       \* the scores a response may carry
  Configs,      \* applicability settings an administrator picks from
  MaxEvals,     \* bound on the evaluations ever created
  None          \* "no value": an absent row or a null column

ASSUME NoneAssumption ==
  /\ None \notin Scores /\ None \notin Profiles
  /\ None \notin [Indicators -> Scores \union {None}]
ASSUME SectionAssumption == SectionOf \in [Indicators -> Sections]
ASSUME ConfigAssumption ==
  Configs \subseteq [sections : SUBSET Sections, indicators : SUBSET Indicators]
ASSUME BoundAssumption == MaxEvals \in Nat
ASSUME RequestAssumption == IsFiniteSet(Requests)

VARIABLES
  owner,        \* profile of each evaluation; None for a row not yet created
  status,       \* status column
  responses,    \* score of each indicator; None when unanswered
  stored,       \* answers behind the persisted scores; None while null
  applic,       \* the exclusions of each profile
  req           \* continuation of each request

vars == <<owner, status, responses, stored, applic, req>>

-----------------------------------------------------------------------------
(* Rows are created in the order of their number, which stands for          *)
(* createdAt.                                                               *)
EvalIds == 1 .. MaxEvals
Status  == {"DRAFT", "IN_PROGRESS", "COMPLETED", "ARCHIVED"}
Answers == [Indicators -> Scores \union {None}]
NoAnswers == [i \in Indicators |-> None]

Exists(e)  == owner[e] # None
Active(e)  == status[e] \in {"DRAFT", "IN_PROGRESS"}
OpenOf(p)  == {e \in EvalIds : owner[e] = p /\ Active(e)}
Locked(s)  == s \in {"COMPLETED", "ARCHIVED"}

(* The continuations of a request. *)
Idle == [pc |-> "idle"]
Creating   == [pc : {"insert"}, profile : Profiles]
Persisting == [pc : {"persist"}, eval : EvalIds, seen : Status,
               batch : UNION {[J -> Scores] : J \in SUBSET Indicators}]
Marking    == [pc : {"mark"}, eval : EvalIds]
Resolving  == [pc : {"resolve"}, eval : EvalIds, answers : Answers]
Gathering  == [pc : {"gather"}, eval : EvalIds, answers : Answers,
               sections : SUBSET Sections,
               secRows : (SUBSET Sections) \union {None},
               indRows : (SUBSET Indicators) \union {None}]

IsIdle(r) == req[r].pc = "idle"
Goto(r, k) == req' = [req EXCEPT ![r] = k]

(* resolveExcludedIndicatorIds: the indicators excluded one by one and all   *)
(* those of an excluded section.                                            *)
Excluded(secRows, indRows) ==
  indRows \union {i \in Indicators : SectionOf[i] \in secRows}

(* The active indicators complete() demands an answer for. *)
Required(sections, excluded) ==
  {i \in Indicators : SectionOf[i] \notin sections /\ i \notin excluded}

Answered(a) == {i \in Indicators : a[i] # None}

(* Mutant: the excluded indicators enter the averages too. *)
ScoreInputsAll(a, excluded) == a

(* computeScores: only answered, non-excluded indicators enter the averages. *)
ScoreInputs(a, excluded) ==
  [i \in Indicators |-> IF i \in excluded THEN None ELSE a[i]]

-----------------------------------------------------------------------------
Init ==
  /\ owner = [e \in EvalIds |-> None]
  /\ status = [e \in EvalIds |-> "DRAFT"]
  /\ responses = [e \in EvalIds |-> NoAnswers]
  /\ stored = [e \in EvalIds |-> None]
  /\ applic \in [Profiles -> Configs]
  /\ req = [r \in Requests |-> Idle]

(* Mutant: the lookup of an open evaluation forgets IN_PROGRESS. *)
CreateLookupDraftOnly(r, p) ==
  /\ IsIdle(r)
  /\ \A e \in OpenOf(p) : status[e] # "DRAFT"
  /\ Goto(r, [pc |-> "insert", profile |-> p])
  /\ UNCHANGED <<owner, status, responses, stored, applic>>

(* createEvaluation up to findActiveForProfile: an open evaluation is        *)
(* returned as it is.                                                       *)
CreateLookup(r, p) ==
  /\ IsIdle(r)
  /\ OpenOf(p) = {}
  /\ Goto(r, [pc |-> "insert", profile |-> p])
  /\ UNCHANGED <<owner, status, responses, stored, applic>>

CreateInsert(r) ==
  /\ req[r].pc = "insert"
  /\ \E e \in EvalIds :
       /\ ~Exists(e)
       /\ \A f \in EvalIds : f < e => Exists(f)
       /\ owner' = [owner EXCEPT ![e] = req[r].profile]
       /\ status' = [status EXCEPT ![e] = "DRAFT"]
  /\ Goto(r, Idle)
  /\ UNCHANGED <<responses, stored, applic>>

(* Mutants: without the 404, without the 409. *)
ScoreReadMissing(r, e, b) ==
  /\ IsIdle(r)
  /\ ~Locked(status[e])
  /\ Goto(r, [pc |-> "persist", eval |-> e, seen |-> status[e], batch |-> b])
  /\ UNCHANGED <<owner, status, responses, stored, applic>>

ScoreReadLocked(r, e, b) ==
  /\ IsIdle(r)
  /\ Exists(e)
  /\ Goto(r, [pc |-> "persist", eval |-> e, seen |-> status[e], batch |-> b])
  /\ UNCHANGED <<owner, status, responses, stored, applic>>

(* upsertResponses: the evaluation is read, a locked one is refused (409). *)
ScoreRead(r, e, b) ==
  /\ IsIdle(r)
  /\ Exists(e)
  /\ ~Locked(status[e])
  /\ Goto(r, [pc |-> "persist", eval |-> e, seen |-> status[e], batch |-> b])
  /\ UNCHANGED <<owner, status, responses, stored, applic>>

(* persistResponses: one transaction of upserts.  The status to set next is  *)
(* decided from the evaluation as it was read.                              *)
ScorePersist(r) ==
  /\ req[r].pc = "persist"
  /\ LET e == req[r].eval
         b == req[r].batch
     IN  /\ responses' = [responses EXCEPT ![e] =
              [i \in Indicators |-> IF i \in DOMAIN b THEN b[i] ELSE @[i]]]
         /\ Goto(r, IF req[r].seen = "DRAFT"
                    THEN [pc |-> "mark", eval |-> e] ELSE Idle)
  /\ UNCHANGED <<owner, status, stored, applic>>

ScoreMark(r) ==
  /\ req[r].pc = "mark"
  /\ status' = [status EXCEPT ![req[r].eval] = "IN_PROGRESS"]
  /\ Goto(r, Idle)
  /\ UNCHANGED <<owner, responses, stored, applic>>

(* complete: the evaluation with its responses, whatever its status. *)
CompleteRead(r, e) ==
  /\ IsIdle(r)
  /\ Exists(e)
  /\ Goto(r, [pc |-> "resolve", eval |-> e, answers |-> responses[e]])
  /\ UNCHANGED <<owner, status, responses, stored, applic>>

(* resolveExcludedSectionIds *)
CompleteSections(r) ==
  /\ req[r].pc = "resolve"
  /\ Goto(r, [pc |-> "gather", eval |-> req[r].eval, answers |-> req[r].answers,
              sections |-> applic[owner[req[r].eval]].sections,
              secRows |-> None, indRows |-> None])
  /\ UNCHANGED <<owner, status, responses, stored, applic>>

(* resolveExcludedIndicatorIds reads the two exclusion tables with two       *)
(* queries that run side by side, in either order.                          *)
ReadSectionRows(r) ==
  /\ req[r].pc = "gather" /\ req[r].secRows = None
  /\ Goto(r, [req[r] EXCEPT !.secRows = applic[owner[req[r].eval]].sections])
  /\ UNCHANGED <<owner, status, responses, stored, applic>>

ReadIndicatorRows(r) ==
  /\ req[r].pc = "gather" /\ req[r].indRows = None
  /\ Goto(r, [req[r] EXCEPT !.indRows = applic[owner[req[r].eval]].indicators])
  /\ UNCHANGED <<owner, status, responses, stored, applic>>

Gathered(r) ==
  req[r].pc = "gather" /\ req[r].secRows # None /\ req[r].indRows # None

Missing(r) ==
  Required(req[r].sections, Excluded(req[r].secRows, req[r].indRows))
    \ Answered(req[r].answers)

(* 422, with the list of the missing indicators. *)
CompleteRefuse(r) ==
  /\ Gathered(r)
  /\ Missing(r) # {}
  /\ Goto(r, Idle)
  /\ UNCHANGED <<owner, status, responses, stored, applic>>

(* Mutant: the status is written without the scores. *)
CompleteWriteStatusOnly(r) ==
  /\ Gathered(r)
  /\ Missing(r) = {}
  /\ status' = [status EXCEPT ![req[r].eval] = "COMPLETED"]
  /\ Goto(r, Idle)
  /\ UNCHANGED <<owner, responses, stored, applic>>

CompleteWrite(r) ==
  /\ Gathered(r)
  /\ Missing(r) = {}
  /\ status' = [status EXCEPT ![req[r].eval] = "COMPLETED"]
  /\ stored' = [stored EXCEPT ![req[r].eval] =
       ScoreInputs(req[r].answers, Excluded(req[r].secRows, req[r].indRows))]
  /\ Goto(r, Idle)
  /\ UNCHANGED <<owner, responses, applic>>

(* AssessmentApplicabilityService.set: one transaction. *)
SetApplicability(p, c) ==
  /\ applic' = [applic EXCEPT ![p] = c]
  /\ UNCHANGED <<owner, status, responses, stored, req>>

(* A database call is rejected: the request answers 500 and what it had      *)
(* already written stays.                                                   *)
Fail(r) ==
  /\ ~IsIdle(r)
  /\ Goto(r, Idle)
  /\ UNCHANGED <<owner, status, responses, stored, applic>>

Batches == UNION {[J -> Scores] : J \in (SUBSET Indicators) \ {{}}}

Score(r) ==
  \/ \E e \in EvalIds, b \in Batches : ScoreRead(r, e, b)
  \/ ScorePersist(r)
  \/ ScoreMark(r)

Create(r) ==
  \/ \E p \in Profiles : CreateLookup(r, p)
  \/ CreateInsert(r)

Complete(r) ==
  \/ \E e \in EvalIds : CompleteRead(r, e)
  \/ CompleteSections(r)
  \/ ReadSectionRows(r)
  \/ ReadIndicatorRows(r)
  \/ CompleteRefuse(r)
  \/ CompleteWrite(r)

Next ==
  \/ \E r \in Requests : Create(r) \/ Score(r) \/ Complete(r) \/ Fail(r)
  \/ \E p \in Profiles, c \in Configs : SetApplicability(p, c)

Spec == Init /\ [][Next]_vars

-----------------------------------------------------------------------------
(* Properties.                                                              *)

(* The request is a scorer that has read evaluation e and not yet finished. *)
Scoring(r, e) == req[r].pc \in {"persist", "mark"} /\ req[r].eval = e

Continuations ==
  {Idle} \union Creating \union Persisting \union Marking
         \union Resolving \union Gathering

(* Every column and every continuation holds a value of its type. *)
TypeOK ==
  /\ owner \in [EvalIds -> Profiles \union {None}]
  /\ status \in [EvalIds -> Status]
  /\ responses \in [EvalIds -> Answers]
  /\ stored \in [EvalIds -> Answers \union {None}]
  /\ applic \in [Profiles -> Configs]
  /\ req \in [Requests -> Continuations]
  /\ \A r \in Requests : ~IsIdle(r) /\ req[r].pc # "insert" => Exists(req[r].eval)

(* The idempotence of createEvaluation is a read followed by an insert.  What *)
(* it does guarantee: a profile never has more open evaluations than the      *)
(* server has requests in flight, however often the button is pressed.        *)
OpenEvaluationsBounded ==
  \A p \in Profiles : Cardinality(OpenOf(p)) <= Cardinality(Requests)

(* Why: an open evaluation, one that a scorer in flight may still reopen and  *)
(* a creation in flight all come from a request that started when the profile *)
(* had fewer of them than requests.                                           *)
InsertingFor(p) == {r \in Requests : req[r].pc = "insert" /\ req[r].profile = p}
MayMark(r, e) ==
  /\ req[r].pc = "mark" \/ (req[r].pc = "persist" /\ req[r].seen = "DRAFT")
  /\ req[r].eval = e
LiveOf(p) ==
  {e \in EvalIds : owner[e] = p /\ (Active(e) \/ \E r \in Requests : MayMark(r, e))}

LiveEvaluationsBounded ==
  \A p \in Profiles :
    Cardinality(LiveOf(p)) + Cardinality(InsertingFor(p)) <= Cardinality(Requests)

(* "si ya hay una evaluacion en curso para este perfil se devuelve esa en vez *)
(* de crear un duplicado": one open evaluation per profile.                   *)
SingleOpenEvaluation ==
  \A p \in Profiles : Cardinality(OpenOf(p)) <= 1

(* A scorer that saw IN_PROGRESS will not set the status, so the evaluation   *)
(* it writes to must already have left DRAFT for good.                        *)
SeenNeverAhead ==
  \A r \in Requests :
    req[r].pc = "persist" /\ req[r].seen # "DRAFT" =>
      status[req[r].eval] # "DRAFT"

Settled(e) == status[e] = "COMPLETED" /\ \A r \in Requests : ~Scoring(r, e)

(* Once a completed evaluation has no scorer left that read it before, its    *)
(* responses and its status never change again: every late write comes from   *)
(* a request that was already past the 409 check.                             *)
SettledStaysSettled ==
  [][\A e \in EvalIds :
       Settled(e) => Settled(e)' /\ responses'[e] = responses[e]]_vars

(* "calificar una evaluacion completada responde 409": the responses of a     *)
(* completed evaluation are not written.                                      *)
NoScoringAfterCompletion ==
  [][\A e \in EvalIds :
       status[e] = "COMPLETED" => responses'[e] = responses[e]]_vars

(* A completed evaluation stays completed. *)
CompletedIsFinal ==
  [][\A e \in EvalIds : status[e] = "COMPLETED" => status'[e] = "COMPLETED"]_vars

(* resolveScores answers with the persisted scores instead of computing them: *)
(* they must be those of the responses the evaluation has.                    *)
StoredFromResponses ==
  \A e \in EvalIds : status[e] = "COMPLETED" =>
    /\ stored[e] # None
    /\ \A i \in Indicators : stored[e][i] # None => stored[e][i] = responses[e][i]

=============================================================================
