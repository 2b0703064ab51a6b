------------------------------ MODULE ActionPlan ------------------------------
(***************************************************************************)
(* What the tools add to the common life of an evaluation: the flag of a   *)
(* critical KPI, the class of a risk, and the measures planned for them.   *)
(*                                                                         *)
(* RiskToolService overrides one hook of EvaluationToolService,            *)
(* persistResponses: it reads the threshold of the country first and       *)
(* classifies the risks in the transaction that writes the responses.      *)
(* IndicatorMeasureToolService keeps the common one.  Every other step of  *)
(* EvaluationLifecycle is taken as it is.  A measure is created by a       *)
(* request of its own, from the risk or the response it read before.       *)
(***************************************************************************)
EXTENDS EvaluationLifecycle

CONSTANTS
  Tools,              \* "RISK", or "INDICATOR" for the two other tools
  Spellings,          \* the ways of writing a country
  Upper,              \* toUpperCase, on spellings
  CountryOf,          \* the country of each profile, as it was typed
  Thresholds,         \* the thresholds an administrator may set
  TemplateThreshold,  \* that of the template; None when it has none
  Planners,           \* requests about measures that may be in flight
  ProgressSteps,      \* the values of progressPct
  MaxMeasures         \* bound on the measures ever created

ASSUME ToolAssumption == Tools \subseteq {"RISK", "INDICATOR"}
ASSUME ScoreAssumption == Scores \subseteq 1 .. 10
ASSUME CountryAssumption ==
  Upper \in [Spellings -> Spellings] /\ CountryOf \in [Profiles -> Spellings]
ASSUME ThresholdAssumption ==
  Thresholds \subseteq 1 .. 10 /\ TemplateThreshold \in 1 .. 10 \union {None}
ASSUME NoValueAssumption ==
  None \notin 1 .. 10 /\ None \notin {"NEGLIGIBLE", "NON_NEGLIGIBLE"}
ASSUME PlanAssumption ==
  /\ ProgressSteps \subseteq 0 .. 100 /\ 0 \in ProgressSteps
  /\ MaxMeasures \in Nat
  /\ IsFiniteSet(Planners)
ASSUME NoMeasureAssumption ==
  None \notin [eval : EvalIds, indicator : Indicators, progress : ProgressSteps,
               status : {"PENDING", "IN_PROGRESS", "DONE"}]

VARIABLES
  tool,      \* the tool of the template
  params,    \* riskThreshold of each country; None where there is no row
  flagged,   \* isCritical of each response; FALSE while there is none
  class,     \* the class of each risk; None while there is none
  rule,      \* the threshold a scorer has read; None before
  inForce,   \* history: the thresholds in force since a scorer began
  measures,  \* the measures; None for a row not yet created
  plan,      \* continuation of each planner
  needed     \* history: the KPI and risks a measure was ever allowed for

riskVars == <<params, class, rule, inForce>>
planVars == <<measures, plan>>
allVars == <<vars, tool, flagged, riskVars, planVars, needed>>

-----------------------------------------------------------------------------
CRITICAL_THRESHOLD == 5

classifyRisk(score, threshold) ==
  IF score > threshold THEN "NEGLIGIBLE" ELSE "NON_NEGLIGIBLE"

(* params.country ?? template.riskThreshold ?? 5.  The country is looked up   *)
(* as the profile spells it.                                                *)
Effective(p) ==
  IF params[CountryOf[p]] # None THEN params[CountryOf[p]]
  ELSE IF TemplateThreshold # None THEN TemplateThreshold
  ELSE 5

measureStatusFor(progress) ==
  IF progress >= 100 THEN "DONE"
  ELSE IF progress > 0 THEN "IN_PROGRESS" ELSE "PENDING"

(* What a measure may be created for, and what still waits for one. *)
Plannable(e, i) ==
  IF tool = "RISK" THEN class[e][i] = "NON_NEGLIGIBLE" ELSE flagged[e][i]

MeasureIds == 1 .. MaxMeasures
Created == {m \in MeasureIds : measures[m] # None}
Measured(e, i) == \E m \in Created : measures[m].eval = e /\ measures[m].indicator = i
Pending(e) == {i \in Indicators : Plannable(e, i) /\ ~Measured(e, i)}

NoPlan == [pc |-> "idle"]
Creation == [pc : {"create"}, eval : EvalIds, indicator : Indicators]
Progressing == [pc : {"progress"}, measure : MeasureIds]
GotoPlan(q, k) == plan' = [plan EXCEPT ![q] = k]

Note == needed' = needed \union
          {k \in EvalIds \X Indicators : Plannable(k[1], k[2])'}

-----------------------------------------------------------------------------
PlanInit ==
  /\ Init
  /\ tool \in Tools
  /\ params \in [Spellings -> Thresholds \union {None}]
  /\ \A s \in Spellings : Upper[s] # s => params[s] = None
  /\ flagged = [e \in EvalIds |-> [i \in Indicators |-> FALSE]]
  /\ class = [e \in EvalIds |-> [i \in Indicators |-> None]]
  /\ rule = [r \in Requests |-> None]
  /\ inForce = [r \in Requests |-> {}]
  /\ measures = [m \in MeasureIds |-> None]
  /\ plan = [q \in Planners |-> NoPlan]
  /\ needed = {}

(* A scorer begins: the common read, with the profile and the template. *)
BeginScore(r) ==
  /\ \E e \in EvalIds, b \in Batches :
       /\ ScoreRead(r, e, b)
       /\ inForce' = [inForce EXCEPT ![r] =
            IF tool = "RISK" THEN {Effective(owner[e])} ELSE {}]
  /\ UNCHANGED <<tool, params, flagged, class, rule, planVars, needed>>

(* Mutant: the parameter of the country is not looked up. *)
ResolveFromTemplate(r) ==
  /\ tool = "RISK" /\ req[r].pc = "persist" /\ rule[r] = None
  /\ rule' = [rule EXCEPT ![r] = IF TemplateThreshold # None THEN TemplateThreshold ELSE 5]
  /\ UNCHANGED <<vars, tool, params, flagged, class, inForce, planVars, needed>>

(* resolveRiskThreshold, before the transaction. *)
ResolveRiskThreshold(r) ==
  /\ tool = "RISK" /\ req[r].pc = "persist" /\ rule[r] = None
  /\ rule' = [rule EXCEPT ![r] = Effective(owner[req[r].eval])]
  /\ UNCHANGED <<vars, tool, params, flagged, class, inForce, planVars, needed>>

(* The columns a batch gives to its responses.  The evaluator may flag a KPI  *)
(* by hand; a KPI scored again without the mark loses it.                    *)
Flag(r, marked) ==
  flagged' = [flagged EXCEPT ![req[r].eval] =
    [i \in Indicators |->
       IF i \in DOMAIN req[r].batch
       THEN req[r].batch[i] <= CRITICAL_THRESHOLD \/ i \in marked ELSE @[i]]]

(* Mutant: a risk is updated where there is one, and not created. *)
ClassifyExisting(r) ==
  class' = [class EXCEPT ![req[r].eval] =
    [i \in Indicators |->
       IF i \in DOMAIN req[r].batch /\ @[i] # None
       THEN classifyRisk(req[r].batch[i], rule[r]) ELSE @[i]]]

Classify(r) ==
  class' = [class EXCEPT ![req[r].eval] =
    [i \in Indicators |->
       IF i \in DOMAIN req[r].batch
       THEN classifyRisk(req[r].batch[i], rule[r]) ELSE @[i]]]

(* persistResponses: one transaction.  In the risk tool it upserts the risks  *)
(* with the responses.                                                      *)
PersistResponses(r) ==
  /\ ScorePersist(r)
  /\ \E marked \in SUBSET DOMAIN req[r].batch : Flag(r, marked)
  /\ IF tool = "RISK" THEN rule[r] # None /\ Classify(r) ELSE UNCHANGED class
  /\ rule' = [rule EXCEPT ![r] = None]
  /\ inForce' = [inForce EXCEPT ![r] = {}]
  /\ UNCHANGED <<tool, params, planVars>>
  /\ Note

(* A call of a request is rejected. *)
Reject(r) ==
  /\ Fail(r)
  /\ rule' = [rule EXCEPT ![r] = None]
  /\ inForce' = [inForce EXCEPT ![r] = {}]
  /\ UNCHANGED <<tool, params, flagged, class, planVars, needed>>

(* The rest of the life of an evaluation, which no tool changes. *)
CommonFlow ==
  /\ \/ \E r \in Requests : Create(r) \/ ScoreMark(r) \/ Complete(r)
     \/ \E p \in Profiles, c \in Configs : SetApplicability(p, c)
  /\ UNCHANGED <<tool, flagged, riskVars, planVars, needed>>

(* The history of the scorers under way: a new threshold is in force. *)
Enforce ==
  inForce' = [r \in Requests |->
    IF tool = "RISK" /\ req[r].pc = "persist"
    THEN inForce[r] \union {Effective(owner[req[r].eval])'} ELSE inForce[r]]

(* upsertCountryParam and deleteCountryParam: the key is upper-cased. *)
UpsertCountryParam(s, t) ==
  /\ params' = [params EXCEPT ![Upper[s]] = t]
  /\ UNCHANGED <<vars, tool, flagged, class, rule, planVars, needed>>
  /\ Enforce

DeleteCountryParam(s) ==
  /\ params' = [params EXCEPT ![Upper[s]] = None]
  /\ UNCHANGED <<vars, tool, flagged, class, rule, planVars, needed>>
  /\ Enforce

(* A place for the measure is left. *)
Room ==
  Cardinality(Created) + Cardinality({q \in Planners : plan[q].pc = "create"})
    < MaxMeasures

(* Mutant: a measure for any risk or response there is. *)
MeasureReadAny(q, e, i) ==
  /\ plan[q] = NoPlan
  /\ Exists(e) /\ responses[e][i] # None
  /\ Room
  /\ GotoPlan(q, [pc |-> "create", eval |-> e, indicator |-> i])
  /\ UNCHANGED <<vars, tool, flagged, riskVars, measures, needed>>

(* createMeasure: the risk, or the evaluation with its responses, is read,    *)
(* whatever the status of the evaluation; 404 or 422 ends the request.       *)
MeasureRead(q, e, i) ==
  /\ plan[q] = NoPlan
  /\ Exists(e) /\ Plannable(e, i)
  /\ Room
  /\ GotoPlan(q, [pc |-> "create", eval |-> e, indicator |-> i])
  /\ UNCHANGED <<vars, tool, flagged, riskVars, measures, needed>>

MeasureCreate(q) ==
  /\ plan[q].pc = "create"
  /\ \E m \in MeasureIds \ Created :
       /\ \A n \in MeasureIds : n < m => n \in Created
       /\ measures' = [measures EXCEPT ![m] =
            [eval |-> plan[q].eval, indicator |-> plan[q].indicator,
             progress |-> 0, status |-> "PENDING"]]
  /\ GotoPlan(q, NoPlan)
  /\ UNCHANGED <<vars, tool, flagged, riskVars, needed>>

(* updateMeasureProgress: the measure is found, then updated. *)
ProgressRead(q, m) ==
  /\ plan[q] = NoPlan
  /\ m \in Created
  /\ GotoPlan(q, [pc |-> "progress", measure |-> m])
  /\ UNCHANGED <<vars, tool, flagged, riskVars, measures, needed>>

ProgressWrite(q, pct) ==
  /\ plan[q].pc = "progress"
  /\ measures' = [measures EXCEPT ![plan[q].measure] =
       [@ EXCEPT !.progress = pct, !.status = measureStatusFor(pct)]]
  /\ GotoPlan(q, NoPlan)
  /\ UNCHANGED <<vars, tool, flagged, riskVars, needed>>

RejectPlan(q) ==
  /\ plan[q] # NoPlan
  /\ GotoPlan(q, NoPlan)
  /\ UNCHANGED <<vars, tool, flagged, riskVars, measures, needed>>

PlanNext ==
  \/ \E r \in Requests :
       BeginScore(r) \/ ResolveRiskThreshold(r) \/ PersistResponses(r) \/ Reject(r)
  \/ CommonFlow
  \/ \E s \in Spellings :
       DeleteCountryParam(s) \/ \E t \in Thresholds : UpsertCountryParam(s, t)
  \/ \E q \in Planners :
       \/ \E e \in EvalIds, i \in Indicators : MeasureRead(q, e, i)
       \/ MeasureCreate(q)
       \/ \E m \in MeasureIds : ProgressRead(q, m)
       \/ \E pct \in ProgressSteps : ProgressWrite(q, pct)
       \/ RejectPlan(q)

PlanSpec == PlanInit /\ [][PlanNext]_allVars

-----------------------------------------------------------------------------
(* Properties.                                                              *)

Row == [eval : EvalIds, indicator : Indicators, progress : ProgressSteps,
        status : {"PENDING", "IN_PROGRESS", "DONE"}]

(* Columns and continuations hold values of their types, and the status of a  *)
(* measure is that of its progress.                                         *)
PlanTypeOK ==
  /\ tool \in Tools
  /\ params \in [Spellings -> Thresholds \union {None}]
  /\ flagged \in [EvalIds -> [Indicators -> BOOLEAN]]
  /\ class \in [EvalIds -> [Indicators -> {"NEGLIGIBLE", "NON_NEGLIGIBLE", None}]]
  /\ rule \in [Requests -> 1 .. 10 \union {None}]
  /\ inForce \in [Requests -> SUBSET (1 .. 10)]
  /\ measures \in [MeasureIds -> Row \union {None}]
  /\ \A m \in Created : measures[m].status = measureStatusFor(measures[m].progress)
  /\ plan \in [Planners -> {NoPlan} \union Creation \union Progressing]
  /\ \A q \in Planners : plan[q].pc = "progress" => plan[q].measure \in Created
  /\ needed \subseteq EvalIds \X Indicators

(* "Respuestas y riesgos clasificados se guardan en la misma transaccion":    *)
(* in the risk tool a KPI has a classified risk exactly when it has a         *)
(* response, whatever fails and whoever else is scoring it.                  *)
RiskPerResponse ==
  tool = "RISK" =>
    \A e \in EvalIds, i \in Indicators : class[e][i] = None <=> responses[e][i] = None

(* The threshold is read before the transaction and may be changed in         *)
(* between.  What is promised is a classification as of some moment of the    *)
(* request: all the risks it classifies follow one threshold that was in      *)
(* force between its first read and its write.                              *)
ClassifiedInForce ==
  [][\A e \in EvalIds : class'[e] # class[e] =>
       \E r \in Requests : \E t \in inForce[r] :
         /\ req[r].eval = e
         /\ \A i \in Indicators : class'[e][i] # class[e][i] =>
              class'[e][i] = classifyRisk(responses'[e][i], t)]_allVars

(* "Solo se puede crear una medida sobre un riesgo NON_NEGLIGIBLE", and for a  *)
(* critical KPI.  The risk is read before the measure is created and may be   *)
(* classified again in between; a measure still never appears where none was  *)
(* ever allowed.                                                            *)
MeasuresWereNeeded ==
  \A m \in Created : <<measures[m].eval, measures[m].indicator>> \in needed

(* The list of what waits for a measure in a completed evaluation, which the  *)
(* impact priority and the AI suggestions work on, only gets shorter, for     *)
(* good, once the scorers that had read it before have finished, whatever     *)
(* administrators do to the thresholds.                                     *)
PendingOnlyShrinks ==
  [][\A e \in EvalIds :
       Settled(e) => Settled(e)' /\ Pending(e)' \subseteq Pending(e)]_allVars

=============================================================================
