---------------------------- MODULE ScoreReadings ----------------------------
(***************************************************************************)
(* What the readers of one tool answer about the same database: the        *)
(* summary of an evaluation, the panel of organisations, the overview of   *)
(* an association, the history of a profile, the dashboard, the ranking by *)
(* impact and the Gantt chart.  Some answer the scores persisted on        *)
(* completion, others compute them again from the responses, under         *)
(* exclusions that may have changed since.                                 *)
(*                                                                         *)
(* Each request is one step here; how their database calls interleave is   *)
(* the matter of EvaluationLifecycle.  Evaluations are numbered in the     *)
(* order they start.  Sections are known by their number and KPI by their  *)
(* code, which is how the versions of the template are compared.  What     *)
(* provisioning an organisation again does to version 1 is modelled as far *)
(* as its weights; the rows it may add to it are not.                      *)
(***************************************************************************)
EXTENDS Statistics

CONSTANTS
  Profiles,
  Level2,       \* the Level 2 associations among them
  ParentOf,     \* the parent of each profile, or None
  Template,     \* for each version: the weights of its sections, and its KPI
  Provisioned,  \* the weights that provisioning gives to version 1, by section and KPI
  Scores,
  DemoOwners,   \* the profiles of the demonstration data, as their evaluations start
  DemoAnswers,  \* the scores that data may give them
  MaxEvals,     \* bound: evaluations started
  MaxMeasures,  \* bound: measures, those of the demonstration data included
  MaxCompletions, \* bound: completions, those of the demonstration data included
  MaxRows       \* bound: rows excluded for one profile

VARIABLES
  evals,        \* the evaluations, in the order they started
  excluded,     \* section numbers and KPI codes that do not apply to a profile
  measures,     \* the measures: of which evaluation and KPI, and their progress
  version,      \* the version in force
  weights,      \* the weights of the sections and of the KPI of each version
  under         \* history: the exclusions and weights each evaluation was completed under

vars == <<evals, excluded, measures, version, weights, under>>

ASSUME ReadingsAssumption ==
  /\ IsFiniteSet(Profiles) /\ Level2 \subseteq Profiles
  /\ ParentOf \in [Profiles -> Profiles \union {None}]
  /\ Scores \subseteq 0..10
  /\ None \notin Nat /\ None \notin [score : Scores, manual : BOOLEAN]
  /\ \A v \in DOMAIN Template :
       None \notin [global : Int, sections : [DOMAIN Template[v].sections ->
                                               [avg : Int, critical : BOOLEAN]]]

(* A section has a weight, a KPI the section it is of; weights are not negative. *)
ASSUME TemplateAssumption ==
  \A v \in DOMAIN Template :
    LET sections == Template[v].sections
        kpis == Template[v].kpis
    IN /\ IsFiniteSet(DOMAIN sections) /\ IsFiniteSet(DOMAIN kpis)
       /\ sections \in [DOMAIN sections -> Nat]
       /\ kpis \in [DOMAIN kpis -> [section : DOMAIN sections, weight : Nat, active : BOOLEAN]]

(* What provisioning writes are rows of sections and of their KPI.            *)
ASSUME ProvisionedAssumption ==
  /\ Provisioned.sections \in [DOMAIN Provisioned.sections -> Nat]
  /\ \A k \in DOMAIN Provisioned.kpis : Provisioned.kpis[k].weight \in Nat

(* In the template the demonstration data answer every section has KPI and all *)
(* of them are active.                                                        *)
ASSUME DemoAssumption ==
  /\ 1 \in DOMAIN Template
  /\ LET kpis == Template[1].kpis
     IN /\ \A n \in DOMAIN Template[1].sections : \E k \in DOMAIN kpis : kpis[k].section = n
        /\ \A k \in DOMAIN kpis : kpis[k].active
  /\ DemoOwners \in Seq(Profiles)
  /\ DemoAnswers \subseteq [DOMAIN DemoOwners -> [DOMAIN Template[1].kpis -> Scores]]

CRITICAL_THRESHOLD == 5

-----------------------------------------------------------------------------
Kpis(v) == DOMAIN Template[v].kpis
SectionNumbers(v) == DOMAIN Template[v].sections
KpisOf(v, n) == {k \in Kpis(v) : Template[v].kpis[k].section = n}
FirstWeights(v) ==
  [sections |-> Template[v].sections, kpis |-> [k \in Kpis(v) |-> Template[v].kpis[k].weight]]

(* A response is critical by its score, or because the evaluator says so.     *)
Responses == {x \in [score : Scores, manual : BOOLEAN] : x.manual => x.score > CRITICAL_THRESHOLD}
IsCritical(x) == x.score <= CRITICAL_THRESHOLD \/ x.manual

Evals == DOMAIN evals
EvalsOf(p) == {e \in Evals : evals[e].profile = p}
IsOpen(e) == evals[e].status \in {"DRAFT", "IN_PROGRESS"}
WeightsOf(e) == weights[evals[e].version]
Answered(e) == {k \in Kpis(evals[e].version) : evals[e].answers[k] # None}
Critical(e) == {k \in Answered(e) : IsCritical(evals[e].answers[k])}
ScoreOf(e, k) == evals[e].answers[k].score

(* Mutant: the KPI of an excluded section are left in.                        *)
ExpandOwnCodes(p, v) ==
  [sections |-> excluded[p].numbers \intersect SectionNumbers(v),
   kpis |-> excluded[p].codes \intersect Kpis(v)]

(* expandExclusions: what is excluded in any version is excluded in all that  *)
(* have a section of that number or a KPI of that code; a section takes the   *)
(* KPI it has in that version.                                               *)
ExpandExclusions(p, v) ==
  LET numbers == excluded[p].numbers \intersect SectionNumbers(v)
  IN [sections |-> numbers,
      kpis |-> (excluded[p].codes \intersect Kpis(v)) \union UNION {KpisOf(v, n) : n \in numbers}]

ExcludedFor(e) == ExpandExclusions(evals[e].profile, evals[e].version)

(* The weighted average of the answers to some KPI, in hundredths.            *)
Average(w, e, ks) == WeightedAverage(w.kpis, [k \in ks |-> 100 * ScoreOf(e, k)])
ScoredKpis(e, n, without) ==
  {k \in Answered(e) \ without :
     LET kpi == Template[evals[e].version].kpis[k] IN kpi.active /\ kpi.section = n}

(* The averages of the sections that have a scored KPI: the global score       *)
(* averages those.                                                            *)
Averages(w, e, sections, without) ==
  [n \in {m \in sections : ScoredKpis(e, m, without) # {}} |->
    Average(w, e, ScoredKpis(e, n, without))]
GlobalScore(w, averages) == WeightedAverage(w.sections, averages)

(* Mutant: the sections without answers count as zeros. *)
ComputeScoresAll(w, e, without) ==
  LET sections == SectionNumbers(evals[e].version)
      averages == [n \in sections |-> Average(w, e, ScoredKpis(e, n, without))]
  IN [global |-> GlobalScore(w, averages),
      sections |-> [n \in sections |-> [avg |-> averages[n], critical |-> averages[n] <= 500]]]

ScoresFrom(w, e, averages) ==
  [global |-> GlobalScore(w, averages),
   sections |-> [n \in SectionNumbers(evals[e].version) |->
     IF n \in DOMAIN averages
     THEN [avg |-> averages[n], critical |-> averages[n] <= 100 * CRITICAL_THRESHOLD]
     ELSE [avg |-> 0, critical |-> FALSE]]]
ComputeScores(w, e, without) ==
  ScoresFrom(w, e, Averages(w, e, SectionNumbers(evals[e].version), without))

(* What the scores of an evaluation are computed under, as it is now.         *)
Terms(e) == [without |-> ExcludedFor(e), weights |-> WeightsOf(e)]
ScoresNow(e) == ComputeScores(WeightsOf(e), e, ExcludedFor(e).kpis)

-----------------------------------------------------------------------------
(* What changes the database: one step for each request.                      *)
Applies(e) ==
  LET v == evals[e].version IN
  {k \in Kpis(v) \ ExcludedFor(e).kpis : Template[v].kpis[k].active}

CreateEvaluation(p) ==
  /\ Len(evals) < MaxEvals
  /\ \A e \in EvalsOf(p) : ~IsOpen(e)
  /\ evals' = Append(evals, [profile |-> p, version |-> version, status |-> "DRAFT",
                             answers |-> [k \in Kpis(version) |-> None],
                             stored |-> None, at |-> 0])
  /\ under' = Append(under, None)
  /\ UNCHANGED <<excluded, measures, version, weights>>

UpsertResponse(e, k, x) ==
  /\ IsOpen(e)
  /\ evals' = [evals EXCEPT ![e].answers[k] = x, ![e].status = "IN_PROGRESS"]
  /\ UNCHANGED <<excluded, measures, version, weights, under>>

LastCompletion == Max({evals[e].at : e \in Evals})

(* complete looks at no status: one that is completed is scored again.        *)
Complete(e) ==
  /\ LastCompletion < MaxCompletions
  /\ Applies(e) \subseteq Answered(e)
  /\ evals' = [evals EXCEPT ![e].status = "COMPLETED", ![e].at = LastCompletion + 1,
                            ![e].stored = ScoresNow(e)]
  /\ under' = [under EXCEPT ![e] = Terms(e)]
  /\ UNCHANGED <<excluded, measures, version, weights>>

SetApplicability(p, rows) ==
  /\ Cardinality(rows.numbers) + Cardinality(rows.codes) <= MaxRows
  /\ excluded' = [excluded EXCEPT ![p] = rows]
  /\ UNCHANGED <<evals, measures, version, weights, under>>

(* An edit of a template that evaluations use puts a new version in force.    *)
PublishVersion ==
  /\ version + 1 \in DOMAIN Template
  /\ version' = version + 1
  /\ UNCHANGED <<evals, excluded, measures, weights, under>>

(* Provisioning an organisation again: every row of version 1 that is there    *)
(* gets the weight it is provisioned with, one upsert after another, whatever  *)
(* was completed with the weight it had.                                      *)
ReprovisionSection(n) ==
  /\ n \in DOMAIN Provisioned.sections
  /\ weights' = [weights EXCEPT ![1].sections[n] = Provisioned.sections[n]]
  /\ UNCHANGED <<evals, excluded, measures, version, under>>

ReprovisionKpi(k) ==
  /\ k \in DOMAIN Provisioned.kpis
  /\ Provisioned.kpis[k].section = Template[1].kpis[k].section
  /\ weights' = [weights EXCEPT ![1].kpis[k] = Provisioned.kpis[k].weight]
  /\ UNCHANGED <<evals, excluded, measures, version, under>>

(* The measures of an evaluation, by their place among all of them; a KPI may  *)
(* have several.                                                              *)
MeasuresOf(e) == {i \in DOMAIN measures : measures[i].eval = e}
Measured(e) == {measures[i].kpi : i \in MeasuresOf(e)}

CreateMeasure(e, k) ==
  /\ Len(measures) < MaxMeasures
  /\ k \in Critical(e)
  /\ measures' = Append(measures, [eval |-> e, kpi |-> k, progress |-> 0])
  /\ UNCHANGED <<evals, excluded, version, weights, under>>

UpdateProgress(i, progress) ==
  /\ measures' = [measures EXCEPT ![i].progress = progress]
  /\ UNCHANGED <<evals, excluded, version, weights, under>>

MeasureStatus(m) ==
  IF m.progress = 100 THEN "DONE" ELSE IF m.progress = 0 THEN "PENDING" ELSE "IN_PROGRESS"

-----------------------------------------------------------------------------
(* The readers. *)

(* Mutant: scores are always computed again. *)
ResolveScoresLive(e) == ScoresNow(e)

ResolveScores(e) ==
  IF evals[e].status = "COMPLETED" THEN evals[e].stored ELSE ScoresNow(e)

Summary(e) == [scores |-> ResolveScores(e), critical |-> Critical(e)]

(* The form of an evaluation: its scores, and which KPI apply to its profile.  *)
EvaluationPayload(e) ==
  LET without == ExcludedFor(e)
      kpis == Template[evals[e].version].kpis
  IN [scores |-> ResolveScores(e),
      applicable |-> {k \in DOMAIN kpis : kpis[k].section \notin without.sections
                                         /\ k \notin without.kpis}]

(* Every reader of profiles takes the evaluation that started last.           *)
HasEvaluation(p) == EvalsOf(p) # {}
Latest(p) == Max(EvalsOf(p))

(* The panel: one batch of exclusions, for those that are not completed. A    *)
(* score is a fraction, since that of a consolidated row is not rounded.     *)
OwnRow(p) ==
  LET e == Latest(p)
      scores == IF evals[e].status = "COMPLETED" THEN evals[e].stored ELSE ScoresNow(e)
  IN [profile |-> p, eval |-> e, status |-> evals[e].status, sum |-> scores.global, n |-> 1,
      sections |-> scores.sections, critical |-> Cardinality(Critical(e))]

NoRow(p) == [profile |-> p, eval |-> None, status |-> None, sum |-> 0, n |-> 0,
             sections |-> <<>>, critical |-> 0]

ChildrenOf(p) == {c \in Profiles : ParentOf[c] = p}
Evaluated(p) == {c \in ChildrenOf(p) : HasEvaluation(c)}

(* A Level 2 association without evaluations shows the mean of its members';  *)
(* its sections are those of any of them, by number.                         *)
ConsolidatedRow(p, rows) ==
  LET having(n) == {r \in rows : n \in DOMAIN r.sections}
      numbers == UNION {DOMAIN r.sections : r \in rows}
  IN [profile |-> p, eval |-> None, status |-> None,
      sum |-> SumFunction([r \in rows |-> r.sum]), n |-> Cardinality(rows),
      sections |-> [n \in numbers |->
        [avg |-> RoundDiv(SumFunction([r \in having(n) |-> r.sections[n].avg]),
                          Cardinality(having(n))),
         critical |-> \E r \in having(n) : r.sections[n].critical]],
      critical |-> SumFunction([r \in rows |-> r.critical])]

OrganisationRow(p) ==
  IF HasEvaluation(p) THEN OwnRow(p)
  ELSE IF p \in Level2 /\ Evaluated(p) # {}
       THEN ConsolidatedRow(p, {OwnRow(c) : c \in Evaluated(p)})
  ELSE NoRow(p)

TopLevel == {p \in Profiles : ParentOf[p] = None}

(* Compliance is the mean of the rows that have a score, in whole percents.   *)
Compliance(scored) ==
  LET common == FoldFunction(LAMBDA n, d : n * d, 1, [r \in scored |-> r.n]) IN
  IF scored = {} THEN 0
  ELSE RoundDiv(SumFunction([r \in scored |-> (common \div r.n) * r.sum]),
                common * Cardinality(scored) * 10)
OverviewOf(rows) ==
  [active |-> Quantify(rows, LAMBDA r : r.status \in {"DRAFT", "IN_PROGRESS"}),
   critical |-> MapThenSumSet(LAMBDA r : r.critical, rows),
   compliance |-> Compliance({r \in rows : r.n > 0}),
   rows |-> rows]
OrganisationsOverview == OverviewOf({OrganisationRow(p) : p \in TopLevel})

(* The overview of an association: what each of its members persisted last.   *)
ToolScore(p) ==
  IF ~HasEvaluation(p) THEN None
  ELSE [status |-> evals[Latest(p)].status,
        global |-> IF evals[Latest(p)].stored = None THEN None
                   ELSE evals[Latest(p)].stored.global]
AssociationOverview(p) ==
  [own |-> ToolScore(p), children |-> [c \in ChildrenOf(p) |-> ToolScore(c)]]

(* The history of a profile: its completed evaluations, as they completed.    *)
EvaluationHistory(p) ==
  LET completed == {e \in EvalsOf(p) : evals[e].status = "COMPLETED"}
      order == InOrder(completed, [e \in completed |-> evals[e].at])
  IN [i \in DOMAIN order |->
       LET e == order[i] IN
       [eval |-> e, global |-> evals[e].stored.global,
        total |-> Cardinality(MeasuresOf(e)),
        done |-> Quantify(MeasuresOf(e), LAMBDA m : MeasureStatus(measures[m]) = "DONE")]]

(* The dashboard computes the score again, under the exclusions there are.    *)
Dashboard(p) ==
  LET e == Latest(p)
      without == ExcludedFor(e)
      numbers == SectionNumbers(evals[e].version) \ without.sections
      averages == Averages(WeightsOf(e), e, numbers, without.kpis)
  IN [global |-> IF averages = <<>> THEN None ELSE GlobalScore(WeightsOf(e), averages),
      alerts |-> Cardinality(Critical(e) \ Measured(e))]

(* What still needs a measure, heaviest impact first.  A KPI that was marked  *)
(* by hand may have a negative one.                                          *)
Impact(e, k) ==
  WeightsOf(e).kpis[k] * (CRITICAL_THRESHOLD - ScoreOf(e, k))
ImpactPriority(e) ==
  LET unmeasured == Critical(e) \ Measured(e)
  IN InOrder(unmeasured, [k \in unmeasured |-> -Impact(e, k)])

(* The plan of a profile is the measures of all its evaluations; the          *)
(* consolidated Gantt chart has one bar for them.                             *)
Planned(p) == {i \in DOMAIN measures : measures[i].eval \in EvalsOf(p)}
ProfilePlan(p) ==
  [i \in Planned(p) |->
    [eval |-> measures[i].eval, kpi |-> measures[i].kpi,
     status |-> MeasureStatus(measures[i]), progress |-> measures[i].progress]]
Gantt(p) ==
  LET list == Planned(p)
      statuses == {MeasureStatus(measures[i]) : i \in list}
  IN [status |-> IF statuses = {"DONE"} THEN "DONE"
                 ELSE IF statuses = {"PENDING"} THEN "PENDING" ELSE "IN_PROGRESS",
      progress |-> RoundDiv(MapThenSumSet(LAMBDA i : measures[i].progress, list),
                            Cardinality(list))]

-----------------------------------------------------------------------------
(* The database as the demonstration data leave it: evaluations that are       *)
(* completed with every KPI answered; some critical KPI of an organisation's   *)
(* first evaluation have a measure.                                           *)
SeedScores(answers) ==
  LET w == FirstWeights(1)
      avg == [n \in SectionNumbers(1) |->
               WeightedAverage(w.kpis, [k \in KpisOf(1, n) |-> 100 * answers[k].score])]
  IN [global |-> WeightedAverage(w.sections, avg),
      sections |-> [n \in SectionNumbers(1) |->
                      [avg |-> avg[n], critical |-> avg[n] <= 100 * CRITICAL_THRESHOLD]]]

Seeded(p, at, answers) ==
  [profile |-> p, version |-> 1, status |-> "COMPLETED", answers |-> answers,
   stored |-> SeedScores(answers), at |-> at]

Nothing == [numbers |-> {}, codes |-> {}]
Progress == {0, 100}
FirstOf(p) == Min({e \in DOMAIN DemoOwners : DemoOwners[e] = p})

SeedAnswers(scores) ==
  [e \in DOMAIN scores |-> [k \in Kpis(1) |-> [score |-> scores[e][k], manual |-> FALSE]]]

SeedMeasures(answers) ==
  LET critical == {x \in {FirstOf(p) : p \in ToSet(DemoOwners)} \X Kpis(1) :
                     IsCritical(answers[x[1]][x[2]])}
      lists == {SetToSeq(S) : S \in {S \in SUBSET critical : Cardinality(S) <= MaxMeasures}}
  IN UNION {{[i \in DOMAIN list |->
               [eval |-> list[i][1], kpi |-> list[i][2], progress |-> progress[i]]] :
              progress \in [DOMAIN list -> Progress]} : list \in lists}

Init ==
  /\ version = 1
  /\ excluded = [p \in Profiles |-> Nothing]
  /\ weights = [v \in DOMAIN Template |-> FirstWeights(v)]
  /\ under = [e \in DOMAIN DemoOwners |->
               [without |-> [sections |-> {}, kpis |-> {}], weights |-> FirstWeights(1)]]
  /\ \E scores \in DemoAnswers :
       /\ evals = [e \in DOMAIN scores |-> Seeded(DemoOwners[e], e, SeedAnswers(scores)[e])]
       /\ measures \in SeedMeasures(SeedAnswers(scores))

(* The rows an administrator marks: of versions there are.                    *)
Rows ==
  LET versions == {v \in DOMAIN Template : v <= version} IN
  [numbers : SUBSET UNION {SectionNumbers(v) : v \in versions},
   codes : SUBSET UNION {Kpis(v) : v \in versions}]

Next ==
  \/ \E p \in Profiles : CreateEvaluation(p)
  \/ \E e \in Evals : \E k \in Kpis(evals[e].version), x \in Responses : UpsertResponse(e, k, x)
  \/ \E e \in Evals : Complete(e)
  \/ \E p \in Profiles, rows \in Rows : SetApplicability(p, rows)
  \/ PublishVersion
  \/ \E n \in SectionNumbers(1) : ReprovisionSection(n)
  \/ \E k \in Kpis(1) : ReprovisionKpi(k)
  \/ \E e \in Evals : \E k \in Kpis(evals[e].version) : CreateMeasure(e, k)
  \/ \E i \in DOMAIN measures, progress \in Progress : UpdateProgress(i, progress)

Spec == Init /\ [][Next]_vars

-----------------------------------------------------------------------------
(* Evaluations answer the KPI of their version and persist its sections, and a *)
(* measure is of a KPI of its evaluation.                                     *)
AllNumbers == UNION {SectionNumbers(v) : v \in DOMAIN Template}
AllKpis == UNION {Kpis(v) : v \in DOMAIN Template}
WeightsIn(v) == [sections : [SectionNumbers(v) -> Nat], kpis : [Kpis(v) -> Nat]]
AllWeights == UNION {WeightsIn(v) : v \in DOMAIN Template}
StoredScores(v) ==
  [global : Int, sections : [SectionNumbers(v) -> [avg : Int, critical : BOOLEAN]]]
Evaluations(v) ==
  [profile : Profiles, version : {v}, status : {"DRAFT", "IN_PROGRESS", "COMPLETED"},
   answers : [Kpis(v) -> Responses \union {None}],
   stored : StoredScores(v) \union {None}, at : Nat]

TypeOK ==
  /\ version \in DOMAIN Template
  /\ excluded \in [Profiles -> [numbers : SUBSET AllNumbers, codes : SUBSET AllKpis]]
  /\ evals \in Seq(ToSet(evals))
  /\ \A e \in Evals : /\ evals[e].version \in DOMAIN Template
                      /\ evals[e] \in Evaluations(evals[e].version)
  /\ weights \in [DOMAIN Template -> AllWeights]
  /\ \A v \in DOMAIN Template : weights[v] \in WeightsIn(v)
  /\ under \in Seq([without : [sections : SUBSET AllNumbers, kpis : SUBSET AllKpis],
                    weights : AllWeights] \union {None})
  /\ Len(under) = Len(evals)
  /\ measures \in Seq([eval : Evals, kpi : AllKpis, progress : Progress])
  /\ \A i \in DOMAIN measures : measures[i].kpi \in Kpis(evals[measures[i].eval].version)

(* What an evaluation was scored under, or would be now.                      *)
ScoredUnder(e) == IF evals[e].status = "COMPLETED" THEN under[e] ELSE Terms(e)
Under(e) == ScoredUnder(e).without.kpis
Unscored(e, without) == \A n \in SectionNumbers(evals[e].version) : ScoredKpis(e, n, without) = {}

(* The panel, the history and the overview of an association answer the score *)
(* the summary answers, whatever was excluded or weighed otherwise after a     *)
(* completion, and count the same critical KPI; the alerts of the dashboard are *)
(* the KPI the plan ranks; the plan of a profile lists the measures its history *)
(* counts, several of one KPI too, and its bar is done when all of them are;   *)
(* and what scores is shown as applicable.                                    *)
RowAgrees(p, row, summary) ==
  /\ row.sum = summary.scores.global
  /\ row.sections = summary.scores.sections
  /\ row.critical = Cardinality(summary.critical)
  /\ row.status = "COMPLETED" => AssociationOverview(p).own.global = summary.scores.global
  /\ Dashboard(p).alerts = Len(ImpactPriority(row.eval))
  /\ row.status # "COMPLETED" =>
       \A n \in DOMAIN row.sections :
         ScoredKpis(row.eval, n, Under(row.eval)) \subseteq EvaluationPayload(row.eval).applicable
HistoryAgrees(p, history) ==
  /\ \A h \in history :
       LET rows == {i \in DOMAIN ProfilePlan(p) : ProfilePlan(p)[i].eval = h.eval} IN
       /\ h.global = ResolveScores(h.eval).global
       /\ Cardinality(rows) = h.total
       /\ Quantify(rows, LAMBDA i : ProfilePlan(p)[i].status = "DONE") = h.done
  /\ EvalsOf(p) = {h.eval : h \in history} /\ Planned(p) # {} =>
       (Gantt(p).status = "DONE" <=> \A h \in history : h.done = h.total)
ReadersAgree ==
  \A p \in Profiles : HasEvaluation(p) =>
    /\ RowAgrees(p, OrganisationRow(p), Summary(Latest(p)))
    /\ HistoryAgrees(p, ToSet(EvaluationHistory(p)))

DashboardAgrees ==
  \A p \in Profiles : HasEvaluation(p) =>
    LET e == Latest(p) IN
    ScoredUnder(e) = Terms(e) =>
      Dashboard(p).global = IF Unscored(e, ExcludedFor(e).kpis) THEN None
                            ELSE ResolveScores(e).global

(* Every average lies between what it averages, through the roundings: the    *)
(* section its answers, unless all their weights are zero, the global score    *)
(* its sections, the compliance of the panel its rows, and a row that is        *)
(* consolidated the members of the association.  A section without scored KPI  *)
(* is a zero that is not critical and that the global score leaves out.        *)
Between(x, values) ==
  values # {} => /\ \E v \in values : v <= x
                 /\ \E v \in values : x <= v

EvaluationBetween(e, scores) ==
  LET w == ScoredUnder(e).weights
      scored == [n \in DOMAIN w.sections |-> ScoredKpis(e, n, Under(e))]
  IN /\ \A n \in DOMAIN w.sections :
          /\ scored[n] = {} => scores.sections[n] = [avg |-> 0, critical |-> FALSE]
          /\ Between(scores.sections[n].avg,
                     {100 * ScoreOf(e, k) : k \in {j \in scored[n] : w.kpis[j] > 0}})
     /\ Between(scores.global, {scores.sections[n].avg :
                 n \in {m \in DOMAIN w.sections : scored[m] # {} /\ w.sections[m] > 0}})

PanelBetween(panel) ==
  LET scored == {r \in panel.rows : r.n > 0}
  IN /\ scored # {} => /\ \E r \in scored : (10 * panel.compliance - 5) * r.n <= r.sum
                       /\ \E r \in scored : (10 * panel.compliance + 5) * r.n >= r.sum
     /\ \A r \in scored : r.eval = None =>
          Between(r.sum, {r.n * OwnRow(c).sum : c \in Evaluated(r.profile)})

ScoresBetween ==
  /\ PanelBetween(OrganisationsOverview)
  /\ \A e \in Evals : EvaluationBetween(e, ResolveScores(e))

=============================================================================
