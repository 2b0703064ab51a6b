------------------------------- MODULE Analytics -------------------------------
(***************************************************************************)
(* The analytics of one tool over the database of ScoreReadings: the data  *)
(* set computes every score again, without exclusions, and the breakdowns  *)
(* compare organisations by the last evaluation they answered, or by the   *)
(* first and the last they completed.                                      *)
(***************************************************************************)
EXTENDS ScoreReadings

CONSTANTS
  SegmentOf,    \* what profiles are segmented by: country, region, ...
  OtherTool     \* the last evaluations of another tool, as LatestByProfile has them

(* A profile where that is not known is in a segment of its own kind. *)
ASSUME SegmentAssumption == DOMAIN SegmentOf = Profiles
ASSUME OtherToolAssumption ==
  /\ DOMAIN OtherTool \subseteq Profiles
  /\ \A p \in DOMAIN OtherTool :
       /\ OtherTool[p].global \in Int \union {None}
       /\ OtherTool[p].sections \in [DOMAIN OtherTool[p].sections -> Int]

(* The structure to compare by: the template of the evaluation that started   *)
(* last, or the newest one.                                                  *)
Reference == IF evals = <<>> THEN version ELSE evals[Len(evals)].version
References == SectionNumbers(Reference)

(* An evaluation in the data set: no exclusions, and no section or score where *)
(* nothing is scored.                                                         *)
EvaluationEntry(e) ==
  LET sections == Averages(WeightsOf(e), e, SectionNumbers(evals[e].version), {})
  IN [eval |-> e, sections |-> sections,
      global |-> IF sections = <<>> THEN None ELSE GlobalScore(WeightsOf(e), sections)]

(* What every analysis starts from: for each profile, the last evaluation that *)
(* has answers.                                                               *)
WithAnswers(p) == {e \in EvalsOf(p) : Answered(e) # {}}
LatestByProfile ==
  [p \in {q \in Profiles : WithAnswers(q) # {}} |-> EvaluationEntry(Max(WithAnswers(p)))]
Scored(latest) == {p \in DOMAIN latest : latest[p].global # None}
Having(latest, n) == {p \in DOMAIN latest : n \in DOMAIN latest[p].sections}

Each(S, V(_)) == LET order == SetToSeq(S) IN [i \in DOMAIN order |-> V(order[i])]
Globals(latest, S) == Each(S, LAMBDA p : latest[p].global)

(* Here a KPI is critical by its score alone. *)
Low(e) == {k \in Answered(e) : ScoreOf(e, k) <= CRITICAL_THRESHOLD}

-----------------------------------------------------------------------------
(* 1. Overview.  The coverage divides the codes that have a measure in any    *)
(* organisation by the critical KPI of all of them.                          *)
Overview(latest) ==
  LET globals == Globals(latest, Scored(latest))
      values(n) == Each(Having(latest, n), LAMBDA p : latest[p].sections[n])
  IN [evaluated |-> Cardinality(DOMAIN latest),
      avg |-> Mean(globals), median |-> Median(globals),
      critical |-> Quantify(DOMAIN globals, LAMBDA i : globals[i] <= 500),
      high |-> Quantify(DOMAIN globals, LAMBDA i : globals[i] >= 700),
      histogram |-> Histogram(globals, 5, 1000),
      sections |-> [n \in References |-> Mean(values(n))],
      coverage |-> [measured |-> UNION {Measured(latest[p].eval) : p \in DOMAIN latest},
                    critical |-> Total([p \in DOMAIN latest |-> Cardinality(Low(latest[p].eval))])]]

(* 2. Systemic gaps: rate of critical answers x weight x distance from 6, at   *)
(* least a half, in hundredths.                                              *)
Gap(latest, k) ==
  LET evaluated == {p \in DOMAIN latest : k \in Answered(latest[p].eval)}
      critical == {p \in evaluated : k \in Low(latest[p].eval)}
      n == Cardinality(evaluated)
      total == Total([p \in evaluated |-> ScoreOf(latest[p].eval, k)])
      distance == Max({n, 2 * ((CRITICAL_THRESHOLD + 1) * n - total)})
  IN [evaluated |-> evaluated, critical |-> critical,
      withMeasure |-> {p \in critical : k \in Measured(latest[p].eval)},
      priority |-> IF n = 0 THEN 0
                   ELSE RoundDiv(100 * Cardinality(critical) * weights[Reference].kpis[k]
                                 * distance, 2 * n * n)]
SystemicGaps(latest) == [k \in Kpis(Reference) |-> Gap(latest, k)]

(* The trend: the completed evaluations that have a score, by the month of     *)
(* their date.                                                                *)
Trend(month) ==
  LET completed == {e \in Evals : evals[e].status = "COMPLETED" /\ EvaluationEntry(e).global # None}
      months == {month[evals[e].at] : e \in completed}
      of(m) == Each({e \in completed : month[evals[e].at] = m},
                    LAMBDA e : EvaluationEntry(e).global)
  IN [m \in months |-> [avg |-> Mean(of(m)), count |-> Len(of(m))]]

(* 3. Correlations.  A section drives its tool as far as its averages grow     *)
(* with the global scores.                                                    *)
Driver(latest, n) ==
  LET order == SetToSeq(Scored(latest) \intersect Having(latest, n))
  IN Pearson([i \in DOMAIN order |-> latest[order[i]].sections[n]],
             [i \in DOMAIN order |-> latest[order[i]].global])

(* A section of one tool against a section of another, over the organisations  *)
(* that have both.                                                            *)
CrossTool(a, sa, b, sb) ==
  LET order == SetToSeq(Having(a, sa) \intersect Having(b, sb))
  IN Pearson([i \in DOMAIN order |-> a[order[i]].sections[sa]],
             [i \in DOMAIN order |-> b[order[i]].sections[sb]])

(* The global scores of two tools over the organisations evaluated with both.  *)
(* Each tool leaves out its own organisations without a score, so what is      *)
(* paired may be the scores of two organisations.                             *)
GlobalCross(a, b) ==
  LET shared == SetToSeq(DOMAIN a \intersect DOMAIN b)
      places(latest) == {i \in DOMAIN shared : latest[shared[i]].global # None}
      order(latest) == InOrder(places(latest), [i \in places(latest) |-> i])
      scores(latest) == [j \in DOMAIN order(latest) |-> latest[shared[order(latest)[j]]].global]
  IN Pearson(scores(a), scores(b))

(* A factor of the profile, where it is known, against the global score.      *)
ProfileFactor(latest, factor) ==
  LET order == SetToSeq({p \in Scored(latest) : factor[p] # None})
      xs == [i \in DOMAIN order |-> factor[order[i]]]
      ys == [i \in DOMAIN order |-> latest[order[i]].global]
  IN [r |-> Pearson(xs, ys), slope |-> LinearRegression(xs, ys)]

(* 4. Segments of the profiles, evaluated or not. *)
Segments(latest) ==
  [key \in Range(SegmentOf) |->
    LET members == {p \in Profiles : SegmentOf[p] = key}
        globals == Globals(latest, members \intersect Scored(latest))
    IN [organisations |-> Cardinality(members), n |-> Len(globals), avg |-> Mean(globals),
        critical |-> Quantify(DOMAIN globals, LAMBDA i : globals[i] <= 500)]]

-----------------------------------------------------------------------------
(* 5. Effectiveness: the first completed evaluation against the last one, KPI  *)
(* by KPI, by what became of the measures of all but the last.                *)
CompletedByProfile ==
  LET completed(p) == {e \in EvalsOf(p) : evals[e].status = "COMPLETED"}
      order(p) == InOrder(completed(p), [e \in completed(p) |-> evals[e].at])
  IN [p \in {q \in Profiles : Cardinality(completed(q)) >= 2} |-> order(p)]

(* What is known of a profile and a KPI answered in both. *)
Comparison(p, list, k) ==
  LET first == Head(list)
      before == {m \in UNION {MeasuresOf(list[i]) : i \in 1..(Len(list) - 1)} :
                   measures[m].kpi = k}
  IN [profile |-> p, kpi |-> k, low |-> k \in Low(first),
      delta |-> ScoreOf(Last(list), k) - ScoreOf(first, k),
      statuses |-> {MeasureStatus(measures[m]) : m \in before}]
Comparisons ==
  LET history == CompletedByProfile IN
  UNION {{Comparison(p, history[p], k) :
            k \in Answered(Head(history[p])) \intersect Answered(Last(history[p]))} :
         p \in DOMAIN history}

(* Mutant: a KPI that has a concluded measure and an open one is in two groups. *)
InGroupOverlapping(name, c) ==
  CASE name = "nonCritical" -> ~c.low
    [] name = "withDoneMeasure" -> c.low /\ "DONE" \in c.statuses
    [] name = "withOpenMeasure" -> c.low /\ c.statuses # {}
    [] name = "withoutMeasure" -> c.low /\ c.statuses = {}

InGroup(name, c) ==
  CASE name = "nonCritical" -> ~c.low
    [] name = "withDoneMeasure" -> c.low /\ "DONE" \in c.statuses
    [] name = "withOpenMeasure" -> c.low /\ c.statuses # {} /\ "DONE" \notin c.statuses
    [] name = "withoutMeasure" -> c.low /\ c.statuses = {}

Groups == {"nonCritical", "withDoneMeasure", "withOpenMeasure", "withoutMeasure"}

MeasureEffectiveness ==
  LET comparisons == Comparisons
      group(name) == {c \in comparisons : InGroup(name, c)}
  IN [compared |-> Cardinality(comparisons),
      groups |-> [name \in Groups |->
        [n |-> Cardinality(group(name)),
         improved |-> Quantify(group(name), LAMBDA c : c.delta > 0)]]]

-----------------------------------------------------------------------------
(* 6. Clusters of the organisations by their sections; one that is not there   *)
(* counts as a zero.                                                          *)
Points(latest) ==
  LET dims == SetToSeq(References)
  IN Each(Scored(latest), LAMBDA p :
       [d \in DOMAIN dims |->
         IF dims[d] \in DOMAIN latest[p].sections THEN latest[p].sections[dims[d]] ELSE 0])
Clusters(latest, k) == KMeans(Points(latest), Max({1, Min({k, 6})}))

(* A cluster is named by the mean of its centroid, rounded in each dimension.  *)
Level(centroid) ==
  LET avg == Total([d \in DOMAIN centroid.sum |-> RoundDiv(centroid.sum[d], centroid.n)])
      size == Len(centroid.sum)
  IN IF avg >= 700 * size THEN "HIGH" ELSE IF avg > 500 * size THEN "MEDIUM" ELSE "INTERVENTION"

(* 7. Benchmark: the place of an organisation among those evaluated.          *)
Benchmark(latest, p) ==
  LET globals == Globals(latest, Scored(latest))
      own == latest[p].global
      gap(n) == LET values == Each(Having(latest, n), LAMBDA q : latest[q].sections[n])
                IN RoundDiv(Len(values) * latest[p].sections[n] - Total(values), Len(values))
  IN [percentile |-> PercentileRank(own, globals),
      rank |-> 1 + Quantify(DOMAIN globals, LAMBDA i : globals[i] > own),
      cohort |-> Len(globals), avg |-> Mean(globals),
      gaps |-> [n \in DOMAIN latest[p].sections \intersect References |-> gap(n)]]

-----------------------------------------------------------------------------
(* The two readers that compute scores again answer what the others persisted *)
(* as long as what they compute from is the same: the dashboard unless         *)
(* exclusions or weights changed after the completion, and the data set of the *)
(* analytics, "coherente con lo que ve el evaluador en cada resumen", unless    *)
(* weights did or something that was answered is excluded.  Where nothing is   *)
(* scored they answer no score, and the summary a zero.                       *)
DatasetAgrees ==
  \A e \in Evals : Answered(e) \intersect Under(e) = {} /\ ScoredUnder(e).weights = WeightsOf(e) =>
    EvaluationEntry(e).global = IF Unscored(e, {}) THEN None ELSE ResolveScores(e).global
RecomputedAgree == DashboardAgrees /\ DatasetAgrees

(* Every breakdown counts each organisation, each compared KPI or each critical *)
(* KPI (that the structure to compare by still has) once; and 100 % of the       *)
(* cohort is at or below who has nobody above, or one in 200 at most: the      *)
(* percentile is rounded to whole percents.                                   *)
CountedOnce(latest) ==
  latest # <<>> =>
    LET scored == Scored(latest)
        segments == Segments(latest)
        effect == MeasureEffectiveness
        overview == Overview(latest)
        gaps == SystemicGaps(latest)
    IN /\ Total(overview.histogram) = Cardinality(scored)
       /\ (\A p \in DOMAIN latest : Answered(latest[p].eval) \subseteq DOMAIN gaps) =>
            overview.coverage.critical
              = Total([k \in DOMAIN gaps |-> Cardinality(gaps[k].critical)])
       /\ Total([key \in DOMAIN segments |-> segments[key].organisations])
            = Cardinality(Profiles)
       /\ Total([key \in DOMAIN segments |-> segments[key].n]) = Cardinality(scored)
       /\ Total([g \in Groups |-> effect.groups[g].n]) = effect.compared
       /\ \A p \in scored : LET place == Benchmark(latest, p) IN
            place.percentile = 100 <=> 200 * (place.rank - 1) <= place.cohort

(* When the loop ends before its last turn, every organisation is in a cluster *)
(* whose centroid none is nearer than.                                        *)
Settled(points, result) ==
  \A i \in DOMAIN points :
    LET own == result.assignments[i] IN
    /\ own \in DOMAIN result.centroids
    /\ \A c \in DOMAIN result.centroids :
         ~Closer(points[i], result.centroids[c], result.centroids[own])
ClustersSettle(latest) ==
  \A k \in 1..6 :
    LET result == Clusters(latest, k)
    IN result.iterations < MAX_ITERATIONS => Settled(Points(latest), result)

(* A section whose averages put the organisations in the order of their global *)
(* scores never correlates against them, and the months of the trend hold     *)
(* every completed evaluation that has a score.                               *)
SameOrder(latest, n) ==
  \A p, q \in Scored(latest) \intersect Having(latest, n) :
    latest[p].sections[n] < latest[q].sections[n] <=> latest[p].global < latest[q].global
TrendsFollow(latest) ==
  LET trend == Trend([at \in Nat |-> (at - 1) \div 2])
  IN /\ \A n \in References : SameOrder(latest, n) => Driver(latest, n) \in {1, None}
     /\ Total([m \in DOMAIN trend |-> trend[m].count])
          = Quantify(Evals, LAMBDA e : /\ evals[e].status = "COMPLETED"
                                      /\ EvaluationEntry(e).global # None)

(* Two tools that put the organisations in the same order never correlate        *)
(* against each other: section by section over those that have both, and in     *)
(* their global scores as long as the same organisations lack one in both.      *)
InStep(a, sa, b, sb) ==
  \A p, q \in Having(a, sa) \intersect Having(b, sb) :
    a[p].sections[sa] < a[q].sections[sa] <=> b[p].sections[sb] < b[q].sections[sb]
GlobalsInStep(a, b) ==
  \A p, q \in Scored(a) \intersect Scored(b) :
    a[p].global < a[q].global <=> b[p].global < b[q].global
ScoredAlike(a, b) ==
  \A p \in DOMAIN a \intersect DOMAIN b : a[p].global = None <=> b[p].global = None
ToolsFollow(a, b) ==
  /\ ScoredAlike(a, b) /\ GlobalsInStep(a, b) => GlobalCross(a, b) \in {1, None}
  /\ \A sa \in UNION {DOMAIN a[p].sections : p \in DOMAIN a},
        sb \in UNION {DOMAIN b[p].sections : p \in DOMAIN b} :
       InStep(a, sa, b, sb) => CrossTool(a, sa, b, sb) \in {1, None}

(* What the breakdowns show is a partition of what there is, the clusters      *)
(* included, and the correlations and the trends follow it.                   *)
BreakdownsHold ==
  LET latest == LatestByProfile IN
  /\ CountedOnce(latest) /\ ClustersSettle(latest) /\ TrendsFollow(latest)
  /\ ToolsFollow(latest, OtherTool)

=============================================================================
