------------------------------ MODULE MCAnalytics ------------------------------
(* Instances of Analytics for TLC.                                           *)
EXTENDS Analytics

CONSTANTS assoc, m1, m2, k1, k2

ThreeProfiles == {assoc, m1, m2}
OneAssociation == {assoc}
OneMember == [p \in Profiles |-> IF p = m1 THEN assoc ELSE None]
TwoCountries == [p \in Profiles |-> IF p = m2 THEN "CO" ELSE "EC"]

(* Another tool, where the members do as well as each other and better than the *)
(* association; one of them has no first section.                             *)
Entry(global, sections) == [global |-> global, sections |-> sections]
OtherScores == assoc :> Entry(400, <<400>>) @@ m1 :> Entry(600, <<600>>) @@ m2 :> Entry(600, <<>>)

(* Two sections of weights 2 and 1.  In the second version the KPI of the      *)
(* first one is inactive, and that of the second one weighs nothing.          *)
Kpi(section, weight, active) == [section |-> section, weight |-> weight, active |-> active]
TwoVersions ==
  <<[sections |-> <<2, 1>>, kpis |-> (k1 :> Kpi(1, 1, TRUE) @@ k2 :> Kpi(2, 2, TRUE))],
    [sections |-> <<2, 1>>, kpis |-> (k1 :> Kpi(1, 1, FALSE) @@ k2 :> Kpi(2, 0, TRUE))]>>

(* Provisioning weighs the first section and its KPI otherwise, and has a section *)
(* that is not in the template any more.                                      *)
OtherWeights ==
  [sections |-> <<1, 1, 1>>,
   kpis |-> k1 :> [section |-> 1, weight |-> 3] @@ k2 :> [section |-> 3, weight |-> 1]]

LowAndTop == {3, 10}
Demo == <<m1, m2, m1>>
Answers(x, y) == k1 :> x @@ k2 :> y
OneSeed == {<<Answers(3, 3), Answers(10, 3), Answers(10, 3)>>}

(* An organisation has exclusions, of the first section or of the KPI of the    *)
(* second.  There is an open measure of an evaluation that completed, and one of *)
(* the same KPI, which may be done, or one of a new evaluation may follow where  *)
(* the weights have not changed.  The first section is provisioned before its KPI; *)
(* and who completed twice in the demonstration data starts nothing more.      *)
Others == Profiles \ {m1}
FewRows == {rows \in Rows : rows.numbers \subseteq {1} /\ rows.codes \subseteq {k2}}
FewMeasured(e) == IF e = 1 THEN {k1} ELSE IF e \in {2, 3} THEN {} ELSE {k1, k2}

MCInit == Init /\ ToSet(measures) = {[eval |-> 1, kpi |-> k1, progress |-> 0]}
MCNext ==
  \/ \E p \in Others : CreateEvaluation(p)
  \/ \E e \in Evals : \E k \in Kpis(evals[e].version), x \in Responses :
       (x.manual => k = k1) /\ UpsertResponse(e, k, x)
  \/ \E e \in Evals : Complete(e)
  \/ \E rows \in FewRows : SetApplicability(m2, rows)
  \/ PublishVersion
  \/ Len(measures) = 1 /\ ReprovisionSection(1)
  \/ weights[1].sections[1] = OtherWeights.sections[1] /\ ReprovisionKpi(k1)
  \/ weights[1] = FirstWeights(1) /\ \E e \in Evals : \E k \in FewMeasured(e) : CreateMeasure(e, k)
  \/ \E i \in DOMAIN measures, progress \in Progress : i > 1 /\ UpdateProgress(i, progress)
MCSpec == MCInit /\ [][MCNext]_vars

-----------------------------------------------------------------------------
(* The pure functions over bounded inputs. *)
Upto(n, S) == UNION {[1..i -> S] : i \in 0..n}

(* Every value is in one bin, the top included. *)
HistogramCounts ==
  \A s \in Upto(3, {0, 199, 200, 500, 999, 1000}) : Total(Histogram(s, 5, 1000)) = Len(s)

(* As many values are at or below the median as at or above it, and the mean   *)
(* is between the extremes.                                                   *)
MedianSplits ==
  \A s \in Upto(3, {0, 3, 500, 1000}) :
    /\ Quantify(DOMAIN s, LAMBDA i : s[i] <= Median(s)) * 2 >= Len(s)
    /\ Quantify(DOMAIN s, LAMBDA i : s[i] >= Median(s)) * 2 >= Len(s)
    /\ Between(Mean(s), ToSet(s))

(* A correlation does not depend on which variable comes first, its sign is     *)
(* that of the slope, and what only grows with the other correlates with it.  *)
CorrelationSigns ==
  \A xs, ys \in [1..3 -> 0..2] :
    LET r == Pearson(xs, ys) IN
    /\ r = Pearson(ys, xs)
    /\ r # None => LinearRegression(xs, ys) = r
    /\ r # None /\ (\A i, j \in 1..3 : xs[i] < xs[j] <=> ys[i] < ys[j]) => r = 1

(* Between two tools it does not matter which is named first, and as long as    *)
(* the organisations without a score are the same in both each is compared     *)
(* with itself; a score that only one of them lacks pairs the scores of         *)
(* different organisations.                                                   *)
Three == 1..3
LatestOf(globals) ==
  [p \in Three |-> [global |-> globals[p], sections |-> IF globals[p] = None THEN <<>>
                                                       ELSE <<globals[p]>>]]
CrossesHold ==
  \A x, y \in [Three -> {None, 0, 500, 1000}] :
    LET a == LatestOf(x)
        b == LatestOf(y)
        missed == {p \in Three : a[p].global = None} = {p \in Three : b[p].global = None}
    IN /\ CrossTool(a, 1, b, 1) = CrossTool(b, 1, a, 1)
       /\ GlobalCross(a, b) = GlobalCross(b, a)
       /\ missed => GlobalCross(a, b) = CrossTool(a, 1, b, 1)
FactorsHold ==
  \A x \in [Three -> {None, 1, 2}], y \in [Three -> {None, 0, 500}] :
    LET factor == ProfileFactor(LatestOf(y), x)
    IN factor.r # None => factor.slope = factor.r

(* k-means ends settled for any points, equal ones and fewer than clusters too. *)
KMeansSettles ==
  \A points \in Upto(3, [1..2 -> {0, 3, 10}]), k \in 1..4 : points # <<>> =>
    LET result == KMeans(points, k)
    IN result.iterations < MAX_ITERATIONS /\ Settled(points, result)

(* The row of an association is between its members, in its score and in each    *)
(* section, and the panel complies as it would with the members in its place.  *)
MemberRow(p, x) ==
  [profile |-> p, eval |-> p, status |-> "COMPLETED", sum |-> x, n |-> 1,
   sections |-> <<[avg |-> x, critical |-> x <= 500]>>, critical |-> 0]
ConsolidationHolds ==
  \A x \in [Three -> {0, 333, 500, 1000}] :
    LET rows == {MemberRow(p, x[p]) : p \in Three}
        row == ConsolidatedRow(0, rows)
    IN /\ Between(row.sum, {3 * v : v \in Range(x)})
       /\ Between(row.sections[1].avg, Range(x))
       /\ Compliance({row}) = Compliance(rows)

(* The pages cover every row, once. *)
PagesCover ==
  \A total \in 0..20, limit \in 1..7 : \A row \in 1..total :
    Cardinality({p \in 1..Pages(total, limit) :
                   LET args == PageArgs(p, limit)
                   IN args.skip < row /\ row <= args.skip + args.take}) = 1

ASSUME StatisticsAssumption ==
  /\ HistogramCounts /\ MedianSplits /\ CorrelationSigns /\ CrossesHold /\ FactorsHold
  /\ KMeansSettles /\ ConsolidationHolds /\ PagesCover

=============================================================================
