----------------------------- MODULE MCActionPlan -----------------------------
(* Instances of ActionPlan for TLC.                                           *)
EXTENDS ActionPlan, TLC

CONSTANTS r1, r2, p1, s1, i1, q1

TwoRequests == {r1, r2}
OneProfile  == {p1}
OneSection  == {s1}
OneKpi      == {i1}
SectionOfOne == [i \in OneKpi |-> s1]
(* Critical, then above the lower threshold only, then above both. *)
ThreeScores == {3, 6, 9}
AllApplies  == {[sections |-> {}, indicators |-> {}]}

BothTools == {"RISK", "INDICATOR"}
TwoSpellings == {"EC", "ec"}
ToUpper == [s \in TwoSpellings |-> "EC"]
Ecuador == [p \in OneProfile |-> "EC"]
FiveOrSeven == {5, 7}
OnePlanner  == {q1}
Steps == {0, 50, 100}

RequestSymmetry == Permutations(TwoRequests)

=============================================================================
