------------------------ MODULE MCEvaluationLifecycle ------------------------
(* Instances of EvaluationLifecycle and EvaluationHistory for TLC.            *)
EXTENDS EvaluationHistory, TLC

CONSTANTS r1, r2, p1, s1, s2, i1

TwoRequests == {r1, r2}
OneProfile  == {p1}
TwoSections == {s1, s2}
OneKpi      == {i1}
SectionOfOne == [i \in OneKpi |-> s1]
OneScore    == {7}

(* Everything applies, or the first section does not. *)
AllOrFirst ==
  { [sections |-> {}, indicators |-> {}], [sections |-> {s1}, indicators |-> {}] }
(* A section without the KPI is excluded, or its section, or the KPI itself. *)
AnyExclusion ==
  { [sections |-> {s2}, indicators |-> {}], [sections |-> {s1}, indicators |-> {}],
    [sections |-> {}, indicators |-> {i1}], [sections |-> {}, indicators |-> {}] }

(* The settings change while a completion, that may still read any of them, is *)
(* in flight, and there is one evaluation at most: the other two are there    *)
(* for what races over their creation.                                        *)
FewSettings ==
  \/ UNCHANGED applic
  \/ /\ \E r \in Requests : Completing(r)
     /\ \A e \in EvalIds : Exists(e) => e = 1
MCHistorySpec == HistoryInit /\ [][HistoryNext /\ FewSettings]_historyVars

RequestSymmetry == Permutations(TwoRequests)

=============================================================================
