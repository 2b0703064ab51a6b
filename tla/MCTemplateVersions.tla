-------------------------- MODULE MCTemplateVersions --------------------------
(* Instances of TemplateVersions, with its history, for TLC.                  *)
EXTENDS TemplateHistory, TLC

CONSTANTS r1, r2, c1

TwoRequests == {r1, r2}
OneCode     == {c1}
NoSeed      == {}
FirstSeed   == {1}
Symmetric   == Permutations(TwoRequests)
SwitchKinds   == {"kpi.set"}
RowKinds      == AllKinds \ SwitchKinds

=============================================================================
