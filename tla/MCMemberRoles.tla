---------------------------- MODULE MCMemberRoles ----------------------------
(* Instances of MemberRoles for TLC.  Every operation is about one user, so   *)
(* one is enough for the properties.                                         *)
EXTENDS MemberRoles, TLC

CONSTANTS r1, r2, u1, admin, evaluator

TwoRequests == {r1, r2}
OneUser     == {u1}
TwoCodes    == {admin, evaluator}
Symmetric   == Permutations(Requests)

(* What follows a raced removal is not explored.                              *)
MCSpec == Init /\ [][IF raced = {} THEN Next ELSE UNCHANGED vars]_vars

=============================================================================
