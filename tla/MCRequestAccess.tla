--------------------------- MODULE MCRequestAccess ---------------------------
(* An instance of RequestAccess for TLC: one request of a user or of a        *)
(* superadmin, everything else changing around it.                           *)
EXTENDS RequestAccess

CONSTANTS r1, u1, root, p1

OneRequest == {r1}
TwoUsers   == {u1, root}
OneSuper   == {root}
OneProfile == {p1}

(* The roles of a superadmin decide nothing. *)
MCSpec == Init /\ [][Next /\ live'[root] = {}]_vars

=============================================================================
