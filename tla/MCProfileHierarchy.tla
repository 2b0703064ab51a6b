-------------------------- MODULE MCProfileHierarchy --------------------------
(* Instances of ProfileHierarchy for TLC.                                    *)
EXTENDS ProfileHierarchy, TLC

CONSTANTS r1, r2, p1, p2, p3, n1, n2, n3

TwoRequests == {r1, r2}
TwoRows     == {p1, p2}
ThreeRows   == {p1, p2, p3}
TwoNames    == {n1, n2}
ThreeNames  == {n1, n2, n3}

(* Companies and Level 2 associations, alone or under another profile; an     *)
(* update may leave the level of an association on a company.                *)
SomeCreations ==
  [name : Names, type : {"COMPANY"}, level : {None}, parent : Rows \union {None}]
    \union [name : Names, type : {"ASSOCIATION"}, level : {"LEVEL_2"},
            parent : Rows \union {None}]
SomeUpdates ==
  [parent : Rows \union {None}] \union [name : Names]
    \union [type : {"ASSOCIATION", "COMPANY"}] \union [level : {"LEVEL_2"}]
    \union [type : {"COMPANY"}, parent : Rows]

Symmetric == Permutations(Requests) \union Permutations(Rows) \union Permutations(Names)

(* Two requests overlap over two names and the rows there are, without        *)
(* evaluations: what is checked then is what one writes after the other       *)
(* changed what it had read, so one of them gives a parent.  An overlap       *)
(* begins in any state and is followed until all requests end.  The third row *)
(* is there for chains of parents, without evaluations too.  A parent that is *)
(* given has a row, live or not.                                             *)
Used == {p \in Rows : Exists(p)}
Bodies == {req[r].dto : r \in {q \in Requests : req[q].pc \in {"validate", "upsert", "write"}}}
NamesUsed ==
  {profile[p].name : p \in Used} \union {b.name : b \in {d \in Bodies : "name" \in DOMAIN d}}
ParentsUsed == {b.parent : b \in {d \in Bodies : "parent" \in DOMAIN d}} \ {None}
Small ==
  /\ ParentsUsed \subseteq Used
  /\ \/ calm /\ open = {}
     \/ calm /\ Cardinality(Used) <= 2
     \/ /\ Cardinality(NamesUsed) <= 2
        /\ open = {}
        /\ ParentsUsed # {} \/ \E r \in Requests : IsIdle(r)
        /\ \A r \in Requests : req[r].pc \notin {"start", "count"}
Quiet == \A r \in Requests : IsIdle(r)
FewRows == Small' /\ (calm \/ ~Quiet)

=============================================================================
