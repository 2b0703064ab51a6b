--------------------------- MODULE ProfileHierarchy ---------------------------
(***************************************************************************)
(* The profiles of one organisation: companies and associations, of which  *)
(* a Level 2 one groups others (parentProfileId).  Profiles are deleted    *)
(* softly; the unique index on (organisation, name) still counts a deleted *)
(* row, and creating a profile with its name revives it, with the          *)
(* evaluations it had.  Every operation is a few database calls; a request *)
(* carries what it has read (req).                                         *)
(*                                                                         *)
(* Of a profile the model keeps what decides about the hierarchy.  Of the  *)
(* evaluations, whether the profile has an open one.                       *)
(***************************************************************************)
EXTENDS Naturals, FiniteSets

CONSTANTS
  Requests,     \* requests the server may have in flight at once
  Rows,         \* profile ids
  Names,        \* names a profile may be given
  Creations,    \* bodies of POST /profiles
  Updates,      \* bodies of PATCH /profiles/:id
  None          \* null, or no row

VARIABLES
  profile,      \* the row of each id
  open,         \* profiles with an open evaluation
  req,          \* continuation of each request
  calm,         \* history: no two requests were ever in flight at once
  reshaped,     \* history: a level was changed, or a row revived
  sawLevel2     \* history: the requests whose parent was a live Level 2
                \* association at some moment since they began

vars == <<profile, open, req, calm, reshaped, sawLevel2>>

-----------------------------------------------------------------------------
Kinds  == {"COMPANY", "ASSOCIATION"}
Levels == {"LEVEL_1", "LEVEL_2", None}
Profile == [name : Names, type : Kinds, level : Levels,
            parent : Rows \union {None}, live : BOOLEAN]

(* The bodies of a creation and of an update: an update leaves alone the      *)
(* fields it does not bring.                                                 *)
CreateDto == [name : Names, type : Kinds, level : Levels, parent : Rows \union {None}]
UpdateDto ==
  [name : Names] \union [parent : Rows \union {None}]
    \union [type : Kinds] \union [level : Levels \ {None}]
    \union [type : Kinds, parent : Rows] \union [level : Levels \ {None}, parent : Rows]

ASSUME NoneAssumption == None \notin Rows /\ None \notin Profile
ASSUME RequestAssumption == IsFiniteSet(Requests)
ASSUME BodyAssumption == Creations \subseteq CreateDto /\ Updates \subseteq UpdateDto

Exists(p) == profile[p] # None
Live(p)   == Exists(p) /\ profile[p].live
Named(n)  == {p \in Rows : Exists(p) /\ profile[p].name = n}
IsLevel2(q) == q.type = "ASSOCIATION" /\ q.level = "LEVEL_2"
Patched(q, dto) ==
  [f \in DOMAIN q |-> IF f \in DOMAIN dto THEN dto[f] ELSE q[f]]

Idle == [pc |-> "idle"]
IsIdle(r) == req[r].pc = "idle"
Goto(r, k) == req' = [req EXCEPT ![r] = k]
Stay == UNCHANGED <<profile, open>>

Continuations ==
  {Idle}
    \union [pc : {"validate"}, self : Rows \union {None}, child2 : BOOLEAN,
            dto : Creations \union Updates]
    \union [pc : {"upsert"}, dto : Creations]
    \union [pc : {"write"}, self : Rows, dto : Updates]
    \union [pc : {"count", "start"}, self : Rows]
    \union [pc : {"remove"}, self : Rows, confirm : BOOLEAN]

-----------------------------------------------------------------------------
Init ==
  /\ profile = [p \in Rows |-> None]
  /\ open = {}
  /\ req = [r \in Requests |-> Idle]
  /\ calm = TRUE
  /\ reshaped = FALSE
  /\ sawLevel2 = {}

(* Mutant: a live profile of that name is not refused. *)
CreateFindAny(r, dto) ==
  /\ IsIdle(r)
  /\ Goto(r, IF dto.parent = None THEN [pc |-> "upsert", dto |-> dto]
             ELSE [pc |-> "validate", self |-> None, child2 |-> IsLevel2(dto), dto |-> dto])
  /\ Stay

(* create: a live profile of that name is refused (409). *)
CreateFind(r, dto) ==
  /\ IsIdle(r)
  /\ \A p \in Named(dto.name) : ~Live(p)
  /\ Goto(r, IF dto.parent = None THEN [pc |-> "upsert", dto |-> dto]
             ELSE [pc |-> "validate", self |-> None, child2 |-> IsLevel2(dto), dto |-> dto])
  /\ Stay

(* Mutants of validateParentProfile: any live profile will do; the profile    *)
(* itself will do.                                                           *)
ParentAcceptedAny(k) == k.dto.parent # k.self /\ ~k.child2 /\ Live(k.dto.parent)
(* validateParentProfile *)
ParentAccepted(k) ==
  /\ k.dto.parent # k.self
  /\ ~k.child2
  /\ Live(k.dto.parent)
  /\ IsLevel2(profile[k.dto.parent])

ValidateParent(r) ==
  /\ req[r].pc = "validate"
  /\ Goto(r, IF ~ParentAccepted(req[r]) THEN Idle
             ELSE IF req[r].self = None THEN [pc |-> "upsert", dto |-> req[r].dto]
             ELSE [pc |-> "write", self |-> req[r].self, dto |-> req[r].dto])
  /\ Stay

(* The upsert by name: it writes every field over a row that is there, live   *)
(* or deleted, or creates one.                                               *)
CreateUpsert(r) ==
  /\ req[r].pc = "upsert"
  /\ LET dto == req[r].dto IN
     \E p \in Rows :
       /\ IF Named(dto.name) # {} THEN p \in Named(dto.name) ELSE ~Exists(p)
       /\ profile' = [profile EXCEPT ![p] =
            [name |-> dto.name, type |-> dto.type, level |-> dto.level,
             parent |-> dto.parent, live |-> TRUE]]
  /\ Goto(r, Idle)
  /\ UNCHANGED open

(* Mutant: only the level in the body is looked at. *)
UpdateGetGiven(r, p, dto) ==
  /\ IsIdle(r)
  /\ Live(p)
  /\ Goto(r, IF "parent" \in DOMAIN dto /\ dto.parent # None
             THEN [pc |-> "validate", self |-> p, dto |-> dto,
                   child2 |-> "level" \in DOMAIN dto /\ dto.level = "LEVEL_2"]
             ELSE [pc |-> "write", self |-> p, dto |-> dto])
  /\ Stay

(* update: the parent is validated only when the body brings one, against the *)
(* level the body brings or the profile has.                                 *)
UpdateGet(r, p, dto) ==
  /\ IsIdle(r)
  /\ Live(p)
  /\ Goto(r, IF "parent" \in DOMAIN dto /\ dto.parent # None
             THEN [pc |-> "validate", self |-> p, dto |-> dto,
                   child2 |-> IsLevel2(Patched(profile[p], dto))]
             ELSE [pc |-> "write", self |-> p, dto |-> dto])
  /\ Stay

(* The update by id; a name that another row has, live or deleted, is a 409. *)
UpdateWrite(r) ==
  /\ req[r].pc = "write"
  /\ LET p == req[r].self
         dto == req[r].dto
         taken == "name" \in DOMAIN dto /\ Named(dto.name) \ {p} # {}
     IN  profile' = IF taken THEN profile
                    ELSE [profile EXCEPT ![p] = Patched(@, dto)]
  /\ Goto(r, Idle)
  /\ UNCHANGED open

(* delete *)
DeleteGet(r, p, confirm) ==
  /\ IsIdle(r)
  /\ Live(p)
  /\ Goto(r, IF confirm THEN [pc |-> "remove", self |-> p, confirm |-> TRUE]
             ELSE [pc |-> "count", self |-> p])
  /\ Stay

(* Mutant: the evaluations are not counted. *)
DeleteCountNone(r) ==
  /\ req[r].pc = "count"
  /\ Goto(r, [pc |-> "remove", self |-> req[r].self, confirm |-> FALSE])
  /\ Stay

DeleteCount(r) ==
  /\ req[r].pc = "count"
  /\ Goto(r, IF req[r].self \in open THEN Idle
             ELSE [pc |-> "remove", self |-> req[r].self, confirm |-> FALSE])
  /\ Stay

DeleteWrite(r) ==
  /\ req[r].pc = "remove"
  /\ profile' = [profile EXCEPT ![req[r].self].live = FALSE]
  /\ Goto(r, Idle)
  /\ UNCHANGED open

(* createEvaluation of a tool: the profile is found, then the row inserted. *)
StartFind(r, p) ==
  /\ IsIdle(r)
  /\ Live(p)
  /\ Goto(r, [pc |-> "start", self |-> p])
  /\ Stay

StartInsert(r) ==
  /\ req[r].pc = "start"
  /\ open' = open \union {req[r].self}
  /\ Goto(r, Idle)
  /\ UNCHANGED profile

(* complete: the evaluation is not open any more.  It looks at the            *)
(* evaluation only, so it may belong to a deleted profile.                   *)
Complete(p) ==
  /\ p \in open
  /\ open' = open \ {p}
  /\ UNCHANGED <<profile, req>>

(* A database call is rejected. *)
Fail(r) ==
  /\ ~IsIdle(r)
  /\ Goto(r, Idle)
  /\ Stay

Begin(r) ==
  \/ \E dto \in Creations : CreateFind(r, dto)
  \/ \E p \in Rows : \/ \E dto \in Updates : UpdateGet(r, p, dto)
                     \/ \E confirm \in BOOLEAN : DeleteGet(r, p, confirm)
                     \/ StartFind(r, p)

Proceed(r) ==
  \/ ValidateParent(r) \/ CreateUpsert(r) \/ UpdateWrite(r)
  \/ DeleteCount(r) \/ DeleteWrite(r) \/ StartInsert(r)

(* What the history variables remember of a step. *)
Level2s == {p \in Rows : Live(p) /\ IsLevel2(profile[p])}
Remember ==
  /\ calm' = (calm /\ Cardinality({r \in Requests : req'[r].pc # "idle"}) <= 1)
  /\ reshaped' = (calm' /\
       (reshaped \/ \E p \in Rows : Exists(p) /\
          (IsLevel2(profile'[p]) # IsLevel2(profile[p]) \/ (Live(p)' /\ ~Live(p)))))
  /\ sawLevel2' = {r \in Requests :
       LET k == req'[r] IN
       /\ k.pc \in {"validate", "upsert", "write"}
       /\ "parent" \in DOMAIN k.dto /\ k.dto.parent # None
       /\ r \in sawLevel2 \/ k.dto.parent \in Level2s \union Level2s'}

Next ==
  /\ \/ \E r \in Requests : Begin(r) \/ Proceed(r) \/ Fail(r)
     \/ \E p \in Rows : Complete(p)
  /\ Remember

Spec == Init /\ [][Next]_vars

-----------------------------------------------------------------------------
(* Properties.                                                              *)

(* Rows and continuations have their types; an open evaluation has a row.     *)
TypeOK ==
  /\ profile \in [Rows -> Profile \union {None}]
  /\ open \subseteq {p \in Rows : Exists(p)}
  /\ req \in [Requests -> Continuations]
  /\ calm \in BOOLEAN /\ reshaped \in BOOLEAN
  /\ sawLevel2 \subseteq Requests
  /\ \A r \in Requests :
       req[r].pc \in {"write", "count", "remove", "start"} => Exists(req[r].self)

(* What organisationsOverview shows: the profiles without a parent, and the   *)
(* members of the Level 2 associations among them.                           *)
TopLevel(p) == Live(p) /\ profile[p].parent = None
Shown(p) ==
  \/ TopLevel(p)
  \/ LET q == profile[p].parent IN TopLevel(q) /\ IsLevel2(profile[q])

(* "No se permite anidar una Nivel 2 dentro de otra": while requests come one *)
(* at a time and no update changes a level nor a creation revives a row, a    *)
(* live profile is in the panel of its organisation, at the top or under the  *)
(* association at the top it belongs to, unless that association was deleted. *)
NobodyHidden ==
  calm /\ ~reshaped => \A p \in Rows : Live(p) => Shown(p) \/ ~Live(profile[p].parent)

(* The same words, without the condition. *)
NoNestedLevel2 ==
  \A p \in Rows : Live(p) /\ IsLevel2(profile[p]) => profile[p].parent = None

(* Whatever overlaps, a parent is only written that was a live Level 2        *)
(* association at some moment of the request that writes it.                 *)
ParentWasLevel2 ==
  [][\A r \in Requests, p \in Rows :
       /\ CreateUpsert(r) \/ UpdateWrite(r)
       /\ Live(p)' /\ profile'[p].parent # None
       /\ Exists(p) => profile'[p].parent # profile[p].parent
       => r \in sawLevel2]_vars

(* While requests come one at a time, a profile that stays live is changed by *)
(* updates only: no creation with its name writes over it.                   *)
CreationsNeverOverwrite ==
  [][calm' => \A p \in Rows :
       Live(p) /\ Live(p)' /\ profile'[p] # profile[p] =>
         \E r \in Requests : req[r].pc = "write" /\ req[r].self = p]_vars

(* "This profile has active evaluations": while requests come one at a time,  *)
(* a profile becomes deleted under an open evaluation only by a deletion      *)
(* that was confirmed, and no evaluation is opened for a deleted one.         *)
OpenLosesProfileOnlyConfirmed ==
  [][calm' => \A p \in open' : Live(p)' \/ (p \in open /\ ~Live(p))
       \/ \E r \in Requests : /\ req[r].pc = "remove"
                             /\ req[r].self = p /\ req[r].confirm]_vars

=============================================================================
