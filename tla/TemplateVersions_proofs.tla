----------------------- MODULE TemplateVersions_proofs -----------------------
(* Proofs about TemplateVersions and its history, for every value of their    *)
(* constants: any requests at once, any seed, and calls that may fail.        *)
EXTENDS TemplateHistory, TLAPS

(* An edit on its way to a clone carries a version that exists and may be     *)
(* edited; once the clone is created, the version it deactivates is below it. *)
EditorsBelowHighest ==
  /\ req = [r \in Requests |-> req[r]]
  /\ \A r \in Requests :
       req[r].pc \in {"read", "count", "clone", "retire"} =>
         /\ req[r].version \in Versions
         /\ req[r].version < MaxVersion
         /\ Exists(req[r].version)
         /\ req[r].pc = "retire" => Exists(req[r].version + 1)

FlagsTyped == tpl \in [Versions -> {"absent", "active", "inactive"}]

(* The inductive invariant behind HighestIsActive. *)
VersionInv == FlagsTyped /\ EditorsBelowHighest /\ HighestIsActive

(* No step removes a version. *)
LEMMA VersionsStay ==
  ASSUME VersionInv, [Next]_vars, NEW v \in Versions, Exists(v)
  PROVE  Exists(v)'
<1>1. ASSUME NEW r \in Requests, CloneCreate(r) \/ Retire(r)
      PROVE  Exists(v)'
  BY <1>1 DEF CloneCreate, Retire, VersionInv, FlagsTyped, Exists
<1>2. CASE UNCHANGED tpl
  BY <1>2 DEF Exists
<1> QED
  BY <1>1, <1>2
     DEF Next, vars, Advance, Apply, StartRead, StartInsert, Begin, ReadTemplate,
         CountEvaluations, CloneRefused, SectionCreate, SectionConflict,
         SectionUpdate, SectionDelete, KpiCreate, KpiSet, Write, Reprovision, Fail

(* A request moves to a continuation that needs no version, or to one whose   *)
(* version it may edit.                                                      *)
LEMMA EditorMoves ==
  ASSUME VersionInv, [Next]_vars, NEW r \in Requests, NEW k, Goto(r, k),
         k.pc \in {"read", "count", "clone", "retire"} =>
           /\ k.version \in Versions
           /\ k.version < MaxVersion
           /\ Exists(k.version)
           /\ k.pc = "retire" => tpl'[k.version + 1] # "absent"
  PROVE  EditorsBelowHighest'
<1> SUFFICES ASSUME NEW q \in Requests,
                    req'[q].pc \in {"read", "count", "clone", "retire"}
             PROVE  /\ req'[q].version \in Versions
                    /\ req'[q].version < MaxVersion
                    /\ Exists(req[q].version)'
                    /\ req'[q].pc = "retire" => Exists(req[q].version + 1)'
  BY DEF Goto, VersionInv, EditorsBelowHighest, Exists
<1>1. CASE q = r
  <2>1. req'[q] = k
    BY <1>1 DEF Goto, VersionInv, EditorsBelowHighest
  <2>2. k.version \in Versions /\ Exists(k.version)
    BY <2>1
  <2>3. tpl'[k.version] # "absent"
    BY <2>2, VersionsStay DEF Exists
  <2> QED BY <2>1, <2>3 DEF Exists
<1>2. CASE q # r
  <2>1. req'[q] = req[q]
    BY <1>2 DEF Goto, VersionInv, EditorsBelowHighest
  <2>2. /\ req[q].version \in Versions /\ req[q].version < MaxVersion
        /\ Exists(req[q].version)
        /\ req[q].pc = "retire" => Exists(req[q].version + 1)
    BY <2>1 DEF VersionInv, EditorsBelowHighest
  <2>3. req[q].version + 1 \in Versions
    BY <2>2, VersionAssumption DEF Versions
  <2>4. /\ tpl'[req[q].version] # "absent"
        /\ req[q].pc = "retire" => tpl'[req[q].version + 1] # "absent"
    BY <2>2, <2>3, VersionsStay DEF Exists
  <2> QED BY <2>1, <2>2, <2>4 DEF Exists
<1> QED BY <1>1, <1>2

(* Every continuation keeps its version editable. *)
LEMMA EditorsStep == VersionInv /\ [Next]_vars => EditorsBelowHighest'
<1> SUFFICES ASSUME VersionInv, [Next]_vars PROVE EditorsBelowHighest'
  OBVIOUS
<1>1. ASSUME NEW r \in Requests, NEW k, Goto(r, k),
             k.pc \notin {"read", "count", "clone", "retire"}
      PROVE  EditorsBelowHighest'
  BY <1>1, EditorMoves
<1>2. ASSUME NEW r \in Requests, NEW v \in Versions, NEW edit \in Edits,
             Begin(r, v, edit)
      PROVE  EditorsBelowHighest'
  <2>1. Goto(r, [pc |-> "read", version |-> v, edit |-> edit])
        /\ v < MaxVersion /\ Exists(v)
    BY <1>2 DEF Begin
  <2> QED BY <2>1, EditorMoves
<1>3. ASSUME NEW r \in Requests, ReadTemplate(r)
      PROVE  EditorsBelowHighest'
  <2>1. Goto(r, [pc |-> "count", version |-> req[r].version, edit |-> req[r].edit,
                 copy |-> LiveRows(rows[req[r].version])])
    BY <1>3 DEF ReadTemplate
  <2>2. req[r].version \in Versions /\ req[r].version < MaxVersion
        /\ Exists(req[r].version)
    BY <1>3 DEF ReadTemplate, VersionInv, EditorsBelowHighest
  <2> QED BY <2>1, <2>2, EditorMoves
<1>4. ASSUME NEW r \in Requests, CountEvaluations(r)
      PROVE  EditorsBelowHighest'
  <2>1. req[r].version \in Versions /\ req[r].version < MaxVersion
        /\ Exists(req[r].version)
    BY <1>4 DEF CountEvaluations, VersionInv, EditorsBelowHighest
  <2>2. CASE req[r].version \notin used
    <3>1. Goto(r, [pc |-> "apply", version |-> req[r].version, edit |-> req[r].edit])
      BY <1>4, <2>2 DEF CountEvaluations
    <3> QED BY <3>1, <1>1
  <2>3. CASE req[r].version \in used
    <3>1. Goto(r, [pc |-> "clone", version |-> req[r].version, edit |-> req[r].edit,
                   copy |-> req[r].copy])
      BY <1>4, <2>3 DEF CountEvaluations
    <3> QED BY <2>1, <3>1, EditorMoves
  <2> QED BY <2>2, <2>3
<1>5. ASSUME NEW r \in Requests, CloneCreate(r)
      PROVE  EditorsBelowHighest'
  <2>1. req[r].version \in Versions /\ req[r].version < MaxVersion
        /\ Exists(req[r].version)
    BY <1>5 DEF CloneCreate, VersionInv, EditorsBelowHighest
  <2>2. req[r].version + 1 \in Versions
    BY <2>1, VersionAssumption DEF Versions
  <2>3. tpl'[req[r].version + 1] # "absent"
    BY <1>5, <2>2 DEF CloneCreate, VersionInv, FlagsTyped
  <2>4. Goto(r, [pc |-> "retire", version |-> req[r].version, edit |-> req[r].edit,
                 copy |-> req[r].copy])
    BY <1>5 DEF CloneCreate
  <2> QED BY <2>1, <2>3, <2>4, EditorMoves
<1>6. ASSUME NEW r \in Requests, Retire(r)
      PROVE  EditorsBelowHighest'
  <2>1. Goto(r, AfterRetire(r)) /\ AfterRetire(r).pc \in {"apply", "idle"}
    BY <1>6 DEF Retire, AfterRetire, Idle
  <2> QED BY <2>1, <1>1
<1>7. ASSUME NEW r \in Requests,
             \/ \E v \in Versions : StartRead(r, v)
             \/ StartInsert(r) \/ CloneRefused(r) \/ Apply(r) \/ Fail(r)
      PROVE  EditorsBelowHighest'
  <2>1. Idle.pc = "idle"
    BY DEF Idle
  <2>2. (\E v \in Versions : Goto(r, [pc |-> "start", version |-> v])) \/ Goto(r, Idle)
    BY <1>7 DEF StartRead, StartInsert, CloneRefused, Apply, SectionCreate,
         SectionConflict, SectionUpdate, SectionDelete, KpiCreate, KpiSet, Write, Fail
  <2>3. CASE Goto(r, Idle)
    BY <2>1, <2>3, <1>1
  <2>4. ASSUME NEW v \in Versions, Goto(r, [pc |-> "start", version |-> v])
        PROVE  EditorsBelowHighest'
    BY <2>4, <1>1
  <2> QED BY <2>2, <2>3, <2>4
<1>8. CASE UNCHANGED <<req, tpl>>
  BY <1>8 DEF VersionInv, EditorsBelowHighest, Exists
<1> QED
  BY <1>2, <1>3, <1>4, <1>5, <1>6, <1>7, <1>8
     DEF Next, vars, Advance, Reprovision

(* Cloning adds the version above the highest, active; deactivating only      *)
(* touches a version that has one above it.                                  *)
LEMMA HighestStep == VersionInv /\ [Next]_vars => FlagsTyped' /\ HighestIsActive'
<1> SUFFICES ASSUME VersionInv, [Next]_vars PROVE FlagsTyped' /\ HighestIsActive'
  OBVIOUS
<1> USE DEF VersionInv, FlagsTyped, HighestIsActive, Exists
<1>1. ASSUME NEW r \in Requests, CloneCreate(r)
      PROVE  FlagsTyped' /\ HighestIsActive'
  <2> DEFINE w == req[r].version + 1
  <2>1. /\ req[r].version \in Versions /\ req[r].version < MaxVersion
        /\ Exists(req[r].version)
    BY <1>1 DEF CloneCreate, EditorsBelowHighest
  <2>2. w \in Versions /\ w # 1 /\ tpl[w] = "absent"
    BY <1>1, <2>1, VersionAssumption DEF CloneCreate, Versions
  <2>3. tpl' = [tpl EXCEPT ![w] = "active"]
    BY <1>1 DEF CloneCreate
  <2>4. w + 1 \in Versions => ~Exists(w + 1)
    BY <2>2, VersionAssumption DEF Versions
  <2>5. \A v \in Versions : v # w => tpl'[v] = tpl[v]
    BY <2>3
  <2>6. tpl'[w] = "active"
    BY <2>2, <2>3
  <2>7. FlagsTyped'
    BY <2>2, <2>3
  <2>8. Exists(1)'
    BY <2>2, <2>5, VersionAssumption DEF Versions
  <2>9. ASSUME NEW v \in Versions, v + 1 \in Versions, Exists(v + 1)'
        PROVE  Exists(v)'
    <3>1. CASE v + 1 = w
      <4>1. v = req[r].version
        BY <2>1, <3>1 DEF Versions
      <4> QED BY <2>1, <2>5, <2>6, <4>1
    <3>2. CASE v + 1 # w
      BY <2>5, <2>6, <2>9, <3>2
    <3> QED BY <3>1, <3>2
  <2>10. ASSUME NEW v \in Versions, Exists(v)', v + 1 \in Versions => ~Exists(v + 1)'
         PROVE  tpl'[v] = "active"
    <3>1. CASE v = w
      BY <2>6, <3>1
    <3>2. CASE v # w
      <4>1. v + 1 # w
        BY <2>2, <2>6, <2>10
      <4>2. v + 1 \in Versions => ~Exists(v + 1)
        BY <2>5, <2>10, <4>1
      <4> QED BY <2>5, <2>10, <3>2, <4>2
    <3> QED BY <3>1, <3>2
  <2> QED BY <2>7, <2>8, <2>9, <2>10
<1>2. ASSUME NEW r \in Requests, Retire(r)
      PROVE  FlagsTyped' /\ HighestIsActive'
  <2> DEFINE u == req[r].version
  <2>1. /\ u \in Versions /\ u < MaxVersion /\ Exists(u) /\ Exists(u + 1)
    BY <1>2 DEF Retire, EditorsBelowHighest
  <2>2. u + 1 \in Versions /\ 1 \in Versions
    BY <2>1, VersionAssumption DEF Versions
  <2>3. tpl' = [tpl EXCEPT ![u] = "inactive"]
    BY <1>2 DEF Retire
  <2>4. \A v \in Versions : Exists(v)' <=> Exists(v)
    BY <2>1, <2>3
  <2>5. \A v \in Versions : v # u => tpl'[v] = tpl[v]
    BY <2>3
  <2>6. ASSUME NEW v \in Versions, Exists(v)', v + 1 \in Versions => ~Exists(v + 1)'
        PROVE  tpl'[v] = "active"
    <3>1. v # u
      BY <2>1, <2>2, <2>4, <2>6
    <3> QED BY <2>4, <2>5, <2>6, <3>1
  <2>7. FlagsTyped'
    BY <2>3
  <2> QED BY <2>2, <2>4, <2>6, <2>7
<1>3. CASE UNCHANGED tpl
  BY <1>3
<1> QED
  BY <1>1, <1>2, <1>3
     DEF Next, vars, Advance, Apply, StartRead, StartInsert, Begin, ReadTemplate,
         CountEvaluations, CloneRefused, SectionCreate, SectionConflict,
         SectionUpdate, SectionDelete, KpiCreate, KpiSet, Write, Reprovision, Fail

(* However edits, clones, failures, evaluations and reprovisioning interleave, *)
(* the tool has an active template and it is the highest version.             *)
THEOREM HighestVersionActive == Spec => []HighestIsActive
<1>1. Init => VersionInv
  BY VersionAssumption
     DEF Init, VersionInv, FlagsTyped, EditorsBelowHighest, HighestIsActive, Exists,
         Idle, Versions
<1>2. VersionInv /\ [Next]_vars => VersionInv'
  BY EditorsStep, HighestStep DEF VersionInv
<1>3. VersionInv => HighestIsActive
  BY DEF VersionInv
<1> QED BY <1>1, <1>2, <1>3, PTL DEF Spec

-----------------------------------------------------------------------------
(* The row an edit goes to was there when it was read and no step takes a row *)
(* of a version away; the clone has every row that was live in the copy.     *)
RowsPresent ==
  \A r \in Requests :
    /\ req[r].pc \in {"start", "apply"} => Exists(req[r].version)
    /\ req[r].pc \in {"read", "count", "clone", "retire", "apply"}
         /\ req[r].edit.kind # "section.create" =>
           rows[req[r].version][req[r].edit.slot] # None
    /\ req[r].pc = "retire" =>
         \A k \in Slots : LiveIn(req[r].copy, k) => rows[req[r].version + 1][k] # None

(* The inductive invariant behind TypeOK: an edit writes over a row.          *)
TypeInv == VersionInv /\ TypeOK /\ RowsPresent

(* What a continuation carries, by the place of the request. *)
LEMMA Carried ==
  ASSUME NEW k \in Continuations
  PROVE  /\ k.pc \in {"idle", "start", "read", "count", "clone", "retire", "apply"}
         /\ k.pc # "idle" => k.version \in Versions
         /\ k.pc \in {"read", "count", "clone", "retire", "apply"} => k.edit \in Edits
         /\ k.pc \in {"count", "clone", "retire"} => k.copy \in Layout
         /\ k.pc = "idle" => k = Idle
  BY DEF Continuations, Idle, Starting, Reading, Counting, Retiring, Applying

(* What an edit names, by its kind. *)
LEMMA EditNames ==
  ASSUME NEW e \in Edits
  PROVE  /\ e.kind \in AllKinds
         /\ e.kind \in {"section.create", "section.update"} => e.number \in Numbers
         /\ e.kind # "section.create" => e.slot \in Slots /\ e.seen \in Numbers
         /\ e.kind \in {"kpi.create", "kpi.set"} => e.code \in Codes
         /\ e.kind = "kpi.set" => e.to \in {"on", "off"}
  BY DEF Edits, AllKinds

(* An edit keeps its type when it is sent to another row. *)
LEMMA EditMoves ==
  ASSUME NEW e \in Edits, e.kind # "section.create", NEW k \in Slots
  PROVE  [e EXCEPT !.slot = k] \in Edits
<1>1. CASE e \in [kind : {"section.update"}, slot : Slots, seen : Numbers, number : Numbers]
  BY <1>1 DEF Edits
<1>2. CASE e \in [kind : {"section.delete"}, slot : Slots, seen : Numbers]
  BY <1>2 DEF Edits
<1>3. CASE e \in [kind : {"kpi.create"}, slot : Slots, seen : Numbers, code : Codes]
  BY <1>3 DEF Edits
<1>4. CASE e \in [kind : {"kpi.set"}, slot : Slots, seen : Numbers, code : Codes,
                  to : {"on", "off"}]
  BY <1>4 DEF Edits
<1> QED BY <1>1, <1>2, <1>3, <1>4 DEF Edits

(* A new section is a row, and a row is never None. *)
LEMMA SectionsAreRows ==
  /\ \A n \in Numbers : NewSection(n) \in Section
  /\ \A s \in Section : s # None
  BY NoneAssumption DEF NewSection, Section

(* The live rows of a layout make a layout. *)
LEMMA LiveRowsType ==
  ASSUME NEW l \in Layout
  PROVE  LiveRows(l) \in Layout
  BY DEF LiveRows, Layout

(* The row written by a request that is applying its edit. *)
LEMMA WriteKeeps ==
  ASSUME TypeInv, NEW r \in Requests, req[r].pc = "apply",
         NEW k \in Slots, NEW section \in Section, Write(r, k, section)
  PROVE  /\ rows' \in [Versions -> Layout]
         /\ \A v \in Versions, j \in Slots : rows[v][j] # None => rows'[v][j] # None
         /\ \A v \in Versions : v # req[r].version => rows'[v] = rows[v]
         /\ Goto(r, Idle)
         /\ UNCHANGED <<tpl, used>>
<1>1. req[r].version \in Versions
  BY Carried DEF TypeInv, TypeOK
<1>2. rows' = [rows EXCEPT ![req[r].version][k] = section]
  BY DEF Write
<1>3. section # None
  BY SectionsAreRows
<1>4. rows \in [Versions -> Layout]
  BY DEF TypeInv, TypeOK
<1>5. rows' \in [Versions -> Layout]
  BY <1>1, <1>2, <1>4 DEF Layout
<1>6. \A v \in Versions : v # req[r].version => rows'[v] = rows[v]
  BY <1>2, <1>4
<1>7. \A j \in Slots : rows[req[r].version][j] # None => rows'[req[r].version][j] # None
  BY <1>1, <1>2, <1>3, <1>4 DEF Layout
<1> QED BY <1>5, <1>6, <1>7 DEF Write

(* A request moves while the rows that others rely on stay. *)
LEMMA TypeMoves ==
  ASSUME TypeInv, [Next]_vars,
         NEW r \in Requests, NEW k \in Continuations, Goto(r, k),
         rows' \in [Versions -> Layout],
         \A v \in Versions, j \in Slots :
           Exists(v) /\ rows[v][j] # None => rows'[v][j] # None,
         used' \subseteq {v \in Versions : tpl'[v] # "absent"},
         k.pc \in {"start", "apply"} => tpl'[k.version] # "absent",
         k.pc \in {"read", "count", "clone", "retire", "apply"}
           /\ k.edit.kind # "section.create" => rows'[k.version][k.edit.slot] # None,
         k.pc = "retire" =>
           \A j \in Slots : LiveIn(k.copy, j) => rows'[k.version + 1][j] # None
  PROVE  TypeInv'
<1>1. VersionInv'
  BY EditorsStep, HighestStep DEF VersionInv, TypeInv
<1>2. req' = [req EXCEPT ![r] = k] /\ req \in [Requests -> Continuations]
  BY DEF Goto, TypeInv, TypeOK
<1>3. TypeOK'
  BY <1>1, <1>2 DEF TypeOK, VersionInv, FlagsTyped, Exists
<1>4. ASSUME NEW q \in Requests, q # r
      PROVE  /\ req[q].pc \in {"start", "apply"} => tpl'[req[q].version] # "absent"
             /\ req[q].pc \in {"read", "count", "clone", "retire", "apply"}
                  /\ req[q].edit.kind # "section.create" =>
                    rows'[req[q].version][req[q].edit.slot] # None
             /\ req[q].pc = "retire" =>
                  \A j \in Slots : LiveIn(req[q].copy, j) =>
                    rows'[req[q].version + 1][j] # None
  <2>1. req[q] \in Continuations
    BY <1>2
  <2>2. req[q].pc # "idle" => req[q].version \in Versions
    BY <2>1, Carried
  <2>3. req[q].pc \in {"read", "count", "clone", "retire", "apply"} => req[q].edit \in Edits
    BY <2>1, Carried
  <2>4. req[q].pc \in {"start", "read", "count", "clone", "retire", "apply"} =>
          Exists(req[q].version)
    BY DEF TypeInv, VersionInv, EditorsBelowHighest, RowsPresent
  <2>5. req[q].pc = "retire" =>
          /\ req[q].version + 1 \in Versions /\ Exists(req[q].version + 1)
    BY VersionAssumption DEF TypeInv, VersionInv, EditorsBelowHighest, Versions
  <2>6. req[q].pc \in {"start", "apply"} => tpl'[req[q].version] # "absent"
    BY <2>2, <2>4, VersionsStay DEF TypeInv, Exists
  <2>7. ASSUME req[q].pc \in {"read", "count", "clone", "retire", "apply"},
               req[q].edit.kind # "section.create"
        PROVE  rows'[req[q].version][req[q].edit.slot] # None
    <3>1. req[q].edit.slot \in Slots
      BY <2>3, <2>7, EditNames
    <3>2. rows[req[q].version][req[q].edit.slot] # None
      BY <2>7 DEF TypeInv, RowsPresent
    <3> QED BY <2>2, <2>4, <2>7, <3>1, <3>2
  <2>8. ASSUME req[q].pc = "retire", NEW j \in Slots, LiveIn(req[q].copy, j)
        PROVE  rows'[req[q].version + 1][j] # None
    BY <2>5, <2>8 DEF TypeInv, RowsPresent
  <2> QED BY <2>6, <2>7, <2>8
<1>5. ASSUME NEW q \in Requests
      PROVE  /\ req'[q].pc \in {"start", "apply"} => tpl'[req'[q].version] # "absent"
             /\ req'[q].pc \in {"read", "count", "clone", "retire", "apply"}
                  /\ req'[q].edit.kind # "section.create" =>
                    rows'[req'[q].version][req'[q].edit.slot] # None
             /\ req'[q].pc = "retire" =>
                  \A j \in Slots : LiveIn(req'[q].copy, j) =>
                    rows'[req'[q].version + 1][j] # None
  <2>1. CASE q = r
    <3>1. req'[q] = k
      BY <1>2, <2>1
    <3> QED BY <3>1
  <2>2. CASE q # r
    <3>1. req'[q] = req[q]
      BY <1>2, <2>2
    <3> QED BY <1>4, <2>2, <3>1
  <2> QED BY <2>1, <2>2
<1>6. RowsPresent'
  BY <1>5 DEF RowsPresent, Exists, LiveIn
<1> QED BY <1>1, <1>3, <1>6 DEF TypeInv

(* A request that ends, with whatever it wrote. *)
LEMMA TypeEnds ==
  ASSUME TypeInv, [Next]_vars, NEW r \in Requests, Goto(r, Idle),
         rows' \in [Versions -> Layout],
         \A v \in Versions, j \in Slots : rows[v][j] # None => rows'[v][j] # None,
         used' \subseteq {v \in Versions : tpl'[v] # "absent"}
  PROVE  TypeInv'
<1>1. Idle \in Continuations /\ Idle.pc = "idle"
  BY DEF Idle, Continuations
<1> QED BY <1>1, TypeMoves

(* A request that goes on and writes nothing. *)
LEMMA TypeGoesOn ==
  ASSUME TypeInv, [Next]_vars, NEW r \in Requests, NEW k \in Continuations,
         Goto(r, k), UNCHANGED <<tpl, rows, used>>,
         k.pc \in {"start", "apply"} => Exists(k.version),
         k.pc \in {"read", "count", "clone", "retire", "apply"}
           /\ k.edit.kind # "section.create" => rows[k.version][k.edit.slot] # None,
         k.pc # "retire"
  PROVE  TypeInv'
<1>1. /\ rows' \in [Versions -> Layout]
      /\ used' \subseteq {v \in Versions : tpl'[v] # "absent"}
  BY DEF TypeInv, TypeOK, Exists
<1>2. k.pc \in {"start", "apply"} => tpl'[k.version] # "absent"
  BY DEF Exists
<1> QED BY <1>1, <1>2, TypeMoves

(* The rows an edit writes keep their type and no row goes away. *)
LEMMA ApplyTyped ==
  ASSUME TypeInv, [Next]_vars, NEW r \in Requests, Apply(r)
  PROVE  TypeInv'
<1>1. /\ req[r].pc = "apply" /\ req[r].version \in Versions /\ req[r].edit \in Edits
      /\ At(r) \in Layout
  <2>1. req[r].pc = "apply"
    BY DEF Apply, SectionCreate, SectionConflict, SectionUpdate, SectionDelete,
           KpiCreate, KpiSet
  <2>2. req[r] \in Continuations
    BY DEF TypeInv, TypeOK
  <2>3. req[r].version \in Versions /\ req[r].edit \in Edits
    BY <2>1, <2>2, Carried
  <2> QED BY <2>1, <2>3 DEF At, TypeInv, TypeOK
<1>2. ASSUME NEW k \in Slots, NEW section \in Section, Write(r, k, section)
      PROVE  TypeInv'
  <2>1. /\ rows' \in [Versions -> Layout]
        /\ \A v \in Versions, j \in Slots : rows[v][j] # None => rows'[v][j] # None
        /\ Goto(r, Idle)
        /\ UNCHANGED <<tpl, used>>
    BY <1>1, <1>2, WriteKeeps
  <2>2. used' \subseteq {v \in Versions : tpl'[v] # "absent"}
    BY <2>1 DEF TypeInv, TypeOK, Exists
  <2> QED BY <2>1, <2>2, TypeEnds
<1>3. ASSUME Goto(r, Idle), UNCHANGED <<tpl, rows, used>>
      PROVE  TypeInv'
  <2>1. rows' \in [Versions -> Layout] /\ used' \subseteq {v \in Versions : tpl'[v] # "absent"}
    BY <1>3 DEF TypeInv, TypeOK, Exists
  <2> QED BY <1>3, <2>1, TypeEnds
<1>4. ASSUME NEW k, k = req[r].edit.slot, req[r].edit.kind # "section.create"
      PROVE  k \in Slots /\ At(r)[k] \in Section
  <2>1. k \in Slots /\ At(r)[k] # None
    BY <1>1, <1>4, EditNames DEF At, TypeInv, RowsPresent
  <2> QED BY <1>1, <2>1 DEF Layout
<1>5. ASSUME NEW k \in Slots, SectionCreate(r, k)
      PROVE  TypeInv'
  BY <1>1, <1>2, <1>5, EditNames, SectionsAreRows DEF SectionCreate
<1>6. CASE SectionConflict(r)
  BY <1>3, <1>6 DEF SectionConflict
<1>7. CASE SectionUpdate(r)
  <2> DEFINE k == req[r].edit.slot
             n == req[r].edit.number
  <2>1. req[r].edit.kind = "section.update"
    BY <1>7 DEF SectionUpdate
  <2>2. k \in Slots /\ At(r)[k] \in Section /\ n \in Numbers
    BY <1>1, <1>4, <2>1, EditNames
  <2>3. [At(r)[k] EXCEPT !.number = n] \in Section
    BY <2>2 DEF Section
  <2>4. \/ Goto(r, Idle) /\ UNCHANGED <<tpl, rows, used>>
        \/ Write(r, k, [At(r)[k] EXCEPT !.number = n])
    BY <1>7 DEF SectionUpdate
  <2> QED BY <1>2, <1>3, <2>2, <2>3, <2>4
<1>8. CASE SectionDelete(r)
  <2> DEFINE k == req[r].edit.slot
  <2>1. req[r].edit.kind = "section.delete"
    BY <1>8 DEF SectionDelete
  <2>2. k \in Slots /\ At(r)[k] \in Section
    BY <1>4, <2>1
  <2>3. [At(r)[k] EXCEPT !.live = FALSE] \in Section
    BY <2>2 DEF Section
  <2> QED BY <1>2, <1>8, <2>2, <2>3 DEF SectionDelete
<1>9. CASE KpiCreate(r)
  <2> DEFINE k == req[r].edit.slot
             c == req[r].edit.code
  <2>1. req[r].edit.kind = "kpi.create"
    BY <1>9 DEF KpiCreate
  <2>2. k \in Slots /\ At(r)[k] \in Section /\ c \in Codes
    BY <1>1, <1>4, <2>1, EditNames
  <2>3. [At(r)[k] EXCEPT !.kpis[c] = "on"] \in Section
    BY <2>2 DEF Section
  <2>4. \/ Goto(r, Idle) /\ UNCHANGED <<tpl, rows, used>>
        \/ Write(r, k, [At(r)[k] EXCEPT !.kpis[c] = "on"])
    BY <1>9 DEF KpiCreate
  <2> QED BY <1>2, <1>3, <2>2, <2>3, <2>4
<1>10. CASE KpiSet(r)
  <2> DEFINE k == req[r].edit.slot
             c == req[r].edit.code
             to == req[r].edit.to
  <2>1. req[r].edit.kind = "kpi.set"
    BY <1>10 DEF KpiSet
  <2>2. k \in Slots /\ At(r)[k] \in Section /\ c \in Codes /\ to \in {"on", "off"}
    BY <1>1, <1>4, <2>1, EditNames
  <2>3. [At(r)[k] EXCEPT !.kpis[c] = to] \in Section
    BY <2>2 DEF Section
  <2>4. Write(r, k, [At(r)[k] EXCEPT !.kpis[c] = to])
    BY <1>10 DEF KpiSet
  <2> QED BY <1>2, <2>2, <2>3, <2>4
<1> QED BY <1>5, <1>6, <1>7, <1>8, <1>9, <1>10 DEF Apply

(* The clone is a new version with the rows of the copy. *)
LEMMA CloneTyped ==
  ASSUME TypeInv, [Next]_vars, NEW r \in Requests, CloneCreate(r)
  PROVE  /\ TypeInv'
         /\ \A v \in Versions : Exists(v) => rows'[v] = rows[v]
         /\ req[r].version + 1 \in Versions /\ ~Exists(req[r].version + 1)
         /\ rows'[req[r].version + 1] = req[r].copy
         /\ tpl' = [tpl EXCEPT ![req[r].version + 1] = "active"]
<1> DEFINE w == req[r].version + 1
           k == [pc |-> "retire", version |-> req[r].version, edit |-> req[r].edit,
                 copy |-> req[r].copy]
<1>1. /\ req[r].pc = "clone" /\ ~Exists(w)
      /\ tpl' = [tpl EXCEPT ![w] = "active"]
      /\ rows' = [rows EXCEPT ![w] = req[r].copy]
      /\ Goto(r, k) /\ UNCHANGED used
  BY DEF CloneCreate
<1>2. req[r] \in Continuations
  BY DEF TypeInv, TypeOK
<1>3. req[r].version \in Versions /\ req[r].edit \in Edits /\ req[r].copy \in Layout
  BY <1>1, <1>2, Carried
<1>4. req[r].version < MaxVersion /\ Exists(req[r].version)
  BY <1>1 DEF TypeInv, VersionInv, EditorsBelowHighest
<1>5. w \in Versions
  BY <1>3, <1>4, VersionAssumption DEF Versions
<1>6. k \in Continuations
  BY <1>3 DEF Continuations, Retiring
<1>7. rows \in [Versions -> Layout] /\ tpl \in [Versions -> {"absent", "active", "inactive"}]
  BY DEF TypeInv, TypeOK
<1>8. rows' \in [Versions -> Layout]
  BY <1>1, <1>3, <1>7
<1>9. \A v \in Versions : Exists(v) => rows'[v] = rows[v]
  BY <1>1, <1>7
<1>10. rows'[w] = req[r].copy
  BY <1>1, <1>5, <1>7
<1>11. used' \subseteq {v \in Versions : tpl'[v] # "absent"}
  <2>1. \A v \in Versions : Exists(v) => tpl'[v] # "absent"
    BY <1>1, <1>7 DEF Exists
  <2> QED BY <1>1, <2>1 DEF TypeInv, TypeOK
<1>12. \A j \in Slots : LiveIn(k.copy, j) => rows'[k.version + 1][j] # None
  BY <1>10 DEF LiveIn
<1>13. req[r].edit.kind # "section.create" =>
         rows'[req[r].version][req[r].edit.slot] # None
  BY <1>1, <1>3, <1>4, <1>9 DEF TypeInv, RowsPresent
<1>14. \A v \in Versions, j \in Slots :
         Exists(v) /\ rows[v][j] # None => rows'[v][j] # None
  BY <1>9
<1>15. /\ k.pc = "retire" /\ k.version = req[r].version /\ k.edit = req[r].edit
  OBVIOUS
<1>16. TypeInv'
  <2> HIDE DEF k, w
  <2> QED BY <1>1, <1>6, <1>8, <1>11, <1>12, <1>13, <1>14, <1>15, TypeMoves
<1> QED BY <1>1, <1>5, <1>9, <1>10, <1>16

(* Where an edit goes when its clone is there: a row of the clone, or nowhere. *)
LEMMA Target ==
  ASSUME TypeInv, NEW r \in Requests, req[r].pc = "retire"
  PROVE  /\ AfterRetire(r) \in Continuations
         /\ AfterRetire(r).pc \in {"apply", "idle"}
         /\ AfterRetire(r).pc = "apply" =>
              /\ AfterRetire(r).version = req[r].version + 1
              /\ AfterRetire(r).edit.kind # "section.create" =>
                   rows[req[r].version + 1][AfterRetire(r).edit.slot] # None
<1> DEFINE e == req[r].edit
           w == req[r].version + 1
<1>1. req[r] \in Continuations
  BY DEF TypeInv, TypeOK
<1>2. req[r].version \in Versions /\ e \in Edits
  BY <1>1, Carried
<1>3. w \in Versions
  BY <1>2, VersionAssumption DEF TypeInv, VersionInv, EditorsBelowHighest, Versions
<1>4. CASE e.kind = "section.create"
  <2>1. AfterRetire(r) = [pc |-> "apply", version |-> w, edit |-> e]
    BY <1>4 DEF AfterRetire
  <2>2. AfterRetire(r) \in Continuations
    BY <1>2, <1>3, <2>1 DEF Continuations, Applying
  <2> QED BY <1>4, <2>1, <2>2
<1>5. CASE e.kind # "section.create" /\ \E k \in Slots : InClone(req[r].copy, e, k)
  <2> DEFINE c == CHOOSE k \in Slots : InClone(req[r].copy, e, k)
  <2>1. c \in Slots /\ InClone(req[r].copy, e, c)
    BY <1>5
  <2>2. AfterRetire(r) = [pc |-> "apply", version |-> w, edit |-> [e EXCEPT !.slot = c]]
    BY <1>5 DEF AfterRetire
  <2> HIDE DEF c
  <2>3. [e EXCEPT !.slot = c] \in Edits
    BY <1>2, <1>5, <2>1, EditMoves
  <2>4. AfterRetire(r) \in Continuations
    BY <1>3, <2>2, <2>3 DEF Continuations, Applying
  <2>5. rows[w][c] # None
    BY <2>1 DEF TypeInv, RowsPresent, InClone
  <2>6. [e EXCEPT !.slot = c].slot = c
    BY <1>2, <1>5 DEF Edits
  <2>7. /\ AfterRetire(r).pc = "apply" /\ AfterRetire(r).version = w
        /\ AfterRetire(r).edit = [e EXCEPT !.slot = c]
    BY <2>2
  <2>8. rows[w][AfterRetire(r).edit.slot] # None
    BY <2>5, <2>6, <2>7, Zenon
  <2> QED BY <2>4, <2>7, <2>8
<1>6. CASE e.kind # "section.create" /\ ~\E k \in Slots : InClone(req[r].copy, e, k)
  <2>1. AfterRetire(r) = Idle
    BY <1>6 DEF AfterRetire
  <2> QED BY <2>1 DEF Continuations, Idle
<1> QED BY <1>4, <1>5, <1>6

(* No step of a request gives a column or a continuation a wrong type. *)
LEMMA TypeStep == TypeInv /\ [Next]_vars => TypeInv'
<1> SUFFICES ASSUME TypeInv, [Next]_vars PROVE TypeInv'
  OBVIOUS
<1>1. ASSUME NEW r \in Requests, NEW v \in Versions, StartRead(r, v)
      PROVE  TypeInv'
  <2> DEFINE k == [pc |-> "start", version |-> v]
  <2>1. k \in Continuations
    BY DEF Continuations, Starting
  <2>2. Exists(v)
    BY <1>1 DEF StartRead, Current, Exists
  <2>3. Goto(r, k) /\ UNCHANGED <<tpl, rows, used>>
    BY <1>1 DEF StartRead
  <2>4. k.pc = "start" /\ k.version = v
    OBVIOUS
  <2> HIDE DEF k
  <2> QED BY <2>1, <2>2, <2>3, <2>4, TypeGoesOn
<1>2. ASSUME NEW r \in Requests, StartInsert(r)
      PROVE  TypeInv'
  <2>1. req[r].pc = "start" /\ req[r] \in Continuations
    BY <1>2 DEF StartInsert, TypeInv, TypeOK
  <2>2. req[r].version \in Versions /\ Exists(req[r].version)
    BY <2>1, Carried DEF TypeInv, RowsPresent
  <2>3. /\ used' = used \union {req[r].version} /\ Goto(r, Idle)
        /\ UNCHANGED <<tpl, rows>>
    BY <1>2 DEF StartInsert
  <2>4. /\ rows' \in [Versions -> Layout]
        /\ used' \subseteq {v \in Versions : tpl'[v] # "absent"}
    BY <2>2, <2>3 DEF TypeInv, TypeOK, Exists
  <2> QED BY <2>3, <2>4, TypeEnds
<1>3. ASSUME NEW r \in Requests, NEW v \in Versions, NEW edit \in Edits,
             Begin(r, v, edit)
      PROVE  TypeInv'
  <2> DEFINE k == [pc |-> "read", version |-> v, edit |-> edit]
  <2>1. k \in Continuations
    BY DEF Continuations, Reading
  <2>2. /\ Goto(r, k) /\ UNCHANGED <<tpl, rows, used>>
        /\ edit.kind # "section.create" => rows[v][edit.slot] # None
    BY <1>3 DEF Begin
  <2>3. k.pc = "read" /\ k.version = v /\ k.edit = edit
    OBVIOUS
  <2> HIDE DEF k
  <2> QED BY <2>1, <2>2, <2>3, TypeGoesOn
<1>4. ASSUME NEW r \in Requests, ReadTemplate(r)
      PROVE  TypeInv'
  <2> DEFINE k == [pc |-> "count", version |-> req[r].version, edit |-> req[r].edit,
                   copy |-> LiveRows(rows[req[r].version])]
  <2>1. /\ req[r].pc = "read" /\ req[r] \in Continuations
        /\ Goto(r, k) /\ UNCHANGED <<tpl, rows, used>>
    BY <1>4 DEF ReadTemplate, TypeInv, TypeOK
  <2>2. req[r].version \in Versions /\ req[r].edit \in Edits
    BY <2>1, Carried
  <2>3. LiveRows(rows[req[r].version]) \in Layout
    BY <2>2, LiveRowsType DEF TypeInv, TypeOK
  <2>4. k \in Continuations
    BY <2>2, <2>3 DEF Continuations, Counting
  <2>5. req[r].edit.kind # "section.create" => rows[req[r].version][req[r].edit.slot] # None
    BY <2>1 DEF TypeInv, RowsPresent
  <2>6. k.pc = "count" /\ k.version = req[r].version /\ k.edit = req[r].edit
    OBVIOUS
  <2> HIDE DEF k
  <2> QED BY <2>1, <2>4, <2>5, <2>6, TypeGoesOn
<1>5. ASSUME NEW r \in Requests, CountEvaluations(r)
      PROVE  TypeInv'
  <2> DEFINE k == [pc |-> "apply", version |-> req[r].version, edit |-> req[r].edit]
             c == [pc |-> "clone", version |-> req[r].version, edit |-> req[r].edit,
                   copy |-> req[r].copy]
  <2>1. /\ req[r].pc = "count" /\ req[r] \in Continuations
        /\ Goto(r, k) \/ Goto(r, c)
        /\ UNCHANGED <<tpl, rows, used>>
    BY <1>5 DEF CountEvaluations, TypeInv, TypeOK
  <2>2. /\ req[r].version \in Versions /\ req[r].edit \in Edits /\ req[r].copy \in Layout
    BY <2>1, Carried
  <2>3. /\ Exists(req[r].version)
        /\ req[r].edit.kind # "section.create" =>
             rows[req[r].version][req[r].edit.slot] # None
    BY <2>1 DEF TypeInv, RowsPresent, VersionInv, EditorsBelowHighest
  <2>4. /\ k \in Continuations /\ c \in Continuations
        /\ k.pc = "apply" /\ k.version = req[r].version /\ k.edit = req[r].edit
        /\ c.pc = "clone" /\ c.version = req[r].version /\ c.edit = req[r].edit
    BY <2>2 DEF Continuations, Applying, Counting
  <2> HIDE DEF k, c
  <2>5. CASE Goto(r, k)
    BY <2>1, <2>3, <2>4, <2>5, TypeGoesOn
  <2>6. CASE Goto(r, c)
    BY <2>1, <2>3, <2>4, <2>6, TypeGoesOn
  <2> QED BY <2>1, <2>5, <2>6
<1>6. ASSUME NEW r \in Requests, CloneCreate(r)
      PROVE  TypeInv'
  BY <1>6, CloneTyped
<1>7. ASSUME NEW r \in Requests, CloneRefused(r) \/ Fail(r)
      PROVE  TypeInv'
  <2>1. Goto(r, Idle) /\ UNCHANGED <<tpl, rows, used>>
    BY <1>7 DEF CloneRefused, Fail
  <2>2. rows' \in [Versions -> Layout] /\ used' \subseteq {v \in Versions : tpl'[v] # "absent"}
    BY <2>1 DEF TypeInv, TypeOK, Exists
  <2> QED BY <2>1, <2>2, TypeEnds
<1>8. ASSUME NEW r \in Requests, Retire(r)
      PROVE  TypeInv'
  <2> DEFINE k == AfterRetire(r)
  <2>1. /\ req[r].pc = "retire" /\ tpl' = [tpl EXCEPT ![req[r].version] = "inactive"]
        /\ Goto(r, k) /\ UNCHANGED <<rows, used>>
    BY <1>8 DEF Retire
  <2>2. /\ k \in Continuations /\ k.pc \in {"apply", "idle"}
        /\ k.pc = "apply" =>
             /\ k.version = req[r].version + 1
             /\ k.edit.kind # "section.create" =>
                  rows[req[r].version + 1][k.edit.slot] # None
    BY <2>1, Target
  <2>3. Exists(req[r].version + 1) /\ req[r].version \in Versions
    BY <2>1 DEF TypeInv, VersionInv, EditorsBelowHighest
  <2>4. \A v \in Versions : Exists(v) => tpl'[v] # "absent"
    BY <2>1 DEF TypeInv, TypeOK, Exists
  <2>5. req[r].version + 1 \in Versions
    BY <2>1, <2>3, VersionAssumption DEF TypeInv, VersionInv, EditorsBelowHighest, Versions
  <2>6. rows' \in [Versions -> Layout] /\ used' \subseteq {v \in Versions : tpl'[v] # "absent"}
    BY <2>1, <2>4 DEF TypeInv, TypeOK
  <2> HIDE DEF k
  <2>7. k.pc = "apply" => tpl'[k.version] # "absent"
    BY <2>2, <2>3, <2>4, <2>5
  <2>8. k.pc \in {"read", "count", "clone", "retire", "apply"}
          /\ k.edit.kind # "section.create" => rows'[k.version][k.edit.slot] # None
    BY <2>1, <2>2
  <2> QED BY <2>1, <2>2, <2>6, <2>7, <2>8, TypeMoves
<1>9. ASSUME NEW r \in Requests, Apply(r)
      PROVE  TypeInv'
  BY <1>9, ApplyTyped
<1>10. ASSUME NEW n \in Seed, Reprovision(n)
       PROVE  TypeInv'
  <2>1. VersionInv'
    BY EditorsStep, HighestStep DEF VersionInv, TypeInv
  <2>2. 1 \in Versions /\ rows \in [Versions -> Layout] /\ n \in Numbers
    BY VersionAssumption, SeedAssumption DEF Versions, TypeInv, TypeOK
  <2>3. PICK k \in Slots, s \in Section : rows' = [rows EXCEPT ![1][k] = s]
    <3>1. CASE ~Taken(rows[1], n)
      BY <1>10, <2>2, <3>1, SectionsAreRows DEF Reprovision
    <3>2. CASE Taken(rows[1], n)
      <4>1. PICK k \in Slots, c \in Codes :
              rows[1][k] # None /\ rows' = [rows EXCEPT ![1][k].kpis[c] = "on"]
        BY <1>10, <3>2 DEF Reprovision
      <4>2. rows[1][k] \in Section
        BY <2>2, <4>1 DEF Layout
      <4>3. [rows[1][k] EXCEPT !.kpis[c] = "on"] \in Section
        BY <4>2 DEF Section
      <4>4. rows' = [rows EXCEPT ![1][k] = [rows[1][k] EXCEPT !.kpis[c] = "on"]]
        BY <4>1
      <4> QED BY <4>3, <4>4
    <3> QED BY <3>1, <3>2
  <2>4. rows' \in [Versions -> Layout]
    BY <2>2, <2>3 DEF Layout
  <2>5. \A v \in Versions, j \in Slots : rows[v][j] # None => rows'[v][j] # None
    BY <2>2, <2>3, SectionsAreRows DEF Layout
  <2>6. UNCHANGED <<tpl, used, req>>
    BY <1>10 DEF Reprovision
  <2>7. TypeOK'
    BY <2>4, <2>6 DEF TypeInv, TypeOK, Exists
  <2>8. RowsPresent'
    <3> SUFFICES ASSUME NEW q \in Requests
                 PROVE  /\ req[q].pc \in {"start", "apply"} => Exists(req[q].version)
                        /\ req[q].pc \in {"read", "count", "clone", "retire", "apply"}
                             /\ req[q].edit.kind # "section.create" =>
                               rows'[req[q].version][req[q].edit.slot] # None
                        /\ req[q].pc = "retire" =>
                             \A j \in Slots : LiveIn(req[q].copy, j) =>
                               rows'[req[q].version + 1][j] # None
      BY <2>6 DEF RowsPresent, Exists, LiveIn
    <3>1. req[q] \in Continuations
      BY DEF TypeInv, TypeOK
    <3>2. req[q].pc \in {"start", "apply"} => Exists(req[q].version)
      BY DEF TypeInv, RowsPresent
    <3>3. ASSUME req[q].pc \in {"read", "count", "clone", "retire", "apply"},
                 req[q].edit.kind # "section.create"
          PROVE  rows'[req[q].version][req[q].edit.slot] # None
      <4>1. req[q].version \in Versions /\ req[q].edit \in Edits
        BY <3>1, <3>3, Carried
      <4>2. req[q].edit.slot \in Slots
        BY <3>3, <4>1, EditNames
      <4>3. rows[req[q].version][req[q].edit.slot] # None
        BY <3>3 DEF TypeInv, RowsPresent
      <4> QED BY <2>5, <4>1, <4>2, <4>3
    <3>4. ASSUME req[q].pc = "retire", NEW j \in Slots, LiveIn(req[q].copy, j)
          PROVE  rows'[req[q].version + 1][j] # None
      <4>1. req[q].version + 1 \in Versions
        BY <3>4, VersionAssumption DEF TypeInv, VersionInv, EditorsBelowHighest, Versions
      <4>2. rows[req[q].version + 1][j] # None
        BY <3>4 DEF TypeInv, RowsPresent
      <4> QED BY <2>5, <4>1, <4>2
    <3> QED BY <3>2, <3>3, <3>4
  <2> QED BY <2>1, <2>7, <2>8 DEF TypeInv
<1>11. CASE UNCHANGED vars
  BY <1>11 DEF vars, TypeInv, VersionInv, FlagsTyped, EditorsBelowHighest,
     HighestIsActive, TypeOK, RowsPresent, Exists, LiveIn
<1> QED
  BY <1>1, <1>2, <1>3, <1>4, <1>5, <1>6, <1>7, <1>8, <1>9, <1>10, <1>11
     DEF Next, Advance

(* The template starts with one version and its seed rows. *)
LEMMA TypeInit == Init => TypeInv
<1> SUFFICES ASSUME Init PROVE TypeInv
  OBVIOUS
<1>1. VersionInv
  BY VersionAssumption
     DEF Init, VersionInv, FlagsTyped, EditorsBelowHighest, HighestIsActive, Exists,
         Idle, Versions
<1>2. PICK n \in Numbers :
        rows = [v \in Versions |-> [s \in Slots |->
                  IF v = 1 /\ s = FirstSlot
                  THEN [NewSection(n) EXCEPT !.kpis = [c \in Codes |-> "on"]]
                  ELSE None]]
  BY SeedAssumption DEF Init
<1>3. [NewSection(n) EXCEPT !.kpis = [c \in Codes |-> "on"]] \in Section
  BY DEF NewSection, Section
<1>4. rows \in [Versions -> Layout]
  BY <1>2, <1>3 DEF Layout
<1>5. req \in [Requests -> Continuations] /\ used = {}
  BY DEF Init, Continuations
<1>6. TypeOK
  BY <1>1, <1>4, <1>5 DEF TypeOK, VersionInv, FlagsTyped
<1>7. RowsPresent
  BY DEF Init, RowsPresent, Idle
<1> QED BY <1>1, <1>6, <1>7 DEF TypeInv

(* Versions, rows and continuations keep their types, every version an        *)
(* evaluation references exists, and the row of an edit is there when it is   *)
(* written, whatever other editors and reprovisioning do in between.         *)
THEOREM TemplateTypeCorrect == Spec => [](TypeOK /\ RowsPresent)
<1>1. TypeInv => TypeOK /\ RowsPresent
  BY DEF TypeInv
<1> QED BY <1>1, TypeInit, TypeStep, PTL DEF Spec

-----------------------------------------------------------------------------
(* The history watches and changes nothing: what holds of every behaviour of  *)
(* TemplateVersions holds of every behaviour with its history.                *)
LEMMA HistoryIsWatched == HistorySpec => Spec
<1>1. HistoryInit => Init
  BY DEF HistoryInit
<1>2. [Next /\ Watch]_historyVars => [Next]_vars
  BY DEF historyVars, vars
<1> QED BY <1>1, <1>2, PTL DEF HistorySpec, Spec

(* Copy-on-write.  What a request carries between two calls is still true, or *)
(* the request was overtaken: the version it edits in place, or the clone it   *)
(* made, has no evaluation, and its copy is what the template has.            *)
Fits(r, k, inUse, layouts, late) ==
  /\ k.pc = "apply" /\ k.version \in inUse => r \in late[k.version]
  /\ k.pc = "retire" /\ k.version + 1 \in inUse => r \in late[k.version + 1]
  /\ k.pc = "clone" => k.version \in inUse
  /\ k.pc \in {"count", "clone"} /\ k.version \in inUse /\ r \notin late[k.version] =>
       k.copy = LiveRows(layouts[k.version])

CarriedHolds ==
  /\ overtaken \in [Versions -> SUBSET Requests]
  /\ \A r \in Requests : Fits(r, req[r], used, rows, overtaken)

CopyInv == TypeInv /\ CarriedHolds

(* Evaluations are never removed. *)
LEMMA UsedGrows ==
  ASSUME [Next]_vars
  PROVE  used \subseteq used'
  BY DEF Next, vars, Advance, Apply, StartRead, StartInsert, Begin, ReadTemplate,
         CountEvaluations, CloneCreate, CloneRefused, Retire, SectionCreate,
         SectionConflict, SectionUpdate, SectionDelete, KpiCreate, KpiSet, Write,
         Reprovision, Fail

(* A request that does not move still fits: whoever inserts the first          *)
(* evaluation of its version, or changes its rows later, overtakes it.        *)
LEMMA CarriedStays ==
  ASSUME CopyInv, TypeInv', [Next]_vars, Watch,
         NEW q \in Requests, req'[q] = req[q]
  PROVE  Fits(q, req'[q], used', rows', overtaken')
<1>1. /\ Fits(q, req[q], used, rows, overtaken)
      /\ used \subseteq used' /\ used' \subseteq Versions
  BY UsedGrows DEF CopyInv, CarriedHolds, TypeInv, TypeOK
<1>2. ASSUME NEW v \in Versions, AtWork(q, v)
      PROVE  /\ Overtaking(v) => q \in overtaken'[v]
             /\ q \in overtaken[v] => q \in overtaken'[v]
  <2>1. AtWork(q, v)'
    BY <1>2 DEF AtWork
  <2> QED BY <2>1 DEF Watch
<1>3. ASSUME NEW v \in Versions, AtWork(q, v), v \in used'
      PROVE  \/ q \in overtaken'[v]
             \/ v \in used /\ rows'[v] = rows[v] /\ q \notin overtaken[v]
  BY <1>2, <1>3 DEF Overtaking
<1>4. CASE req[q].pc = "apply"
  <2>1. req[q].version \in used' => AtWork(q, req[q].version) /\ req[q].version \in Versions
    BY <1>1, <1>4 DEF AtWork
  <2> QED BY <1>1, <1>3, <1>4, <2>1 DEF Fits
<1>5. CASE req[q].pc = "retire"
  <2>1. req[q].version + 1 \in used' =>
          AtWork(q, req[q].version + 1) /\ req[q].version + 1 \in Versions
    BY <1>1, <1>5 DEF AtWork
  <2> QED BY <1>1, <1>3, <1>5, <2>1 DEF Fits
<1>6. CASE req[q].pc \in {"count", "clone"}
  <2>1. req[q].version \in used' => AtWork(q, req[q].version) /\ req[q].version \in Versions
    BY <1>1, <1>6 DEF AtWork
  <2> QED BY <1>1, <1>3, <1>6, <2>1 DEF Fits
<1> QED BY <1>4, <1>5, <1>6 DEF Fits

(* So only the request that moves has to answer for what it carries.          *)
LEMMA CarriedMoves ==
  ASSUME CopyInv, TypeInv', [Next]_vars, Watch,
         NEW r \in Requests, NEW k, Goto(r, k), Fits(r, k, used', rows', overtaken')
  PROVE  CarriedHolds'
<1>1. req' = [req EXCEPT ![r] = k] /\ req \in [Requests -> Continuations]
  BY DEF Goto, CopyInv, TypeInv, TypeOK
<1>2. overtaken' \in [Versions -> SUBSET Requests]
  BY DEF Watch
<1>3. ASSUME NEW q \in Requests PROVE Fits(q, req'[q], used', rows', overtaken')
  <2>1. CASE q = r
    <3>1. req'[q] = k
      BY <1>1, <2>1
    <3> QED BY <2>1, <3>1
  <2>2. CASE q # r
    <3>1. req'[q] = req[q]
      BY <1>1, <2>2
    <3> QED BY <3>1, CarriedStays
  <2> QED BY <2>1, <2>2
<1> QED BY <1>2, <1>3 DEF CarriedHolds

(* A request that is at work on no version fits. *)
LEMMA CarriedEnds ==
  ASSUME CopyInv, TypeInv', [Next]_vars, Watch,
         NEW r \in Requests, NEW k, Goto(r, k), k.pc \in {"idle", "start", "read"}
  PROVE  CarriedHolds'
<1>1. Fits(r, k, used', rows', overtaken')
  BY DEF Fits
<1> QED BY <1>1, CarriedMoves

(* What a request carries stays true, or it was overtaken.                    *)
LEMMA CopyStep == CopyInv /\ [Next /\ Watch]_historyVars => CopyInv'
<1> SUFFICES ASSUME CopyInv, [Next /\ Watch]_historyVars PROVE CopyInv'
  OBVIOUS
<1>0. [Next]_vars
  BY DEF historyVars, vars
<1>1. TypeInv'
  BY <1>0, TypeStep DEF CopyInv
<1>2. ASSUME UNCHANGED historyVars PROVE CarriedHolds'
  <2>1. /\ \A r \in Requests : Fits(r, req'[r], used', rows', overtaken')
        /\ overtaken' \in [Versions -> SUBSET Requests]
    BY <1>2 DEF historyVars, CopyInv, CarriedHolds
  <2> QED BY <2>1 DEF CarriedHolds
<1>3. ASSUME Watch, NEW r \in Requests,
             \/ \E v \in Versions : StartRead(r, v)
             \/ \E v \in Versions, edit \in Edits : Begin(r, v, edit)
             \/ StartInsert(r) \/ CloneRefused(r) \/ Apply(r) \/ Fail(r)
      PROVE  CarriedHolds'
  <2>1. \/ Goto(r, Idle)
        \/ \E v \in Versions : Goto(r, [pc |-> "start", version |-> v])
        \/ \E v \in Versions, edit \in Edits :
             Goto(r, [pc |-> "read", version |-> v, edit |-> edit])
    BY <1>3 DEF StartRead, Begin, StartInsert, CloneRefused, Apply, SectionCreate,
         SectionConflict, SectionUpdate, SectionDelete, KpiCreate, KpiSet, Write, Fail
  <2>2. CASE Goto(r, Idle)
    <3>1. Idle.pc = "idle"
      BY DEF Idle
    <3> QED BY <1>0, <1>1, <1>3, <2>2, <3>1, CarriedEnds
  <2>3. ASSUME NEW v \in Versions, Goto(r, [pc |-> "start", version |-> v])
        PROVE  CarriedHolds'
    BY <1>0, <1>1, <1>3, <2>3, CarriedEnds
  <2>4. ASSUME NEW v \in Versions, NEW edit \in Edits,
               Goto(r, [pc |-> "read", version |-> v, edit |-> edit])
        PROVE  CarriedHolds'
    BY <1>0, <1>1, <1>3, <2>4, CarriedEnds
  <2> QED BY <2>1, <2>2, <2>3, <2>4
<1>4. ASSUME Watch, NEW r \in Requests, ReadTemplate(r) PROVE CarriedHolds'
  <2> DEFINE k == [pc |-> "count", version |-> req[r].version, edit |-> req[r].edit,
                   copy |-> LiveRows(rows[req[r].version])]
  <2>1. Goto(r, k) /\ rows' = rows
    BY <1>4 DEF ReadTemplate
  <2>2. k.pc = "count" /\ k.copy = LiveRows(rows'[k.version])
    BY <2>1
  <2> HIDE DEF k
  <2>3. Fits(r, k, used', rows', overtaken')
    BY <2>2 DEF Fits
  <2> QED BY <1>0, <1>1, <1>4, <2>1, <2>3, CarriedMoves
<1>5. ASSUME Watch, NEW r \in Requests, CountEvaluations(r) PROVE CarriedHolds'
  <2>1. /\ req[r].pc = "count" /\ rows' = rows /\ used' = used
        /\ req[r].version \in Versions
        /\ Fits(r, req[r], used, rows, overtaken)
    BY <1>5, Carried DEF CountEvaluations, CopyInv, CarriedHolds, TypeInv, TypeOK
  <2>2. CASE req[r].version \notin used
    <3> DEFINE k == [pc |-> "apply", version |-> req[r].version, edit |-> req[r].edit]
    <3>1. Goto(r, k)
      BY <1>5, <2>2 DEF CountEvaluations
    <3>2. k.pc = "apply" /\ k.version \notin used'
      BY <2>1, <2>2
    <3> HIDE DEF k
    <3>3. Fits(r, k, used', rows', overtaken')
      BY <3>2 DEF Fits
    <3> QED BY <1>0, <1>1, <1>5, <3>1, <3>3, CarriedMoves
  <2>3. CASE req[r].version \in used
    <3> DEFINE k == [pc |-> "clone", version |-> req[r].version, edit |-> req[r].edit,
                     copy |-> req[r].copy]
    <3>1. Goto(r, k)
      BY <1>5, <2>3 DEF CountEvaluations
    <3>2. k.pc = "clone" /\ k.version = req[r].version /\ k.copy = req[r].copy
      OBVIOUS
    <3> HIDE DEF k
    <3>3. req'[r] = k
      BY <3>1 DEF Goto, CopyInv, TypeInv, TypeOK
    <3>4. r \in overtaken[k.version] => r \in overtaken'[k.version]
      BY <1>5, <2>1, <3>2, <3>3 DEF Watch, AtWork
    <3>5. Fits(r, k, used', rows', overtaken')
      BY <2>1, <2>3, <3>2, <3>4 DEF Fits
    <3> QED BY <1>0, <1>1, <1>5, <3>1, <3>5, CarriedMoves
  <2> QED BY <2>2, <2>3
<1>6. ASSUME Watch, NEW r \in Requests, CloneCreate(r) PROVE CarriedHolds'
  <2> DEFINE k == [pc |-> "retire", version |-> req[r].version, edit |-> req[r].edit,
                   copy |-> req[r].copy]
  <2>1. Goto(r, k) /\ used' = used
    BY <1>6 DEF CloneCreate
  <2>2. req[r].version + 1 \in Versions /\ ~Exists(req[r].version + 1)
    BY <1>0, <1>6, CloneTyped DEF CopyInv
  <2>3. req[r].version + 1 \notin used
    BY <2>2 DEF CopyInv, TypeInv, TypeOK
  <2>4. k.pc = "retire" /\ k.version = req[r].version
    OBVIOUS
  <2> HIDE DEF k
  <2>5. Fits(r, k, used', rows', overtaken')
    BY <2>1, <2>3, <2>4 DEF Fits
  <2> QED BY <1>0, <1>1, <1>6, <2>1, <2>5, CarriedMoves
<1>7. ASSUME Watch, NEW r \in Requests, Retire(r) PROVE CarriedHolds'
  <2>1. req[r].pc = "retire" /\ Goto(r, AfterRetire(r)) /\ used' = used
    BY <1>7 DEF Retire
  <2> DEFINE k == AfterRetire(r)
              w == req[r].version + 1
  <2>2. k.pc \in {"apply", "idle"} /\ (k.pc = "apply" => k.version = w)
    BY <2>1, Target DEF CopyInv
  <2> HIDE DEF k
  <2>3. req'[r] = k
    BY <2>1 DEF Goto, CopyInv, TypeInv, TypeOK, k
  <2>4. ASSUME k.pc = "apply", w \in used' PROVE r \in overtaken'[w]
    <3>1. w \in Versions /\ r \in overtaken[w]
      BY <2>1, <2>4 DEF CopyInv, CarriedHolds, Fits, TypeInv, TypeOK
    <3>2. \A v \in Versions : v = w => AtWork(r, v)'
      BY <2>2, <2>3, <2>4 DEF AtWork
    <3> QED BY <1>7, <3>1, <3>2 DEF Watch
  <2>5. Fits(r, k, used', rows', overtaken')
    BY <2>2, <2>4 DEF Fits
  <2> QED BY <1>0, <1>1, <1>7, <2>1, <2>5, CarriedMoves DEF k
<1>8. ASSUME Watch, NEW n \in Seed, Reprovision(n) PROVE CarriedHolds'
  <2>1. req' = req
    BY <1>8 DEF Reprovision
  <2>2. \A q \in Requests : Fits(q, req'[q], used', rows', overtaken')
    BY <1>0, <1>1, <1>8, <2>1, CarriedStays
  <2>3. overtaken' \in [Versions -> SUBSET Requests]
    BY <1>8 DEF Watch
  <2> QED BY <2>2, <2>3 DEF CarriedHolds
<1> QED
  BY <1>1, <1>2, <1>3, <1>4, <1>5, <1>6, <1>7, <1>8 DEF Next, Advance, CopyInv

(* Nothing is carried when the first request comes. *)
LEMMA CopyInit == HistoryInit => CopyInv
<1> SUFFICES ASSUME HistoryInit PROVE CopyInv
  OBVIOUS
<1>1. \A r \in Requests : req[r].pc = "idle"
  BY DEF HistoryInit, Init, Idle
<1>2. CarriedHolds
  BY <1>1 DEF HistoryInit, CarriedHolds, Fits
<1> QED BY <1>2, TypeInit DEF HistoryInit, CopyInv

(* Reprovisioning adds to the rows of version 1 and changes none.              *)
LEMMA ReprovisionAdds ==
  ASSUME TypeInv, NEW n \in Seed, Reprovision(n)
  PROVE  /\ UNCHANGED req
         /\ \A v \in Versions : v # 1 => rows'[v] = rows[v]
         /\ Adds(rows[1], rows'[1])
<1>1. rows \in [Versions -> Layout] /\ 1 \in Versions
  BY VersionAssumption DEF TypeInv, TypeOK, Versions
<1>2. ASSUME NEW k \in Slots, NEW c \in Codes, rows[1][k] # None,
             rows[1][k].kpis[c] = "none",
             rows' = [rows EXCEPT ![1][k].kpis[c] = "on"]
      PROVE  Adds(rows[1], rows'[1]) /\ \A v \in Versions : v # 1 => rows'[v] = rows[v]
  <2>1. rows'[1][k] = [rows[1][k] EXCEPT !.kpis[c] = "on"]
    BY <1>1, <1>2 DEF Layout
  <2>2. \A s \in Slots : s # k => rows'[1][s] = rows[1][s]
    BY <1>1, <1>2 DEF Layout
  <2>3. \A v \in Versions : v # 1 => rows'[v] = rows[v]
    BY <1>1, <1>2
  <2> QED BY <1>2, <2>1, <2>2, <2>3 DEF Adds
<1>3. ASSUME NEW k \in Slots, rows[1][k] = None,
             rows' = [rows EXCEPT ![1][k] = NewSection(n)]
      PROVE  Adds(rows[1], rows'[1]) /\ \A v \in Versions : v # 1 => rows'[v] = rows[v]
  <2>1. \A s \in Slots : s # k => rows'[1][s] = rows[1][s]
    BY <1>1, <1>3 DEF Layout
  <2>2. \A v \in Versions : v # 1 => rows'[v] = rows[v]
    BY <1>1, <1>3
  <2> QED BY <1>3, <2>1, <2>2 DEF Adds
<1> QED BY <1>2, <1>3 DEF Reprovision

(* What a step may do to the rows of a version that has evaluations.           *)
LEMMA RowsWritten ==
  ASSUME CopyInv, [Next]_vars, NEW v \in used
  PROVE  \/ rows'[v] = rows[v]
         \/ \E r \in overtaken[v] : req[r].pc = "apply" /\ req[r].version = v /\ IsIdle(r)'
         \/ v = 1 /\ UNCHANGED req /\ Adds(rows[1], rows'[1])
<1>1. v \in Versions /\ Exists(v)
  BY DEF CopyInv, TypeInv, TypeOK
<1>2. ASSUME NEW r \in Requests, CloneCreate(r) PROVE rows'[v] = rows[v]
  BY <1>1, <1>2, CloneTyped DEF CopyInv
<1>3. ASSUME NEW r \in Requests, Apply(r)
      PROVE  \/ rows'[v] = rows[v]
             \/ \E q \in overtaken[v] : req[q].pc = "apply" /\ req[q].version = v /\ IsIdle(q)'
  <2>1. req[r].pc = "apply" /\ Goto(r, Idle)
    BY <1>3 DEF Apply, SectionCreate, SectionConflict, SectionUpdate, SectionDelete,
           KpiCreate, KpiSet, Write
  <2>2. CASE req[r].version = v
    <3>1. r \in overtaken[v]
      BY <1>1, <2>1, <2>2 DEF CopyInv, CarriedHolds, Fits
    <3>2. IsIdle(r)'
      BY <2>1 DEF Goto, IsIdle, Idle, CopyInv, TypeInv, TypeOK
    <3> QED BY <2>1, <2>2, <3>1, <3>2
  <2>3. CASE req[r].version # v
    <3>1. ASSUME NEW k, NEW section, Write(r, k, section)
          PROVE  rows'[v] = rows[v]
      BY <2>3, <3>1 DEF Write, CopyInv, TypeInv, TypeOK
    <3> QED
      BY <1>3, <3>1 DEF Apply, SectionCreate, SectionConflict, SectionUpdate,
           SectionDelete, KpiCreate, KpiSet
  <2> QED BY <2>2, <2>3
<1>4. ASSUME NEW n \in Seed, Reprovision(n)
      PROVE  \/ rows'[v] = rows[v]
             \/ v = 1 /\ UNCHANGED req /\ Adds(rows[1], rows'[1])
  BY <1>1, <1>4, ReprovisionAdds DEF CopyInv
<1>5. CASE UNCHANGED rows
  BY <1>5
<1> QED
  BY <1>2, <1>3, <1>4, <1>5
     DEF Next, vars, Advance, StartRead, StartInsert, Begin, ReadTemplate,
         CountEvaluations, CloneRefused, Retire, Fail

(* "una edicion nunca cambia lo que ve una evaluacion ya iniciada": with any   *)
(* requests, seed and failures, the rows of a version that has evaluations    *)
(* change only by the edit of a request that was overtaken by the first of     *)
(* them, or by rows that reprovisioning adds to version 1.                    *)
THEOREM StartedKeepTemplate == HistorySpec => StartedEvaluationsKeepTemplate
<1>1. CopyInv /\ [Next /\ Watch]_historyVars =>
        [\A v \in used :
           \/ rows'[v] = rows[v]
           \/ \E r \in overtaken[v] : req[r].pc = "apply" /\ req[r].version = v /\ IsIdle(r)'
           \/ v = 1 /\ UNCHANGED req /\ Adds(rows[1], rows'[1])]_historyVars
  BY RowsWritten
<1> QED
  BY <1>1, CopyInit, CopyStep, PTL DEF HistorySpec, StartedEvaluationsKeepTemplate

(* Only a clone brings a version into being.                                   *)
LEMMA NewVersionsAreClones ==
  ASSUME TypeInv, [Next]_vars, NEW v \in Versions, v + 1 \in Versions,
         ~Exists(v + 1), Exists(v + 1)'
  PROVE  \E r \in Requests : CloneCreate(r) /\ req[r].version = v
<1>1. tpl'[v + 1] # tpl[v + 1]
  BY DEF Exists
<1>2. ASSUME NEW r \in Requests, Retire(r) PROVE FALSE
  <2>1. /\ tpl' = [tpl EXCEPT ![req[r].version] = "inactive"]
        /\ Exists(req[r].version)
    BY <1>2 DEF Retire, TypeInv, VersionInv, EditorsBelowHighest
  <2>2. v + 1 # req[r].version
    BY <2>1
  <2> QED BY <1>1, <2>1, <2>2 DEF TypeInv, TypeOK
<1>3. PICK r \in Requests : CloneCreate(r)
  BY <1>1, <1>2
     DEF Next, vars, Advance, Apply, StartRead, StartInsert, Begin, ReadTemplate,
     CountEvaluations, CloneRefused, SectionCreate, SectionConflict,
     SectionUpdate, SectionDelete, KpiCreate, KpiSet, Write, Reprovision, Fail
<1>4. tpl' = [tpl EXCEPT ![req[r].version + 1] = "active"]
  BY <1>3, CloneTyped
<1>5. v + 1 = req[r].version + 1
  BY <1>1, <1>4 DEF TypeInv, TypeOK
<1>6. req[r].version \in Versions
  BY <1>3 DEF CloneCreate, TypeInv, VersionInv, EditorsBelowHighest
<1>7. req[r].version = v
  BY <1>5, <1>6 DEF Versions
<1> QED BY <1>3, <1>7

(* With any requests, seed and failures, a new version starts with the live    *)
(* rows the version below it has at that moment, unless the request that       *)
(* clones was overtaken.                                                     *)
THEOREM ClonesKeepEdits == HistorySpec => CloneKeepsEdits
<1>1. ASSUME CopyInv, [Next]_vars, NEW v \in Versions, v + 1 \in Versions,
             ~Exists(v + 1), Exists(v + 1)'
      PROVE  \/ rows'[v + 1] = LiveRows(rows[v])
             \/ \E r \in overtaken[v] : /\ req[r].pc = "clone" /\ req[r].version = v
                                        /\ req[r] # req'[r]
  <2>1. PICK r \in Requests : CloneCreate(r) /\ req[r].version = v
    BY <1>1, NewVersionsAreClones DEF CopyInv
  <2>2. rows'[v + 1] = req[r].copy
    BY <1>1, <2>1, CloneTyped DEF CopyInv
  <2>3. req[r].pc = "clone" /\ req'[r].pc = "retire"
    BY <1>1, <2>1 DEF CloneCreate, Goto, CopyInv, TypeInv, TypeOK
  <2>4. r \in overtaken[v] \/ req[r].copy = LiveRows(rows[v])
    BY <1>1, <2>1, <2>3 DEF CopyInv, CarriedHolds, Fits
  <2> QED BY <2>1, <2>2, <2>3, <2>4
<1>2. CopyInv /\ [Next /\ Watch]_historyVars =>
        [\A v \in Versions : v + 1 \in Versions /\ ~Exists(v + 1) /\ Exists(v + 1)' =>
           \/ rows'[v + 1] = LiveRows(rows[v])
           \/ \E r \in overtaken[v] : req[r].pc = "clone" /\ req[r].version = v
                                      /\ req[r] # req'[r]]_historyVars
  <2>1. [Next /\ Watch]_historyVars => [Next]_vars
    BY DEF historyVars, vars
  <2> QED BY <1>1, <2>1
<1> QED BY <1>2, CopyInit, CopyStep, PTL DEF HistorySpec, CloneKeepsEdits

-----------------------------------------------------------------------------
(* Deactivation.  A version is deactivated by the only request that cloned it; *)
(* it stays active as long as that request has not done so, and for good if    *)
(* the request failed.                                                       *)
Retires(r, v) == req[r].pc = "retire" /\ req[r].version = v

RetireInv ==
  /\ TypeInv
  /\ halted \subseteq Versions
  /\ \A r \in Requests : req[r].pc = "retire" =>
       tpl[req[r].version] = "active" /\ req[r].version \notin halted
  /\ \A q, r \in Requests :
       req[q].pc = "retire" /\ req[r].pc = "retire" /\ req[q].version = req[r].version => q = r
  /\ \A v \in halted : Cloned(v) /\ tpl[v] = "active"
  /\ \A v \in Versions : Cloned(v) /\ tpl[v] = "active" =>
       v \in halted \/ \E r \in Requests : Retires(r, v)

(* Only the request that moves can fail in a step.                             *)
LEMMA HaltingMoves ==
  ASSUME TypeInv, NEW r \in Requests, NEW k, Goto(r, k), NEW v, Halting(v)
  PROVE  Retires(r, v) /\ Fail(r) /\ ~Retire(r)
<1>1. PICK q \in Requests :
        req[q].pc = "retire" /\ req[q].version = v /\ Fail(q) /\ ~Retire(q)
  BY DEF Halting
<1>2. req'[q].pc = "idle"
  BY <1>1 DEF Fail, Goto, Idle, TypeInv, TypeOK
<1>3. q = r
  <2>1. q # r => req'[q] = req[q]
    BY DEF Goto, TypeInv, TypeOK
  <2> QED BY <1>1, <1>2, <2>1
<1> QED BY <1>1, <1>3 DEF Retires

(* A step that leaves the flags and whoever deactivates alone.                *)
LEMMA RetirersKeep ==
  ASSUME RetireInv, TypeInv', UNCHANGED tpl, halted' = halted,
         \A q \in Requests : req[q].pc = "retire" \/ req'[q].pc = "retire" => req'[q] = req[q]
  PROVE  RetireInv'
<1>1. \A v \in Versions : Cloned(v)' <=> Cloned(v)
  BY DEF Cloned, Exists
<1>2. \A q \in Requests, v \in Versions : Retires(q, v)' <=> Retires(q, v)
  BY DEF Retires
<1> QED BY <1>1, <1>2 DEF RetireInv

LEMMA RetireStep == RetireInv /\ [Next /\ Watch]_historyVars => RetireInv'
<1> SUFFICES ASSUME RetireInv, [Next /\ Watch]_historyVars PROVE RetireInv'
  OBVIOUS
<1>0. [Next]_vars /\ TypeInv
  BY DEF historyVars, vars, RetireInv
<1>1. TypeInv'
  BY <1>0, TypeStep
<1>2. CASE UNCHANGED historyVars
  BY <1>1, <1>2, RetirersKeep DEF historyVars
<1>3. ASSUME Watch, NEW r \in Requests, NEW k, Goto(r, k), UNCHANGED tpl,
             req[r].pc # "retire", k.pc # "retire"
      PROVE  RetireInv'
  <2>1. \A v \in Versions : ~Halting(v)
    BY <1>0, <1>3, HaltingMoves DEF Retires
  <2>2. halted' = halted
    BY <1>3, <2>1 DEF Watch
  <2>3. \A q \in Requests : req[q].pc = "retire" \/ req'[q].pc = "retire" => req'[q] = req[q]
    BY <1>0, <1>3 DEF Goto, TypeInv, TypeOK
  <2> QED BY <1>1, <1>3, <2>2, <2>3, RetirersKeep
<1>4. ASSUME Watch, NEW r \in Requests, CloneCreate(r) PROVE RetireInv'
  <2> DEFINE v == req[r].version
             w == v + 1
             k == [pc |-> "retire", version |-> req[r].version, edit |-> req[r].edit,
                   copy |-> req[r].copy]
  <2>1. /\ w \in Versions /\ ~Exists(w) /\ tpl' = [tpl EXCEPT ![w] = "active"]
        /\ req[r].pc = "clone" /\ Goto(r, k)
    BY <1>0, <1>4, CloneTyped DEF CloneCreate
  <2>2. v \in Versions /\ Exists(v) /\ tpl[v] = "active" /\ w # v
    BY <1>0, <2>1 DEF TypeInv, VersionInv, EditorsBelowHighest, HighestIsActive, Versions
  <2>3. req' = [req EXCEPT ![r] = k] /\ k.pc = "retire" /\ k.version = v
    BY <2>1 DEF Goto
  <2> HIDE DEF k
  <2>4. \A u \in Versions : ~Halting(u)
    BY <1>0, <2>1, HaltingMoves DEF Retires
  <2>5. halted' = halted
    BY <1>4, <2>4 DEF Watch
  <2>6. /\ \A u \in Versions : u # w => tpl'[u] = tpl[u]
        /\ tpl'[w] = "active"
    BY <1>0, <2>1 DEF TypeInv, TypeOK
  <2>7. /\ \A q \in Requests : q # r => req'[q] = req[q]
        /\ req'[r].pc = "retire" /\ req'[r].version = v
    BY <1>0, <2>3 DEF TypeInv, TypeOK
  <2>8. \A u \in Versions : Cloned(u)' <=> u = v \/ Cloned(u)
    <3>1. ASSUME NEW u \in Versions PROVE Cloned(u)' <=> u = v \/ Cloned(u)
      <4>1. u + 1 = w <=> u = v
        BY <2>2 DEF Versions
      <4> QED BY <2>1, <2>6, <4>1 DEF Cloned, Exists
    <3> QED BY <3>1
  <2>9. \A u \in Versions : u = w => ~Cloned(u)'
    <3>1. w + 1 \in Versions => ~Exists(w + 1) /\ w + 1 # w
      BY <1>0, <2>1 DEF TypeInv, VersionInv, HighestIsActive, Versions
    <3> QED BY <2>6, <3>1 DEF Cloned, Exists
  <2>10. v \notin halted /\ \A q \in Requests : ~Retires(q, v)
    BY <1>0, <2>1 DEF RetireInv, Cloned, Retires, TypeInv, VersionInv, EditorsBelowHighest
  <2>11. \A q \in Requests : q # r /\ req[q].pc = "retire" =>
           req[q].version \in Versions /\ req[q].version # w
    BY <1>0, <2>1 DEF TypeInv, VersionInv, EditorsBelowHighest
  <2>12. w \notin halted
    BY <2>1 DEF RetireInv, Exists
  <2>13. \A q \in Requests : req'[q].pc = "retire" =>
           tpl'[req'[q].version] = "active" /\ req'[q].version \notin halted'
    BY <2>2, <2>5, <2>6, <2>7, <2>10, <2>11 DEF RetireInv
  <2>14. \A p, q \in Requests :
           req'[p].pc = "retire" /\ req'[q].pc = "retire" /\ req'[p].version = req'[q].version
             => p = q
    BY <2>7, <2>10 DEF RetireInv, Retires
  <2>15. \A u \in halted' : Cloned(u)' /\ tpl'[u] = "active"
    BY <2>5, <2>6, <2>8, <2>12 DEF RetireInv
  <2>16. ASSUME NEW u \in Versions, Cloned(u)', tpl'[u] = "active"
         PROVE  u \in halted' \/ \E q \in Requests : Retires(q, u)'
    <3>1. CASE u = v
      BY <2>7, <3>1 DEF Retires
    <3>2. CASE u # v
      <4>1. Cloned(u) /\ tpl[u] = "active"
        BY <2>6, <2>8, <2>9, <2>16, <3>2
      <4>2. CASE u \in halted
        BY <2>5, <4>2
      <4>3. CASE u \notin halted
        <5>1. PICK q \in Requests : Retires(q, u)
          BY <4>1, <4>3 DEF RetireInv
        <5>2. q # r
          BY <2>1, <5>1 DEF Retires
        <5> QED BY <2>7, <5>1, <5>2 DEF Retires
      <4> QED BY <4>2, <4>3
    <3> QED BY <3>1, <3>2
  <2>17. halted' \subseteq Versions
    BY <2>5 DEF RetireInv
  <2> QED BY <1>1, <2>13, <2>14, <2>15, <2>16, <2>17 DEF RetireInv
<1>5. ASSUME Watch, NEW r \in Requests, req[r].pc = "retire",
             Retire(r) \/ (Fail(r) /\ ~Retire(r))
      PROVE  RetireInv'
  <2> DEFINE v == req[r].version
  <2>1. /\ v \in Versions /\ Exists(v) /\ Cloned(v) /\ tpl[v] = "active" /\ v \notin halted
    BY <1>0, <1>5, VersionAssumption
       DEF RetireInv, TypeInv, VersionInv, EditorsBelowHighest, Cloned, Versions
  <2>2. PICK k : Goto(r, k) /\ k.pc \in {"idle", "apply"}
    <3>1. Idle.pc = "idle"
      BY DEF Idle
    <3>2. AfterRetire(r).pc \in {"idle", "apply"}
      BY <1>0, <1>5, Target
    <3> QED BY <1>5, <3>1, <3>2 DEF Retire, Fail
  <2>3. /\ \A q \in Requests : q # r => req'[q] = req[q]
        /\ req'[r].pc # "retire"
    BY <1>0, <2>2 DEF Goto, TypeInv, TypeOK
  <2>4. \A u : \A q \in Requests : Retires(q, u)' <=> q # r /\ Retires(q, u)
    BY <2>3 DEF Retires
  <2>5. \A q \in Requests : q # r => ~Retires(q, v)
    BY <1>5 DEF RetireInv, Retires
  <2>6. CASE Retire(r)
    <3>1. tpl' = [tpl EXCEPT ![v] = "inactive"]
      BY <2>6 DEF Retire
    <3>2. /\ \A u \in Versions : u # v => tpl'[u] = tpl[u]
          /\ tpl'[v] = "inactive"
      BY <1>0, <2>1, <3>1 DEF TypeInv, TypeOK
    <3>3. \A u \in Versions : ~Halting(u)
      BY <1>0, <2>2, <2>6, HaltingMoves
    <3>4. halted' = halted
      BY <1>5, <3>3 DEF Watch
    <3>5. \A u \in Versions : Cloned(u)' <=> Cloned(u)
      BY <2>1, <3>2 DEF Cloned, Exists
    <3>6. \A q \in Requests : req'[q].pc = "retire" =>
            tpl'[req'[q].version] = "active" /\ req'[q].version \notin halted'
      <4>1. ASSUME NEW q \in Requests, req'[q].pc = "retire"
            PROVE  tpl'[req'[q].version] = "active" /\ req'[q].version \notin halted'
        <5>1. q # r /\ req'[q] = req[q] /\ req[q].version # v
          BY <2>3, <2>5, <4>1 DEF Retires
        <5>2. req[q].version \in Versions
          BY <1>0, <4>1, <5>1 DEF TypeInv, VersionInv, EditorsBelowHighest
        <5> QED BY <3>2, <3>4, <4>1, <5>1, <5>2 DEF RetireInv
      <4> QED BY <4>1
    <3>7. \A p, q \in Requests :
            req'[p].pc = "retire" /\ req'[q].pc = "retire" /\ req'[p].version = req'[q].version
              => p = q
      BY <2>3 DEF RetireInv
    <3>8. \A u \in halted' : Cloned(u)' /\ tpl'[u] = "active"
      BY <2>1, <3>2, <3>4, <3>5 DEF RetireInv
    <3>9. ASSUME NEW u \in Versions, Cloned(u)', tpl'[u] = "active"
          PROVE  u \in halted' \/ \E q \in Requests : Retires(q, u)'
      <4>1. u # v /\ Cloned(u) /\ tpl[u] = "active"
        BY <3>2, <3>5, <3>9
      <4>2. u \in halted \/ \E q \in Requests : Retires(q, u)
        BY <4>1 DEF RetireInv
      <4>3. ~Retires(r, u)
        BY <4>1 DEF Retires
      <4> QED BY <2>4, <3>4, <4>2, <4>3
    <3> QED BY <1>1, <3>4, <3>6, <3>7, <3>8, <3>9 DEF RetireInv
  <2>7. CASE Fail(r) /\ ~Retire(r)
    <3>1. tpl' = tpl
      BY <2>7 DEF Fail
    <3>2. \A u \in Versions : Halting(u) <=> u = v
      BY <1>0, <1>5, <2>2, <2>7, HaltingMoves DEF Halting, Retires
    <3>3. halted' = halted \union {v}
      BY <1>5, <2>1, <3>2 DEF Watch
    <3>4. \A u \in Versions : Cloned(u)' <=> Cloned(u)
      BY <3>1 DEF Cloned, Exists
    <3>5. \A q \in Requests : req'[q].pc = "retire" =>
            tpl'[req'[q].version] = "active" /\ req'[q].version \notin halted'
      BY <2>3, <2>5, <3>1, <3>3 DEF RetireInv, Retires
    <3>6. \A p, q \in Requests :
            req'[p].pc = "retire" /\ req'[q].pc = "retire" /\ req'[p].version = req'[q].version
              => p = q
      BY <2>3 DEF RetireInv
    <3>7. \A u \in halted' : Cloned(u)' /\ tpl'[u] = "active"
      BY <2>1, <3>1, <3>3, <3>4 DEF RetireInv
    <3>8. ASSUME NEW u \in Versions, Cloned(u)', tpl'[u] = "active"
          PROVE  u \in halted' \/ \E q \in Requests : Retires(q, u)'
      <4>1. u \in halted \/ \E q \in Requests : Retires(q, u)
        BY <3>1, <3>4, <3>8 DEF RetireInv
      <4>2. Retires(r, u) => u = v
        BY DEF Retires
      <4> QED BY <2>4, <3>3, <4>1, <4>2
    <3> QED BY <1>1, <2>1, <3>3, <3>5, <3>6, <3>7, <3>8 DEF RetireInv
  <2> QED BY <1>5, <2>6, <2>7
<1>6. ASSUME Watch, NEW n \in Seed, Reprovision(n) PROVE RetireInv'
  <2>1. req' = req /\ tpl' = tpl
    BY <1>6 DEF Reprovision
  <2>2. \A v \in Versions : ~Halting(v)
    <3>1. ASSUME NEW q \in Requests, req[q].pc = "retire", Fail(q) PROVE FALSE
      <4>1. req'[q].pc = "idle"
        BY <1>0, <3>1 DEF Fail, Goto, Idle, TypeInv, TypeOK
      <4> QED BY <2>1, <3>1, <4>1
    <3> QED BY <3>1 DEF Halting
  <2>3. halted' = halted
    BY <1>6, <2>2 DEF Watch
  <2> QED BY <1>1, <2>1, <2>3, RetirersKeep
<1>7. ASSUME Watch, NEW r \in Requests,
             \/ \E v \in Versions : StartRead(r, v)
             \/ \E v \in Versions, edit \in Edits : Begin(r, v, edit)
             \/ StartInsert(r) \/ CloneRefused(r) \/ Apply(r)
             \/ ReadTemplate(r) \/ CountEvaluations(r)
             \/ (Fail(r) /\ req[r].pc # "retire")
      PROVE  RetireInv'
  <2>1. UNCHANGED tpl /\ req[r].pc # "retire"
    BY <1>7 DEF StartRead, Begin, StartInsert, CloneRefused, Apply, SectionCreate,
         SectionConflict, SectionUpdate, SectionDelete, KpiCreate, KpiSet, Write, Fail,
         ReadTemplate, CountEvaluations, IsIdle
  <2>2. \E k : Goto(r, k) /\ k.pc # "retire"
    <3>1. Idle.pc = "idle"
      BY DEF Idle
    <3>2. ASSUME NEW v \in Versions, StartRead(r, v) PROVE \E k : Goto(r, k) /\ k.pc # "retire"
      <4>1. Goto(r, [pc |-> "start", version |-> v])
        BY <3>2 DEF StartRead
      <4> QED BY <4>1
    <3>3. ASSUME NEW v \in Versions, NEW edit \in Edits, Begin(r, v, edit)
          PROVE  \E k : Goto(r, k) /\ k.pc # "retire"
      <4>1. Goto(r, [pc |-> "read", version |-> v, edit |-> edit])
        BY <3>3 DEF Begin
      <4> QED BY <4>1
    <3>4. CASE ReadTemplate(r)
      <4>1. Goto(r, [pc |-> "count", version |-> req[r].version, edit |-> req[r].edit,
                     copy |-> LiveRows(rows[req[r].version])])
        BY <3>4 DEF ReadTemplate
      <4> QED BY <4>1
    <3>5. CASE CountEvaluations(r)
      <4>1. \/ Goto(r, [pc |-> "apply", version |-> req[r].version, edit |-> req[r].edit])
            \/ Goto(r, [pc |-> "clone", version |-> req[r].version, edit |-> req[r].edit,
                        copy |-> req[r].copy])
        BY <3>5 DEF CountEvaluations
      <4> QED BY <4>1
    <3>6. CASE StartInsert(r) \/ CloneRefused(r) \/ Apply(r) \/ Fail(r)
      <4>1. Goto(r, Idle)
        BY <3>6 DEF StartInsert, CloneRefused, Apply, SectionCreate,
             SectionConflict, SectionUpdate, SectionDelete, KpiCreate, KpiSet, Write, Fail
      <4> QED BY <3>1, <4>1
    <3> QED BY <1>7, <3>2, <3>3, <3>4, <3>5, <3>6
  <2> QED BY <1>3, <1>7, <2>1, <2>2
<1>8. ASSUME NEW r \in Requests, Retire(r) PROVE req[r].pc = "retire"
  BY <1>8 DEF Retire
<1>9. ASSUME NEW r \in Requests, Fail(r)
      PROVE  \/ Fail(r) /\ req[r].pc # "retire"
             \/ req[r].pc = "retire" /\ Retire(r)
             \/ req[r].pc = "retire" /\ Fail(r) /\ ~Retire(r)
  BY <1>9
<1> QED BY <1>2, <1>4, <1>5, <1>6, <1>7, <1>8, <1>9 DEF Next, Advance

(* However edits, clones, failures, evaluations and reprovisioning interleave, *)
(* the newest version is in force, and an older one is active exactly while    *)
(* the request that cloned it has not deactivated it, for good if it failed.   *)
THEOREM VersionsStayInForce == HistorySpec => []VersionsInForce
<1>1. HistoryInit => RetireInv
  <2> SUFFICES ASSUME HistoryInit PROVE RetireInv
    OBVIOUS
  <2>1. \A r \in Requests : req[r].pc = "idle"
    BY DEF HistoryInit, Init, Idle
  <2>2. \A v \in Versions : ~Cloned(v)
    BY DEF HistoryInit, Init, Cloned, Exists, Versions
  <2>3. halted = {}
    BY DEF HistoryInit
  <2> QED BY <2>1, <2>2, <2>3, TypeInit DEF RetireInv, HistoryInit
<1>2. RetireInv => VersionsInForce
  BY DEF RetireInv, VersionsInForce, TypeInv, VersionInv, Retires
<1> QED BY <1>1, <1>2, RetireStep, PTL DEF HistorySpec

=============================================================================
