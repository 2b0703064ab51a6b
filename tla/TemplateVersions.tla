--------------------------- MODULE TemplateVersions ---------------------------
(***************************************************************************)
(* The template of one tool in one organisation: its versions, the section *)
(* and indicator (KPI) rows of each, the administrator's edits of them and *)
(* the evaluations that start on them.                                     *)
(*                                                                         *)
(* An edit goes through ensureWritableTemplate: a version that no          *)
(* evaluation references is edited in place; otherwise it is cloned as the *)
(* next version, the old one is deactivated by a second call, and the edit *)
(* goes to the clone.  As in EvaluationLifecycle, every database call is   *)
(* one step and a request carries what it read before.                     *)
(*                                                                         *)
(* A row is a slot of its version; the clone of a row keeps the slot.      *)
(* Names, weights and texts are left out, and so is the confirmation asked *)
(* for when a response exists: both only decide whether a request goes on. *)
(***************************************************************************)
EXTENDS Naturals, FiniteSets

CONSTANTS
  Requests,     \* requests the server may have in flight at once
  MaxVersion,   \* bound on the versions of the template: the last is not edited
  Slots,        \* bound on the section rows of a version, live or deleted
  Numbers,      \* section numbers
  Codes,        \* indicator codes within a section
  Kinds,        \* the edits offered to the administrator
  Seed,         \* section numbers of the tool's seed that reprovisioning writes
  Failures,     \* whether a database call may be rejected
  None          \* "no row"

AllKinds == {"section.create", "section.update", "section.delete",
             "kpi.create", "kpi.set"}

ASSUME VersionAssumption == MaxVersion \in Nat \ {0}
ASSUME KindAssumption == Kinds \subseteq AllKinds
ASSUME SeedAssumption == Seed \subseteq Numbers
ASSUME FailureAssumption == Failures \in BOOLEAN
ASSUME NoneAssumption ==
  None \notin [number : Numbers, live : BOOLEAN, kpis : [Codes -> {"none", "on", "off"}]]

VARIABLES
  tpl,      \* whether each version exists, and its active flag
  rows,     \* the section row in each slot of each version
  used,     \* the versions that some evaluation references
  req       \* continuation of each request

vars == <<tpl, rows, used, req>>

-----------------------------------------------------------------------------
Versions == 1 .. MaxVersion
Section == [number : Numbers, live : BOOLEAN, kpis : [Codes -> {"none", "on", "off"}]]
Layout == [Slots -> Section \union {None}]

NewSection(n) == [number |-> n, live |-> TRUE, kpis |-> [c \in Codes |-> "none"]]

Exists(v) == tpl[v] # "absent"
LiveIn(layout, k) == layout[k] # None /\ layout[k].live
(* @@unique([templateId, number]) counts deleted rows too. *)
Taken(layout, n) == \E k \in Slots : layout[k] # None /\ layout[k].number = n

(* findActive: the active version with the highest number. *)
Current(v) ==
  /\ tpl[v] = "active"
  /\ \A w \in Versions : tpl[w] = "active" => w <= v

(* The rows cloneAsNewVersion copies: the include leaves deleted ones out. *)
LiveRows(layout) == [k \in Slots |-> IF LiveIn(layout, k) THEN layout[k] ELSE None]

(* An edit of section row `slot`, numbered `seen` when it was read; creating  *)
(* a section needs no row.                                                  *)
Edits ==
  [kind : {"section.create"}, number : Numbers]
    \union [kind : {"section.update"}, slot : Slots, seen : Numbers, number : Numbers]
    \union [kind : {"section.delete"}, slot : Slots, seen : Numbers]
    \union [kind : {"kpi.create"}, slot : Slots, seen : Numbers, code : Codes]
    \union [kind : {"kpi.set"}, slot : Slots, seen : Numbers, code : Codes,
            to : {"on", "off"}]

Idle == [pc |-> "idle"]
Starting  == [pc : {"start"}, version : Versions]
Reading   == [pc : {"read"}, version : Versions, edit : Edits]
Counting  == [pc : {"count", "clone"}, version : Versions, edit : Edits, copy : Layout]
Retiring  == [pc : {"retire"}, version : Versions, edit : Edits, copy : Layout]
Applying  == [pc : {"apply"}, version : Versions, edit : Edits]
Continuations ==
  {Idle} \union Starting \union Reading \union Counting \union Retiring
         \union Applying

IsIdle(r) == req[r].pc = "idle"
Goto(r, k) == req' = [req EXCEPT ![r] = k]

-----------------------------------------------------------------------------
FirstSlot == CHOOSE s \in Slots : TRUE

(* The template as provisioned: version 1, active, with its seed sections.    *)
Init ==
  /\ tpl = [v \in Versions |-> IF v = 1 THEN "active" ELSE "absent"]
  /\ \E n \in (IF Seed = {} THEN Numbers ELSE Seed) :
       rows = [v \in Versions |-> [s \in Slots |->
                 IF v = 1 /\ s = FirstSlot
                 THEN [NewSection(n) EXCEPT !.kpis = [c \in Codes |-> "on"]]
                 ELSE None]]
  /\ used = {}
  /\ req = [r \in Requests |-> Idle]

(* createEvaluation: the active template is read ... *)
StartRead(r, v) ==
  /\ IsIdle(r)
  /\ Current(v)
  /\ Goto(r, [pc |-> "start", version |-> v])
  /\ UNCHANGED <<tpl, rows, used>>

(* ... and the evaluation that references it is inserted later. *)
StartInsert(r) ==
  /\ req[r].pc = "start"
  /\ used' = used \union {req[r].version}
  /\ Goto(r, Idle)
  /\ UNCHANGED <<tpl, rows>>

(* createSection names the template; the others find their row (404 without   *)
(* one), which must be live but for a KPI of a deleted section.              *)
Begin(r, v, edit) ==
  /\ IsIdle(r)
  /\ Exists(v) /\ v < MaxVersion
  /\ edit.kind \in Kinds
  /\ edit.kind # "section.create" =>
       /\ rows[v][edit.slot] # None
       /\ rows[v][edit.slot].number = edit.seen
       /\ IF edit.kind = "kpi.set"
          THEN rows[v][edit.slot].kpis[edit.code] # "none"
          ELSE rows[v][edit.slot].live
  /\ Goto(r, [pc |-> "read", version |-> v, edit |-> edit])
  /\ UNCHANGED <<tpl, rows, used>>

(* Mutant: the clone also copies the deleted rows. *)
ReadTemplateAll(r) ==
  /\ req[r].pc = "read"
  /\ Goto(r, [pc |-> "count", version |-> req[r].version, edit |-> req[r].edit,
              copy |-> rows[req[r].version]])
  /\ UNCHANGED <<tpl, rows, used>>

(* ensureWritableTemplate: findById ... *)
ReadTemplate(r) ==
  /\ req[r].pc = "read"
  /\ Goto(r, [pc |-> "count", version |-> req[r].version, edit |-> req[r].edit,
              copy |-> LiveRows(rows[req[r].version])])
  /\ UNCHANGED <<tpl, rows, used>>

(* Mutant: every version is edited in place. *)
CountNothing(r) ==
  /\ req[r].pc = "count"
  /\ Goto(r, [pc |-> "apply", version |-> req[r].version, edit |-> req[r].edit])
  /\ UNCHANGED <<tpl, rows, used>>

(* ... countEvaluations ... *)
CountEvaluations(r) ==
  /\ req[r].pc = "count"
  /\ Goto(r, IF req[r].version \notin used
             THEN [pc |-> "apply", version |-> req[r].version, edit |-> req[r].edit]
             ELSE [pc |-> "clone", version |-> req[r].version, edit |-> req[r].edit,
                   copy |-> req[r].copy])
  /\ UNCHANGED <<tpl, rows, used>>

(* The row the edit goes to in the clone: same number (and same code). *)
InClone(copy, edit, k) ==
  /\ LiveIn(copy, k)
  /\ copy[k].number = edit.seen
  /\ edit.kind = "kpi.set" => copy[k].kpis[edit.code] # "none"

(* Mutant: the clone is created inactive. *)
CloneInactive(r) ==
  /\ req[r].pc = "clone"
  /\ LET w == req[r].version + 1
     IN  /\ ~Exists(w)
         /\ tpl' = [tpl EXCEPT ![w] = "inactive"]
         /\ rows' = [rows EXCEPT ![w] = req[r].copy]
  /\ Goto(r, [req[r] EXCEPT !.pc = "retire"])
  /\ UNCHANGED used

(* ... and cloneAsNewVersion: the next version is created active, with its    *)
(* rows, from the template as it was read.                                  *)
CloneCreate(r) ==
  /\ req[r].pc = "clone"
  /\ LET w == req[r].version + 1
     IN  /\ ~Exists(w)
         /\ tpl' = [tpl EXCEPT ![w] = "active"]
         /\ rows' = [rows EXCEPT ![w] = req[r].copy]
  /\ Goto(r, [pc |-> "retire", version |-> req[r].version, edit |-> req[r].edit,
              copy |-> req[r].copy])
  /\ UNCHANGED used

(* @@unique([organisation, tool, version]): the version was already cloned.   *)
(* Nothing translates the error (500).                                      *)
CloneRefused(r) ==
  /\ req[r].pc = "clone"
  /\ Exists(req[r].version + 1)
  /\ Goto(r, Idle)
  /\ UNCHANGED <<tpl, rows, used>>

(* Where the edit goes once the old version is deactivated; no target in the  *)
(* clone ends the request (404, or nothing to delete).                      *)
AfterRetire(r) ==
  LET edit == req[r].edit
      w == req[r].version + 1
  IN  IF edit.kind = "section.create"
      THEN [pc |-> "apply", version |-> w, edit |-> edit]
      ELSE IF \E k \in Slots : InClone(req[r].copy, edit, k)
           THEN [pc |-> "apply", version |-> w,
                 edit |-> [edit EXCEPT !.slot =
                            CHOOSE k \in Slots : InClone(req[r].copy, edit, k)]]
           ELSE Idle

(* Mutant: the second call of the clone is forgotten. *)
RetireNothing(r) ==
  /\ req[r].pc = "retire"
  /\ Goto(r, AfterRetire(r))
  /\ UNCHANGED <<tpl, rows, used>>

Retire(r) ==
  /\ req[r].pc = "retire"
  /\ tpl' = [tpl EXCEPT ![req[r].version] = "inactive"]
  /\ Goto(r, AfterRetire(r))
  /\ UNCHANGED <<rows, used>>

(* The edit itself, one call on the rows of the target version. *)
At(r) == rows[req[r].version]
Write(r, k, section) ==
  /\ rows' = [rows EXCEPT ![req[r].version][k] = section]
  /\ Goto(r, Idle)
  /\ UNCHANGED <<tpl, used>>

SectionCreate(r, k) ==
  /\ req[r].pc = "apply" /\ req[r].edit.kind = "section.create"
  /\ At(r)[k] = None
  /\ ~Taken(At(r), req[r].edit.number)
  /\ Write(r, k, NewSection(req[r].edit.number))

(* DuplicateStructureError: 409 "number n already exists in this template". *)
SectionConflict(r) ==
  /\ req[r].pc = "apply" /\ req[r].edit.kind = "section.create"
  /\ Taken(At(r), req[r].edit.number)
  /\ Goto(r, Idle)
  /\ UNCHANGED <<tpl, rows, used>>

(* The number may be kept; one that another row has is refused (500). *)
SectionUpdate(r) ==
  /\ req[r].pc = "apply" /\ req[r].edit.kind = "section.update"
  /\ LET k == req[r].edit.slot
         n == req[r].edit.number
     IN  IF n # At(r)[k].number /\ Taken(At(r), n)
         THEN Goto(r, Idle) /\ UNCHANGED <<tpl, rows, used>>
         ELSE Write(r, k, [At(r)[k] EXCEPT !.number = n])

SectionDelete(r) ==
  /\ req[r].pc = "apply" /\ req[r].edit.kind = "section.delete"
  /\ LET k == req[r].edit.slot
     IN  Write(r, k, [At(r)[k] EXCEPT !.live = FALSE])

(* A new KPI is active; a code already used in the section is refused (409). *)
KpiCreate(r) ==
  /\ req[r].pc = "apply" /\ req[r].edit.kind = "kpi.create"
  /\ LET k == req[r].edit.slot
         c == req[r].edit.code
     IN  IF At(r)[k].kpis[c] # "none"
         THEN Goto(r, Idle) /\ UNCHANGED <<tpl, rows, used>>
         ELSE Write(r, k, [At(r)[k] EXCEPT !.kpis[c] = "on"])

(* updateIndicator with active, and deactivateIndicator (active = false). *)
KpiSet(r) ==
  /\ req[r].pc = "apply" /\ req[r].edit.kind = "kpi.set"
  /\ LET k == req[r].edit.slot
     IN  Write(r, k, [At(r)[k] EXCEPT !.kpis[req[r].edit.code] = req[r].edit.to])

(* OrganisationProvisioningService.provisionTemplate on an existing           *)
(* organisation: the seed's sections and KPI are upserted into version 1,     *)
(* one row at a time; a row that exists keeps its flags.                     *)
Reprovision(n) ==
  /\ n \in Seed
  /\ IF Taken(rows[1], n)
     THEN \E k \in Slots, c \in Codes :
            /\ rows[1][k] # None /\ rows[1][k].number = n
            /\ rows[1][k].kpis[c] = "none"
            /\ rows' = [rows EXCEPT ![1][k].kpis[c] = "on"]
     ELSE \E k \in Slots :
            /\ rows[1][k] = None
            /\ rows' = [rows EXCEPT ![1][k] = NewSection(n)]
  /\ UNCHANGED <<tpl, used, req>>

(* A call is rejected, or the process stops: what was written stays. *)
Fail(r) ==
  /\ Failures
  /\ ~IsIdle(r)
  /\ Goto(r, Idle)
  /\ UNCHANGED <<tpl, rows, used>>

Apply(r) ==
  \/ \E k \in Slots : SectionCreate(r, k)
  \/ SectionConflict(r)
  \/ SectionUpdate(r)
  \/ SectionDelete(r)
  \/ KpiCreate(r)
  \/ KpiSet(r)

(* The steps of a request already under way. *)
Advance(r) ==
  \/ StartInsert(r)
  \/ ReadTemplate(r)
  \/ CountEvaluations(r)
  \/ CloneCreate(r)
  \/ CloneRefused(r)
  \/ Retire(r)
  \/ Apply(r)

Next ==
  \/ \E r \in Requests :
       \/ \E v \in Versions : StartRead(r, v)
       \/ \E v \in Versions, edit \in Edits : Begin(r, v, edit)
       \/ Advance(r)
       \/ Fail(r)
  \/ \E n \in Seed : Reprovision(n)

Spec == Init /\ [][Next]_vars

(* Node runs the continuation of every call that settles. *)
FairSpec == Spec /\ \A r \in Requests : WF_vars(Advance(r))

-----------------------------------------------------------------------------
(* Properties.                                                              *)

(* Every row, flag and continuation holds a value of its type. *)
TypeOK ==
  /\ tpl \in [Versions -> {"absent", "active", "inactive"}]
  /\ rows \in [Versions -> Layout]
  /\ used \subseteq {v \in Versions : Exists(v)}
  /\ req \in [Requests -> Continuations]

(* The versions are 1..n without a gap and the highest is active, so          *)
(* getActiveTemplate always finds one and it is the newest: neither two       *)
(* editors at once nor a clone that stops halfway leaves the tool without a   *)
(* template or with an old one in force.                                     *)
HighestIsActive ==
  /\ Exists(1)
  /\ \A v \in Versions : v + 1 \in Versions /\ Exists(v + 1) => Exists(v)
  /\ \A v \in Versions : Exists(v) /\ (v + 1 \in Versions => ~Exists(v + 1))
       => tpl[v] = "active"

=============================================================================
