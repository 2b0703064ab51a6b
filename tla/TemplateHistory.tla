---------------------------- MODULE TemplateHistory ----------------------------
(***************************************************************************)
(* TemplateVersions with history variables, which tell what overlaps and   *)
(* failures may do to the rule that a version with evaluations never       *)
(* changes:                                                                *)
(*                                                                         *)
(*   - overtaken: for each version, the requests at work on it since       *)
(*     before its first evaluation was inserted, or since before its rows  *)
(*     were last changed while it had evaluations;                         *)
(*   - halted: the versions that were cloned by a request which failed     *)
(*     before it deactivated them.                                         *)
(***************************************************************************)
EXTENDS TemplateVersions

VARIABLES overtaken, halted

historyVars == <<tpl, rows, used, req, overtaken, halted>>

(* A request has read version v, or has just created it, and is not done.     *)
AtWork(r, v) ==
  \/ req[r].pc \in {"count", "clone", "apply"} /\ req[r].version = v
  \/ req[r].pc = "retire" /\ req[r].version + 1 = v

(* Version v gets its first evaluation in this step, or its rows change        *)
(* although it has evaluations.                                              *)
Overtaking(v) == v \in used' /\ (v \in used => rows'[v] # rows[v])

(* The call that deactivates version v is rejected in this step. *)
Halting(v) ==
  \E r \in Requests :
    req[r].pc = "retire" /\ req[r].version = v /\ Fail(r) /\ ~Retire(r)

Watch ==
  /\ overtaken' = [v \in Versions |->
       {r \in Requests : AtWork(r, v)' /\ (Overtaking(v) \/ r \in overtaken[v])}]
  /\ halted' = halted \union {v \in Versions : Halting(v)}

HistoryInit == Init /\ overtaken = [v \in Versions |-> {}] /\ halted = {}
HistorySpec == HistoryInit /\ [][Next /\ Watch]_historyVars
FairHistorySpec == HistorySpec /\ \A r \in Requests : WF_vars(Advance(r))

-----------------------------------------------------------------------------
(* Cloned(v): there is a next version. *)
Cloned(v) == v + 1 \in Versions /\ Exists(v + 1)

(* "(la anterior se desactiva)": whoever edits at once and wherever a clone    *)
(* stops, the newest version is in force, and an older one is active only     *)
(* while the request that cloned it is about to deactivate it, or because     *)
(* that request failed before it did: then it is for good.                    *)
VersionsInForce ==
  /\ HighestIsActive
  /\ \A v \in Versions : Cloned(v) =>
       (tpl[v] = "active" <=>
          v \in halted \/ \E r \in Requests : req[r].pc = "retire" /\ req[r].version = v)

(* A cloned version is deactivated in the end, unless the call was rejected. *)
CloneFinishes ==
  \A v \in Versions : Cloned(v) ~> tpl[v] = "inactive" \/ v \in halted

(* Rows are only added, and KPI to the rows there are. *)
Adds(old, new) ==
  \A s \in Slots : old[s] # None =>
    \/ new[s] = old[s]
    \/ \E c \in Codes : /\ old[s].kpis[c] = "none"
                        /\ new[s] = [old[s] EXCEPT !.kpis[c] = "on"]

(* "una edicion nunca cambia lo que ve una evaluacion ya iniciada (regla de    *)
(* inmutabilidad)": once a version has an evaluation, its rows change only by *)
(* the edit of a request that had counted before there was one, which ends    *)
(* with it, or, in version 1, by reprovisioning, which only adds rows.        *)
StartedEvaluationsKeepTemplate ==
  [][\A v \in used :
       \/ rows'[v] = rows[v]
       \/ \E r \in overtaken[v] : req[r].pc = "apply" /\ req[r].version = v /\ IsIdle(r)'
       \/ v = 1 /\ UNCHANGED req /\ Adds(rows[1], rows'[1])]_historyVars

(* "una nueva version clonada": a new version starts with the live rows the   *)
(* old one has at that moment, so that no edit acknowledged before is lost,   *)
(* unless its request had read the old one before its first evaluation, or    *)
(* before one of those late changes.                                          *)
CloneKeepsEdits ==
  [][\A v \in Versions : v + 1 \in Versions /\ ~Exists(v + 1) /\ Exists(v + 1)' =>
       \/ rows'[v + 1] = LiveRows(rows[v])
       \/ \E r \in overtaken[v] : req[r].pc = "clone" /\ req[r].version = v /\ req[r] # req'[r]
     ]_historyVars

=============================================================================
