----------------------------- MODULE AccessRoutes -----------------------------
(***************************************************************************)
(* The HTTP routes as their decorators declare them: what each route asks  *)
(* of its caller, and what its handler works on.  A route is               *)
(*                                                                         *)
(*   auth    who may call it: anybody, a token, a global superadmin;       *)
(*   action  the permission of its module, or none;                        *)
(*   scope   the resource whose evaluator the caller must be, or none;     *)
(*   on      what the handler works on: one evaluated organisation (its    *)
(*           profile, or a row that hangs from it), the profiles in the    *)
(*           caller's scope ("listing"), a profile it adds or changes, the *)
(*           organisation's templates and parameters ("structure"), its    *)
(*           people, or nothing of an organisation.                        *)
(*                                                                         *)
(* Both roles hold the same permissions in every module, so the module is  *)
(* left out.                                                               *)
(***************************************************************************)
CONSTANT None

Route(auth, action, scope, on) == [auth |-> auth, action |-> action, scope |-> scope, on |-> on]
Asks(action, on)   == Route("token", action, None, on)
Scoped(action, scope, on) == Route("token", action, scope, on)

(* assessment_admin and assessment_evaluator, as they are seeded.            *)
Granted(code) ==
  IF code = "assessment_admin" THEN {"read", "write", "delete", "admin"} ELSE {"read", "write"}

-----------------------------------------------------------------------------
(* Profiles, their applicability, and the readings over all of them.          *)
ProfileRoutes ==
  [list       |-> Asks("read", "listing"),
   findOne    |-> Scoped("read", "profile", "profile"),
   children   |-> Scoped("read", "profile", "profile"),
   actionPlan |-> Scoped("read", "profile", "profile"),
   create     |-> Asks("write", "creation"),
   update     |-> Scoped("write", "profile", "edition"),
   remove     |-> Scoped("delete", "profile", "deletion")]

ApplicabilityRoutes ==
  [getApplicability |-> Scoped("read", "profile", "profile"),
   setApplicability |-> Scoped("write", "profile", "profile")]

DashboardRoutes ==
  [getDashboard |-> Asks("read", "listing"), exportDashboard |-> Asks("read", "listing")]

AnalyticsRoutes ==
  [overview |-> Asks("read", "listing"), gaps |-> Asks("read", "listing"),
   correlations |-> Asks("read", "listing"), segments |-> Asks("read", "listing"),
   effectiveness |-> Asks("read", "listing"), clusters |-> Asks("read", "listing"),
   benchmark |-> Asks("read", "listing")]

-----------------------------------------------------------------------------
(* People, roles, the trail, the organisations and the accounts.              *)
RoleRoutes ==
  [listRoles   |-> Asks("read", "none"),
   assignRole  |-> Asks("admin", "people"),
   revokeRole  |-> Asks("admin", "people"),
   roleHistory |-> Asks("admin", "none")]

UserRoutes ==
  [listUsers  |-> Asks("admin", "none"),
   createUser |-> Asks("admin", "people"),
   updateUser |-> Asks("admin", "people"),
   removeUser |-> Asks("admin", "people")]

ActivityRoutes == [activityLogs |-> Asks("admin", "none")]

OrganisationRoutes ==
  [listOrganisations   |-> Route("superadmin", None, None, "none"),
   createOrganisation  |-> Route("superadmin", None, None, "people"),
   updateOrganisation  |-> Route("superadmin", None, None, "none"),
   provision           |-> Route("superadmin", None, None, "structure"),
   allProfiles         |-> Route("superadmin", None, None, "listing")]

AuthRoutes ==
  [login |-> Route("public", None, None, "none"), google |-> Route("public", None, None, "none"),
   refresh |-> Route("public", None, None, "none"), logout |-> Route("public", None, None, "none"),
   providers |-> Route("public", None, None, "none"), me |-> Asks(None, "none")]

-----------------------------------------------------------------------------
(* The risk tool.                                                             *)
RiskStructureRoutes ==
  [riskOverview |-> Asks("read", "listing"),
   listCountryParams |-> Asks("read", "none"),
   upsertCountryParam |-> Asks("admin", "structure"),
   deleteCountryParam |-> Asks("admin", "structure"),
   riskTemplates |-> Asks("read", "none"), riskTemplate |-> Asks("read", "none"),
   createRiskSection |-> Asks("admin", "structure"),
   updateRiskSection |-> Asks("admin", "structure"),
   deleteRiskSection |-> Asks("admin", "structure"),
   createRiskIndicator |-> Asks("admin", "structure"),
   updateRiskIndicator |-> Asks("admin", "structure"),
   deactivateRiskIndicator |-> Asks("admin", "structure")]

RiskEvaluationRoutes ==
  [createRiskEvaluation |-> Scoped("write", "profile", "profile"),
   listRiskEvaluations |-> Asks("read", "listing"),
   getRiskEvaluation |-> Scoped("read", "evaluation", "profile"),
   upsertRiskResponses |-> Scoped("write", "evaluation", "profile"),
   completeRisk |-> Scoped("write", "evaluation", "profile"),
   riskSummary |-> Scoped("read", "evaluation", "profile"),
   riskHistory |-> Scoped("read", "profile", "profile")]

RiskPlanRoutes ==
  [listRisks |-> Scoped("read", "evaluation", "profile"),
   createRiskMeasure |-> Scoped("write", "risk", "profile"),
   updateRiskMeasure |-> Scoped("write", "mitigation-measure", "profile"),
   gantt |-> Scoped("read", "evaluation", "profile"),
   planExport |-> Scoped("read", "evaluation", "profile"),
   planExportPptx |-> Scoped("read", "evaluation", "profile")]

RiskAssistantRoutes ==
  [riskImprove |-> Scoped("write", "evaluation", "profile"),
   riskSuggestSection |-> Scoped("write", "evaluation", "profile"),
   riskSuggest |-> Scoped("write", "evaluation", "profile"),
   riskPriority |-> Scoped("read", "evaluation", "profile"),
   riskInconsistencies |-> Scoped("write", "evaluation", "profile"),
   riskNarrative |-> Scoped("write", "evaluation", "profile")]

-----------------------------------------------------------------------------
(* The organizational and capacity tools share one controller.                *)
ToolStructureRoutes ==
  [toolOverview |-> Asks("read", "listing"),
   templates |-> Asks("read", "none"), template |-> Asks("read", "none"),
   createSection |-> Asks("admin", "structure"),
   updateSection |-> Asks("admin", "structure"),
   deleteSection |-> Asks("admin", "structure"),
   createIndicator |-> Asks("admin", "structure"),
   updateIndicator |-> Asks("admin", "structure"),
   deactivateIndicator |-> Asks("admin", "structure")]

(* Mutant: the measures lost their scope. *)
ToolEvaluationRoutesOpen ==
  [createMeasure |-> Scoped("write", "evaluation", "profile"),
   updateMeasure |-> Asks("write", "profile")]

ToolEvaluationRoutes ==
  [createEvaluation |-> Scoped("write", "profile", "profile"),
   listEvaluations |-> Asks("read", "listing"),
   getEvaluation |-> Scoped("read", "evaluation", "profile"),
   upsertResponses |-> Scoped("write", "evaluation", "profile"),
   complete |-> Scoped("write", "evaluation", "profile"),
   summary |-> Scoped("read", "evaluation", "profile"),
   summaryExport |-> Scoped("read", "evaluation", "profile"),
   summaryExportPptx |-> Scoped("read", "evaluation", "profile"),
   evaluationHistory |-> Scoped("read", "profile", "profile"),
   listMeasures |-> Scoped("read", "evaluation", "profile"),
   createMeasure |-> Scoped("write", "evaluation", "profile"),
   updateMeasure |-> Scoped("write", "indicator-measure", "profile")]

ToolAssistantRoutes ==
  [improve |-> Scoped("write", "evaluation", "profile"),
   suggestSection |-> Scoped("write", "evaluation", "profile"),
   suggest |-> Scoped("write", "evaluation", "profile"),
   priority |-> Scoped("read", "evaluation", "profile"),
   inconsistencies |-> Scoped("write", "evaluation", "profile"),
   narrative |-> Scoped("write", "evaluation", "profile")]

-----------------------------------------------------------------------------
DeclaredBy(table) == {table[n] : n \in DOMAIN table}

Routes ==
  UNION {DeclaredBy(t) : t \in
    {ProfileRoutes, ApplicabilityRoutes, DashboardRoutes, AnalyticsRoutes,
     RoleRoutes, UserRoutes, ActivityRoutes, OrganisationRoutes, AuthRoutes,
     RiskStructureRoutes, RiskEvaluationRoutes, RiskPlanRoutes, RiskAssistantRoutes,
     ToolStructureRoutes, ToolEvaluationRoutes, ToolAssistantRoutes}}

=============================================================================
