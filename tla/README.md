# A TLA+ model of Terra360

Terra360 is the API of an assessment tool for producer organisations: a NestJS
application over PostgreSQL (Prisma). Evaluators score the KPI of three tools
(ORGANIZATIONAL, CAPACITY and RISK), complete evaluations, plan measures and
export reports; administrators edit the templates, the profiles and the users.

One Node process serves all requests. JavaScript runs a continuation to its end,
so what interleaves is what lies between two `await`s, and nearly every `await` is
a database call. Most operations are several calls without a transaction: a
request reads, decides, and writes later what it decided from what it had read.
That is where this code is hard, and it is what the modules are about: **one
action per database call, and in `req[r]`, the continuation of request `r`, what
the request read and will still use**. Where a failure matters, any call may be
rejected, which ends the request and leaves what it wrote. What only reads, and what only
computes, is modelled as operators over one state of the database.

## The system

| Component | State | Operations | Interacts with | What makes it correct |
|---|---|---|---|---|
| Evaluation engine (`evaluation-tool.service.ts`) | evaluation rows (status, stored scores), responses | create, score, complete, read, summary, history | templates, applicability, gateway, audit | one open evaluation per profile; a completed one is final, and its stored scores are those of its responses; nothing required is missing on completion |
| Applicability (`assessment-applicability.service.ts`) | two tables of exclusions per profile | get, set, resolve (expanded to every template version) | engine, dashboard | completion and scores see one consistent setting |
| Template structure (`evaluation-tool.service.ts`, `prisma-template.repository.ts`) | versions, sections, KPI | create, update, delete sections and KPI; clone as a new version | engine, provisioning | a started evaluation never sees an edit; the newest version is in force; no edit is lost |
| Provisioning (`organisation-provisioning.service.ts`, `organisation-management.service.ts`) | organisations, version 1 of each template with its weights, country thresholds, first administrator | create, reprovision | templates, users, roles, readers | idempotent; leaves evaluations alone; an organisation has an administrator |
| Sessions (`refresh-token.service.ts`, `auth.service.ts`) | refresh tokens in families | login (password, OAuth), rotate, logout, close all, purge | users | one live token per family; reuse ends the family; closed sessions stay closed |
| Users and roles (`user-management.service.ts`, `assessment-roles.service.ts`) | accounts, memberships, role assignments | create, update, remove member; assign, revoke | sessions, provisioning | one assessment role per member; a deactivated account has no session |
| Access scope and guards | none (reads roles and profiles) | resolve scope, assert in scope | every controller, gateway | a request sees its own organisation and profiles |
| Profiles (`assessment-profiles.service.ts`) | profiles, their parent | create (reviving), update, delete | engine, overview | unique live names; two-level hierarchy |
| Risk tool (`risk-tool.service.ts`) | risks with a class, mitigation measures, thresholds per country | score and classify, create and advance measures | engine | the class agrees with the score and the threshold; measures are for non-negligible risks |
| Indicator measures (`indicator-measure-tool.service.ts`) | improvement measures | create, progress | engine | a measure is for a critical response |
| Dashboard, consolidated plan, analytics | none | read-only aggregation | all tables | agree with the stored scores |
| AI client (`llm-circuit-breaker.ts`, `assessment-llm-client.service.ts`) | failures, window | complete | provider | a failing provider is left alone, and tried again |
| Export limiter (`export-limiter.ts`) | slots, queue | withExportSlot | exports | bounded concurrency and queue; nobody is forgotten |
| Session gateway (`assessment-session.gateway.ts`) | rooms of each socket | connect, join, leave, emit | engine | only members of the scope are in a room |
| Audit | log rows | record (never fails), nightly purge | all | - |
| Reports, controllers, DTO, logging, seeds | none | formatting and wiring | - | - |

Hard behaviours: a check and a write separated by an `await` (nearly everywhere);
several writes without a transaction (cloning a version, creating an
organisation, removing a member, rotating a token); reads of two tables that
should be one; soft-deleted rows that unique indexes still count; microtask order
(the limiter); answers that arrive after the state they belong to is gone (the
breaker). `PROJECT.json` lists each hazard at its line, with the properties that
would catch it.

## Modules

A component has a module `M`, its TLC instances `MCM` with one `.cfg` per run, and, where
something is proved of it, a module `M_proofs`. `Evaluation_proofs` is about EvaluationLifecycle,
EvaluationHistory and ActionPlan, `TemplateVersions_proofs` about TemplateVersions and
TemplateHistory, `Limits_proofs` about ExportLimiter and LlmCircuitBreaker,
`Readings_proofs` about ScoreReadings and Analytics. A mutant, a plausible bug in an
operation, is defined before the operation it replaces; nothing uses it.

Much of what the code promises holds only while requests do not overlap, which is
how its tests try it. Such a property is stated with a history variable (`overlapped`,
`calm`), and the run that checks it explores all interleavings: the property is
about the longest prefix without an overlap. What survives the interleavings is
stated beside it, without the condition. In TemplateHistory the history is finer: it names
the requests that an overlap or a failure has touched, and the properties hold of all
others, in every interleaving.

| Module | Extends | Models |
|---|---|---|
| `EvaluationLifecycle` | - | creating, scoring and completing an evaluation, call by call |
| `EvaluationHistory` | `EvaluationLifecycle` | what overlapped, and the settings in force during a completion |
| `AtomicEvaluation` | - | what the evaluations promise: each operation one step, while nothing overlaps |
| `ActionPlan` | `EvaluationLifecycle` | classes of risks, thresholds, measures of all three tools |
| `TemplateVersions`, `TemplateHistory` | -, `TemplateVersions` | copy-on-write of templates, reprovisioning; which requests were overtaken on their way, and which clones stopped halfway |
| `RefreshTokens`, `TokenHistory` | -, `RefreshTokens` | families of refresh tokens; what overlapped, and how often a family is renewed |
| `ProfileHierarchy` | - | profiles, their parents, soft deletion and revival |
| `MemberRoles` | - | members, their roles, the founding of an organisation |
| `AccessRoutes`, `RequestAccess` | -, `AccessRoutes` | what every route declares; a request through its guards, a socket into a room |
| `Statistics` | - | averages, ranks, histograms, correlations, k-means, pages |
| `ScoreReadings` | `Statistics` | the scores, the weights they are computed with and what every reader answers |
| `Analytics` | `ScoreReadings` | the data set and the seven analyses |
| `ExportLimiter`, `SlotPool` | - | the limiter of exports; what it promises |
| `LlmCircuitBreaker` | - | the breaker of the AI provider |

### EvaluationLifecycle and EvaluationHistory

State: `owner`, `status`, `responses`, `stored` are columns of the evaluation and
its responses; `applic` is the pair of exclusion tables of each profile; `req` the
continuations. An evaluation is a number, given in order of creation; answers are
members of `Scores`. `stored` keeps the (indicator, answer) pairs that
`computeScores` averages instead of the averages (ScoreReadings computes those),
because what can go wrong here is which answers enter.

| Action | Code |
|---|---|
| `CreateLookup`, `CreateInsert` | `createEvaluation`: `findActiveForProfile`, then `create` |
| `ScoreRead`, `ScorePersist`, `ScoreMark` | `upsertResponses`: read and 409, the transaction, `setStatus` if the status *read* was DRAFT |
| `CompleteRead`, `CompleteSections`, `ReadSectionRows`, `ReadIndicatorRows` | `complete`: the evaluation, `resolveExcludedSectionIds`, then the two parallel queries of `resolveExcludedIndicatorIds` |
| `CompleteRefuse`, `CompleteWrite` | 422, or the update with status and scores |
| `SetApplicability` | `set`, one transaction |
| `Fail` | a rejected call |

`resolveExcludedSectionIds` runs the same two queries but uses one of them, so it is
one step. The code never archives nor deletes an evaluation; `ARCHIVED` is kept as a
status the guard refuses, and no action sets it. The template of an evaluation is
constant here (its edits are TemplateVersions).

* `Evaluation` (two requests, failures). Without overlap: one open evaluation per
  profile, the persisted scores are those of the responses, and the whole is an
  `AtomicEvaluation`, in which each operation is one step (`AtomicWhileAlone`). With any overlap:
  a profile never has more evaluations open, or about to be, than requests can
  account for (`LiveEvaluationsBounded`); a completed evaluation that no scorer is
  late for never changes (`SettledStaysSettled`); and a completion, which reads the
  exclusions in three calls while an administrator may replace them, misses nothing
  that every setting in force asks for and scores nothing that all of them exclude
  in the same way (`CompletedWithinWindow`). A first version of this property said
  "completes under one of the settings in force", which is false: it may combine two.
* `EvaluationReopened` is expected to fail: a scorer that read DRAFT sets IN_PROGRESS on
  an evaluation completed meanwhile, which takes it out of the history.

With two requests a double creation leaves two open evaluations, because both look before
either inserts, although the comment at `evaluation-tool.service.ts:551` promises one;
`SingleOpenWhileAlone` without its condition shows it.

### ActionPlan

Extends EvaluationLifecycle with what the tools add to it. `RiskToolService` overrides
one hook of the common service, `persistResponses`; so the actions are those of the
lifecycle, two of them with more to do, and `tool` says which override is in force.

State: `params` (the threshold of each country), `flagged` (`isCritical` of each
response), `class` (the class of each risk), `rule` (the threshold a scorer has read),
`measures`, `plan` (the continuations of the requests about measures); history:
`inForce`, the thresholds in force since a scorer began, and `needed`, the KPI a measure
was ever allowed for.

| Action | Code |
|---|---|
| `BeginScore`, `PersistResponses`, `Reject` | the lifecycle's `ScoreRead`, `ScorePersist`, `Fail`, with the tool's columns |
| `ResolveRiskThreshold` | `persistResponses` of the risk tool, before its transaction |
| `CommonFlow` | every other step of the lifecycle |
| `UpsertCountryParam`, `DeleteCountryParam` | the same, by an administrator, under the upper-cased country |
| `MeasureRead`, `MeasureCreate` | `createMeasure` of both tools |
| `ProgressRead`, `ProgressWrite` | `updateMeasureProgress` of both tools |
| `RejectPlan` | a rejected call of these |

The two tools keep measures in two tables of one shape; `Plannable` is what differs. A
country is a member of `Spellings`, because it is upper-cased when its threshold is
written and not when it is looked up. `class` stays as it was classified when a
threshold changes, as in the code.

* `PlanConcurrent` (two requests of evaluators, one about measures, administrators,
  failures): a KPI has a risk exactly when it has a response; a batch is classified
  under one threshold that was in force during its request, although another may be in force
  when it is written; a measure exists only for what was at some time critical or
  non-negligible, although it may not be so when the measure is written; and once a
  completed evaluation has no late scorer, what still waits for a measure only shrinks.

### TemplateVersions and TemplateHistory

State: `tpl` (absent, active or inactive), `rows` (a section in each slot of each version,
with the state of its KPI), `used` (versions some evaluation references), `req`. A
clone keeps the slot of each row, which stands for its number; the code finds the
row of the clone by number and code, and so does `InClone`.

| Action | Code |
|---|---|
| `StartRead`, `StartInsert` | `createEvaluation`: `getActiveTemplate`, insert |
| `Begin` | an edit finds its row (a KPI also in a deleted section, as `findIndicator` does) |
| `ReadTemplate`, `CountEvaluations`, `CloneCreate` or `CloneRefused`, `Retire` | `ensureWritableTemplate` and `cloneAsNewVersion` |
| `SectionCreate`, `SectionConflict`, `SectionUpdate`, `SectionDelete`, `KpiCreate`, `KpiSet` | the last call of each edit |
| `Reprovision` | one upsert of `provisionTemplate` into version 1 |

Left out: names and texts; the confirmation asked when responses exist (it only stops a
request); renaming a KPI code. What weights do to scores is in ScoreReadings.

`TemplateHistory` adds two history variables. `overtaken[v]` has the requests that are at
work on version `v` since before its first evaluation was inserted, or since before its rows
changed in spite of one: what they have read, or counted, is old. `halted` has the versions
that were cloned by a request whose call to deactivate them was rejected.

* `TemplateConcurrent` (two requests that switch KPI and start evaluations, three
  versions, failures). `VersionsInForce`: the newest version is active, and an older
  one exactly while the request that cloned it is about to deactivate it, or since that call
  was rejected: then it stays active for good, beside the newest, and no later request mends
  it. The second of two editors that clone one version breaks the unique index and answers 500.
  `CloneFinishes`, under weak fairness of the steps of a request, which Node gives (a call
  that settles is continued): a cloned version is deactivated in the end, unless it is in `halted`.
* `TemplateEdits` (two overlapping requests, all other edits, failures, reprovisioning of a
  section). `StartedEvaluationsKeepTemplate`: the rows of a version that has evaluations
  change in two ways only. A request that counted none before the first was inserted
  writes its edit in place, once; and reprovisioning adds rows to version 1, those whose number or
  code the administrators had changed, whatever references it. `CloneKeepsEdits`: a clone carries the live rows its
  origin has at that moment, unless its request read it before its first evaluation or before
  one of those late edits. So the immutability rule is lost to an overlap by one edit for each request
  in flight, and never later; and an acknowledged edit is missing only from the clone of a request
  that was overtaken so.

### RefreshTokens and TokenHistory

State: `token` (the row: live, expired, revoked or purged), `active` and `linked` (the
account), `epoch` and the epoch in each token (history: how often the user has lost the
right to earlier sessions), `req`. Expiry and the purge are actions that may happen
at any time; the thirty days a revoked row is kept are not measured. `TokenHistory` adds
`calm` (nothing overlapped and no call failed), `kept` (users whose password was replaced
by an operation that closes no session) and `renewals` (tokens issued in a family since
its user was deactivated).

| Action | Code |
|---|---|
| `PasswordLogin`, `OAuthLogin`, `LoginIssue` | `loginWithPassword`, `loginWithOAuth`, `buildSession` |
| `RotateRead`, `RotateRefused`, `ReuseRead`, `RevokeFamily`, `RotateRevoke`, `RotateGone`, `RotateIssue`, `RefreshCheck` | `rotate` and `refresh` |
| `NewPassword`, `Deactivate`, `Reactivate`, `CloseSessions` | `updateMember` and `revokeAllForUser` |
| `RemoveMember`, `AdoptMember`, `AttachAdmin` | `removeMember`, `createMember` and `attachAdmin` of an existing user |
| `Logout`, `Expire`, `Purge` | `logout`, time, `AuditRetentionService.purge` |

* `Tokens` (two requests, failures, a user that is linked to OAuth and known in another
  organisation). Always: a family with no live token and no rotation under way never
  lives again. While calm: one live token per family; a live token is older than the last
  closing of its user's sessions only while they are being closed, or because the
  password was set from another organisation, which closes none
  (`createMember`, `attachAdmin`). OAuth of a linked user does not look at `isActive`, so
  a deactivated user may open a session: it is renewed at most once, because `refresh` looks
  at the account (`InactiveRenewsOnce`). With an overlap two rotations that both read a token
  leave two live ones, and a login under way when sessions are closed issues its token
  afterwards.

### ProfileHierarchy

State: `profile` (the row of each id: name, type, level, parent, live or deleted), `open`
(profiles with an open evaluation), `req`; history: `calm`, `reshaped` (a level was changed or
a row revived), `sawLevel2` (requests whose parent was a live Level 2 association
at some moment since they began).

| Action | Code |
|---|---|
| `CreateFind`, `ValidateParent`, `CreateUpsert` | `create`: the name, the parent, the upsert by name that revives a deleted row |
| `UpdateGet`, `ValidateParent`, `UpdateWrite` | `update`: the parent is validated only when the body brings one |
| `DeleteGet`, `DeleteCount`, `DeleteWrite` | `delete`, with the count of open evaluations unless confirmed |
| `StartFind`, `StartInsert`, `Complete` | an evaluation of the profile starts and ends |
| `Fail` | a rejected call |

* `Profiles` (two requests, three rows, failures). Whatever overlaps, a parent that is
  written was a live Level 2 association at some moment of its request
  (`ParentWasLevel2`); it may not be one any more. While requests do not overlap and no
  level changes, every live profile is shown by the panel or hangs from a deleted one
  (`NobodyHidden`); a live profile is changed by updates only, and never by a
  creation with its name; and a profile with an open evaluation is deleted only by a confirmed deletion.
  What breaks the words of the comment at `assessment-profiles.service.ts:94` with one
  request is in `reshaped`: changing the level of a child, or of a parent that
  has one, validates nothing, and then Level 2 associations nest, or are each other's parent,
  and the panel shows neither. `NoNestedLevel2` is defined, and no run checks it.

### MemberRoles

An operation is a chain of calls that other operations share: `updateMember` and
`removeMember` go through `replaceRole`, and everything that gives a role ends in
`AssessmentRolesService.assign`. State: `org`, `account`, `member`, `live` (roles not
deleted), `open` (who started an open evaluation) and `job`, the rest of the chain of each
request; history: `calm`, `raced`, `direct`.

| Action | Code |
|---|---|
| `CreateLookup`, `CreateAccount`, `CreateEnrol` | `createMember` |
| `UpdateAssert`, `UpdateAccount`, `RemoveAssert`, `RemoveLeave`, `Close` | `updateMember`, `removeMember` |
| `ReplaceRead` | `replaceRole`; then `RevokeFind`, `RevokeUnset` for each old role, `AssignFind`, `AssignUpsert` for the new |
| `AssignFind`, `AssignUpsert`, `RevokeFind`, `RevokeCount`, `RevokeUnset` | `assign`, `revoke` |
| `FoundSlug`, `FoundInsert`, `FoundProvision`, `AttachAccount`, `AttachJoin` | `OrganisationManagementService.create`, `attachAdmin` |
| `Reply`, `Fail`, `Evaluate` | the answer; a rejected call; evaluations of the user |

* `Members` (two requests, failures): an operation that answers has done all it was asked,
  while requests come one at a time; nobody has two roles then, whichever calls
  failed; and, also when requests overlap, only members hold roles, except who was given one
  by `POST /assessments/roles`, which does not ask for a membership, or whose removal
  overlapped another request about him. A founding refused at `attachAdmin` leaves an organisation without
  administrator, and a second attempt is a 409: that is why the promise is of operations that answer.

### AccessRoutes and RequestAccess

`AccessRoutes` is the table of the HTTP routes as their decorators declare
them: who may call, the action asked of the module, the resource whose evaluator the caller must be, and
what the handler works on. `RequestAccess` takes a request through `JwtAuthGuard`
(`JwtAccount`), `AssessmentPermissionGuard` (`PermissionUser`, `PermissionRoles`) and
`AssessmentScopeGuard` (`ScopeRoles`, `ScopeOwner`), one read of the database each, to its
handler (`HandlerScope`, then `WritePeople`, `CreateOwned`, `Edit`, `Delete` or `Answer`), and a
socket through the gateway's `join` (`ScopeRoles`, `ScopeOwner`, `Enter`) and `leave`.
`Others` is whatever other requests write meanwhile. `seen` is history: what held of
the user, and of the user and the profile, at some moment since the request came.

* `Access` (one request, a user and a superadmin): a handler runs for somebody whose account was active
  and who held a role that grants the action at some moment since he asked; no handler works on
  an evaluated organisation, and no socket enters a room, for who neither administered nor
  evaluated it; and roles, accounts and evaluators are changed by somebody who was
  administrator on the way. The stronger "at the moment the handler runs" is false by design: the guards
  read before it.

### Statistics, ScoreReadings and Analytics

`Statistics` has the pure functions, in whole hundredths, so that rounding to two decimals
is a rounded division. `ScoreReadings` has one tool's database, with operations that are
one step each (their calls are the matter of the modules above), and one operator per reader:

| Operator | Code |
|---|---|
| `ComputeScores`, `ResolveScores`, `Summary`, `EvaluationPayload` | `evaluation-tool.service.ts` |
| `OrganisationsOverview`, `OwnRow`, `ConsolidatedRow`, `EvaluationHistory` | the panel and the history of the same |
| `ExpandExclusions`, `ExcludedFor` | `assessment-applicability.service.ts`, exclusions carried to every version |
| `AssociationOverview`, `Dashboard`, `ProfilePlan`, `Gantt`, `ImpactPriority` | the overview of an association, the dashboard, the consolidated plan, the ranking |
| `Init` | what `demo-data.seed.ts` leaves |

`Analytics` has the data set (`EvaluationEntry`, `References`, `LatestByProfile`) and the seven
analyses (`Overview`, `SystemicGaps`, `Driver`, `CrossTool`, `GlobalCross`, `ProfileFactor`, `Segments`,
`MeasureEffectiveness`, `Clusters`, `Benchmark`).

The weights of the versions are a variable: `ReprovisionSection` and `ReprovisionKpi` are the upserts
of `provisionTemplate`, which overwrite those of version 1, under completed evaluations too; `under`
is the history of the exclusions and weights that each evaluation was completed with. The rows that
an upsert may add to version 1 are the matter of TemplateVersions. The weights a version has when its first
evaluation starts, whoever edited them, are those of the constant `Template`. A KPI may have several measures in one
evaluation: `createMeasure` looks only at whether the KPI is critical, and no unique index says otherwise.

* `Readings`: the readers agree where they read the same thing, however many measures a KPI has, and agree with the
  recomputed score when neither exclusions nor weights changed since the completion; every average
  lies between what it averages, through three roundings; and the breakdowns partition what
  there is: nobody is counted twice or dropped by the histogram, the segments, the groups
  of measures and the clusters, every settled cluster has its organisations nearest to it, and
  what orders the organisations alike never correlates negatively. `OtherTool` stands for the
  last evaluations of another tool, which the correlations between tools read. The instance's has
  a score for all three organisations, and a section for two of them.
  `StatisticsAssumption` evaluates the pure functions against their reference definitions over
  bounded inputs, that k-means settles within its 50 turns included.

Meant or not, readers differ: the panel and the overview of an association read the latest
evaluation that is started and the dashboard recomputes the score of a completed one from
today's exclusions and today's weights; the data set of the analytics does so with no exclusions; and `GlobalCross` models that each tool drops its own
organisations without a score before the scores of two tools are paired by position
(`assessment-analytics.service.ts:384`), so that one missing score pairs different organisations.

### ExportLimiter and SlotPool

State: `running`, `waiting` as in the code, and where each call is. `Finish` is the end of
the task with `release()`, which only resolves the promise of the first wake; `Resume`
is the continuation of that call. Any other continuation may come in between: one callback
of the event loop may settle several promises, as a batch of database results does, and a
newcomer whose continuation was queued first finds the slot free.

`SlotPool` is what the limiter promises: a fair pool of slots. Its actions are the ways of a client:
`Acquire` a free slot, `StandInLine`, `GiveBack` a slot or, when somebody is in line, `HandOver`
to the first, who is then `called` and has to `Arrive`, and `GiveUp`. `Overbook` is what the promise
costs: a newcomer may take one more slot while somebody called has not arrived. The limiter implements
the pool when the woken calls are seen as holders (`IsSlotPool`): the code gives the slot back
and takes it again, and the woken call does not look at the limit when it does.

* `ExportTurns`: the limiter is a slot pool, so the limit is exceeded by one for each newcomer that
  finds a woken call missing, and by nothing else, nobody who was woken loses his slot, and nobody
  stands in line while one is free; no wakeup is lost; and the queue drains under fairness for the end of tasks and for
  continuations but not for the queue timer, so the drain does not rely on it.
  `EXPORT_MAX_CONCURRENCY` is assumed to be a number (`LimitAssumption`).

### LlmCircuitBreaker

State: the failures and the window of the provider in use, the age of each call in
flight, and two history variables for the stop an opening promises. Time is counted in
ticks; the HTTP timeout (25 s) is shorter than the window (300 s), which is all
that `TimeAssumption` says. `BreakerLimits` checks what the counter can reach, that only
an answered call ends a stop early, and that the breaker reopens under fairness of time
and of answers (the HTTP client gives up at the timeout). A stop may be shorter than the five
minutes of the comment: the late answer of a call in flight closes the breaker.

## Bounds

* Two requests in the concurrent runs: every race found needs two actors, and where the
  invariant is proved it is for any number. In `Access` one
  request, and everything it does not do itself is `Others`.
* Failures: any call may be rejected in every run of a module with `Fail`.
* Evaluation: three evaluations of one profile, one KPI and a section without any. `MCHistorySpec` lets
  the settings change only while a completion is in flight and while there is
  one evaluation; the other two are there for what races over their creation.
* ActionPlan: one evaluation with one KPI, one planner and one measure. Scores 3, 6 and 9 and
  thresholds 5 and 7 give a critical KPI, one whose class depends on the threshold, and one
  never at risk. `MaxMeasures` is a bound in the guard `Room`.
* TemplateVersions: three versions in `TemplateConcurrent`, so that a clone of a clone and the clone of an old
  version occur, with one kind of edit, because which version is in force does not depend on the edit; two
  versions in `TemplateEdits`, with all the others. `MaxVersion` is a bound in the guard of `Begin`. Two slots and two
  numbers: enough to renumber, and to collide with a deleted row. The seed has one section
  (`FirstSeed`), which an edit may renumber before it is provisioned again.
* RefreshTokens: four tokens and one closing per user (`MaxTokens`, `MaxEpoch`): a login and three
  rotations. `Room` lets a request start only if there is a token left for it.
* Profiles: three rows, for a child of a child. The action constraint `FewRows` keeps three rows to
  requests that come one at a time without evaluations, and two names to those that overlap; an overlap is followed until
  its requests end.
* Members: one user, because every operation is about one; `MCSpec` does not follow what comes after a
  raced removal, of which the properties say nothing.
* Access: one profile; the roles of the superadmin stay empty, because they decide nothing.
* Readings: an association with one member and an organisation on its own (`StatisticsAssumption` evaluates the
  row of an association with three members); two versions with two sections and two KPI, one of which becomes
  inactive and the other weightless; scores 3 and 10; the evaluations of the demonstration data and one more
  (`MaxEvals` 4, `MaxCompletions` 4); one organisation with one excluded row; two measures (`MaxMeasures` 2), of
  one KPI or of two evaluations; a section and a KPI that are provisioned again, with one measure at most, since no measure
  depends on a weight. Averages are exact fractions, where the code has binary ones; centroids are not rounded to two
  decimals except where a level is read from them; a correlation is its sign.
* ExportLimiter: limit 2 with a queue of two and five callers, so that refusal, waiting and barging occur.
* LlmCircuitBreaker: the threshold of the code, three calls, a window longer than the timeout.

Symmetry is used in `Evaluation`, `TemplateEdits`, `PlanConcurrent`, `Tokens`, `Profiles` and `Members`, which check
no liveness. Deadlock is checked in every run.

## What is proved

The theorems hold for every value of the constants that satisfies the assumptions
named in the module. These say no more than that bounds are naturals, that some
sets are finite, that the value for "no row" is not a row, and what each paragraph below adds.
Every safety property of a passing run is a theorem, without other hypotheses on the constants: for any
requests, limits and seeds, with failures or without.

* **Evaluation_proofs** (EvaluationLifecycle, EvaluationHistory, ActionPlan). `TypeCorrect`.
  `SnapshotNeverAhead`: a scorer that saw
  IN_PROGRESS writes to an evaluation that has left DRAFT; its own inductive invariant, because no
  action writes DRAFT to an existing row. `SettledForGood`: an action property; a step of a
  completed evaluation is by a scorer, and there is none. `LiveBound`, then `OpenBound`: counting open
  evaluations alone is not inductive, since a scorer may reopen a completed one and a
  creation in flight will add one. The invariant counts, for each profile, the
  evaluations that are open or may be reopened, plus the creations in flight. The
  step that needs care is a creation's lookup: it saw no open evaluation, so every
  reopenable one has a scorer of its own, and the creating request is none of these.
  * `HistoryWatches` (`HistorySpec => Spec`): the history variables restrict nothing.
    `CompletionsFitTheirWindow`: a completion reads the exclusions in three calls and writes
    what they say together. The invariant (`WindowInv`) is that what was read of each was
    in force at some moment of the window, and that the window reaches the present.
    `OneOpenWhileAlone` and `ScoresMatchWhileAlone`: `AloneInv` says, of
    the only request in flight, that what it read is still what the database has.
    `LifecycleIsAtomicWhileAlone`: until two requests overlap, every step is one of
    `AtomicEvaluation`, with the rows that are DRAFT or IN_PROGRESS in the phase "open". The insert is the
    start, the transaction of the responses the answer, the last write the completion, and all other
    calls, failures included, are stutters; the insert and the writes need `AloneInv`.
  * `PlanKeepsLifecycle`: `PlanSpec => Spec`, a step of the plan is a step of
    the lifecycle or a stutter, so the theorems above hold of all three tools. `PlanTypeCorrect`;
    `RisksFollowResponses`: responses and classes are written by one action, for one batch;
    `ClassesWereInForce`, from the invariant that the threshold a scorer holds is in its
    history; `MeasuresNeeded`, from the invariant that what is plannable now, and what a planner is
    about to create, is recorded in `needed`; `PendingShrinks`, from `SettledForGood`'s step and
    from the fact that a measure, once created, is never deleted.
* **TemplateVersions_proofs** (with TemplateHistory). `HighestVersionActive`, from an invariant on what a request
  about to clone or retire may name: a version is retired only by the request that
  created its successor. `VersionsStayInForce` adds to it that a version which has a successor is active only
  on account of such a request or of its failure (`RetireInv`). `TemplateTypeCorrect`: to write an
  edit's row back it must exist, and the invariant has to say that no step removes rows and that
  a clone has the rows it carries. `StartedKeepTemplate` and `ClonesKeepEdits` are copy-on-write
  itself, in every overlap and with every failure and seed: what a request carries between
  two calls is still so, or it is in `overtaken` (`CopyInv`). The hard step is another request's
  edit in place: it is the only thing that makes a copy old, and it happens only to a version
  without evaluations, whose first one will overtake the copier, or as a late edit, which does so at once.
* **RefreshTokens_proofs** (with TokenHistory). `TokensTypeCorrect`, `DeadForGood`: no step makes a token of a
  family live but a rotation of one of its tokens or the login that starts it.
  `TokenHistoryWatches`. `OneLiveWhileCalm`, `ClosedWhileCalm`, `RenewedOnceWhileInactive` have one
  inductive invariant, `CalmInv`: at most one live token in a family, and while the family
  is being rotated none but the one about to be revoked; a live token has the epoch
  of its user, unless a closing request is about to revoke it; and a family of an inactive user
  that was renewed has no live token that could be renewed again.
* **ProfileHierarchy_proofs.** `ProfilesTypeCorrect`. `ParentsWereLevel2` in every
  overlap: a request past the validation is in `sawLevel2`. `CreationsNeverOverwriteWhileCalm` and
  `OpenLosesProfileOnlyConfirmedWhileCalm`: `CalmInv` lists, for each place of a request, what it
  checked and what is still true. `NobodyIsHidden` adds that parents are live
  Level 2 rows and that nobody with a parent is one (`Nested`), which is lost only by the two
  things the history variable `reshaped` records.
* **MemberRoles_proofs.** `MembersTypeCorrect`, with the list of places that each operation
  reaches. `OnlyMembersHoldRoles` holds in every overlap and with every failure: a request about to
  give a role has found its user a member, a removal takes the roles before the membership
  and knows of every role it has still to take; who is removed meanwhile is in `raced`
  (`MembersInv`). `AnswersAreTrue` and `NobodyHasTwoRoles`, while requests come one at a time:
  `Progress` says what each place of each chain has done so far.
* **RequestAccess_proofs.** `HandlersRunWithRights`, `OthersStayOutOfReach`,
  `AdministratorsGiveRights`, for any requests, users and profiles. A guard that lets a request
  pass has read a fact at that moment, and what was seen stays seen; the inductive
  invariant (`IInv`) says what must have been seen past each guard. The other half is
  `RoutesWellDeclared`, proved route by route from the table: a handler over an evaluated organisation has
  both guards, one over people asks for an administrator. It uses that null is no action and no
  resource (`AccessAssumption`).
* **Readings_proofs** (ScoreReadings and Analytics), for any template with weights that
  are naturals, any scores of 0 to 10 and any demonstration data that answer every KPI
  of a version whose sections all have KPI, as the seed provisions it. `ReadingsTypeCorrect`.
  `RecomputedScoresAgree`: what an evaluation persisted is what the engine
  computes of its answers under the exclusions and weights of its completion (`ReadingsInv`); that is inductive
  because a completed evaluation is not scored again, and because scores
  depend only on the version, the answers, the exclusions and the weights, whatever provisioning writes since. `ScoresLieBetween`: the average of a
  section or of an evaluation, with its roundings, from lemmas about sums over finite
  sets: a sum of terms that each lie between two multiples of their weights lies between the multiples
  of the sum. `ReadersTellTheSame`: the readers of measures count rows of one list, of which there are finitely many
  (`MeasuresFinite`). Induction over a set goes through the smallest cardinality
  of a counterexample (`Least`, `SubsetInduction`), because the induction theorems of the library take an
  operator; for that, sums are folds, an order is chosen by `InOrder`, and the turns of k-means
  are a recursive function.
  * `BreakdownsAddUp` (`BreakdownsHold`), for any segments that cover the profiles and any scores of the
    other tool. It follows from type correctness alone: what the analytics show is a function
    of the database. The partitions and the counts rest on three facts about finite sums: a sum of
    sums can be taken in any order (`AddsUp`, `SumPlus`), so that the critical KPI are as many counted
    by organisation as by KPI (`CountedBothWays`), and what each element is in exactly one
    part of adds up (`PartsAddUp`), which holds of the bins, the segments, the groups and the months.
    `SameOrderCorrelates` is about `Pearson` for lists of any length: when the second variable grows
    wherever the first does, the sum of the products of their deviations is positive unless the first
    is constant. There is a value of the second variable that splits it where the
    mean splits the first, so every product counted from that value is at least zero.
    `DriversFollow`, `CrossesFollow` and `GlobalsFollow` apply it; the last one needs that the organisations
    without a score are the same in both tools, since only then do the two lists have the same places.
    For k-means, an induction over the turns (`LoopInv`): a turn that changes no assignment ends the
    loop with the assignments nearest to the centroids they were taken from (`NearestIs`, which compares
    distances as ratios and needs `RatiosInOrder`), and any other turn counts one more.
  * The attempt corrected the property: a percentile of 100 does not say that an organisation has nobody
    above it. The code rounds to whole percents, so in a cohort of 200 or more one that is second
    shows 100 too; the theorem says exactly when.
* **Limits_proofs** (ExportLimiter and LlmCircuitBreaker). `LimiterTypeCorrect` (`running` is the number of running calls,
  and the queue holds the waiting ones once each). `NoLostWakeup`: while a call waits, those running and those woken
  fill the slots. `LimiterIsSlotPool`, the refinement of `SlotPool`, whatever comes between a release and
  the continuation it woke: each step is a step of the pool or, for a refusal, a stutter.
  `BreakerTypeCorrect`, `FailuresStayBounded`, `StopHolds`, from the
  invariant that a stop not answered is covered by the window.

Model-checked only:

* the liveness properties `CloneFinishes`, `QueueDrains` and `Reopens`: fairness and
  ENABLED are out of reach of the prover;
* that the loop of k-means settles within its 50 turns, which nothing in the code promises:
  `StatisticsAssumption` evaluates it over bounded inputs, and `BreakdownsHold` speaks of the
  clusters of a loop that did;
* what else `StatisticsAssumption` says of the pure functions (the median, the mean and the pages).

## Plan

1. *(done)* The core: EvaluationLifecycle, TemplateVersions, RefreshTokens, ExportLimiter, LlmCircuitBreaker, ActionPlan.
2. *(done)* ProfileHierarchy, MemberRoles, RequestAccess with the gateway, the readings and the analytics,
   SlotPool and its refinement, the history modules, the proof of RequestAccess.
3. *(done)* The theorems of ProfileHierarchy and MemberRoles.
4. *(done)* The theorems of EvaluationHistory and TokenHistory, of TemplateHistory in every overlap,
   and of the readings.
5. *(done)* `AtomicEvaluation`, refined by the lifecycle while nothing overlaps.
6. *(done)* The theorem of the analytics: partitions, counts, correlations and clusters.

## Not modelled

* AI prompts and answer parsers: text in, text out; nothing of it is kept but what the evaluator then sends through the
  modelled operations.
* Report builders (spreadsheets, slides): layout of data already read.
* DTO validation of formats and lengths, texts, filters and pages of lists other than the arithmetic of the pages;
  the ranking of risks.
* Bootstrap, configuration, logging; template data and the definitions of the tools, which are data.
* The audit log: written after each effect, it never fails its caller and no operation reads it.
* Authentication primitives (hashing, JWT, OAuth verification) are taken as correct; the handshake of the gateway is one.

Divergences met that no run states, because a line of the code is the only witness or
the property would need two tools: a threshold changed for a country does not classify its risks again
(`risk-tool.service.ts:621`); a country is upper-cased when its threshold is written and looked up as
the profile spells it (`risk-tool.service.ts:126`, modelled by `Spellings`); a deleted section keeps its
number for good, so that a section created with it is a 409 (`schema.prisma:365`, modelled in `SectionConflict`); the pairing of
`GlobalCross`; and the data set of the analytics, which computes its scores without exclusions although its comment
(`prisma-analytics-dataset.repository.ts:20`) says they are coherent with what the evaluator sees in
each summary. Provisioning an organisation again says that it does not touch
the evaluations already made (`organisation-provisioning.service.ts:27`); it resets the weights of version 1, from which
the dashboard and the data set compute the scores of completed evaluations again (`ReprovisionSection`,
`ReprovisionKpi`), and may add rows to it. A KPI may have several measures in one evaluation
(`indicator-measure-tool.service.ts:205`, modelled by `CreateMeasure`).
