# VentureForge in TLA+

VentureForge (`src/`) is a TypeScript service, one Node process over Prisma and
SQLite, in which agents research, build, launch and operate software products
under the authority of a human owner. Its code keeps one pattern throughout: a
service method **reads** a row, **checks** a transition table or a permission,
and **updates** the row by id. No method opens a database transaction
(`$transaction` occurs nowhere), so every `await` is a point where another
request, another step of the same pipeline or a restart of the process may come
in between. The models in this directory take that seriously: an action is the
code between two awaits.

## Inventory

| Component | State it keeps | Operations | Hard behaviour | What makes it correct |
|---|---|---|---|---|
| Approval engine (`approval.service`) | `approval_requests`, `approval_snapshots` | request, decide, request more evidence, sweep, requeue, assertFresh | decisions racing each other and the sweep; content and clock moving between request and use | a verdict is final; nothing executes that a human did not approve as it is |
| Deployment (`deployment-plan`, `deployment`) | plan status and bound approval, append-only deployments | requestApproval, applyDecision, execute, rollback | check-then-act over many awaits; provider memory lost at a restart; partial failure after `deploy` | one deployment per plan, LIVE only on a real deployment, no dead end |
| Launch operations, launch review memo | product status, memo decision | planLaunch, recordHumanDecision | a pipeline of agents that may stop anywhere; a decision recorded before its effect | a rejected launch is not deployed |
| Product | one status of eighteen | setStatus, approve | written by six services | only EXECUTE makes it LIVE |
| Autonomous operations, event bus | subscriptions; persisted events | dispatch on four event types | runs inside the publisher's own call, beside the human doing the same | no effect beyond what the human decided |
| Emergency stop | stop rows | activate, resume, assertNotActive | read once, used many awaits later; two activations | nothing goes live while it is active |
| Scheduler, control plane | stage, status, stage events of a cycle | start, begin, advance, await human, resume, pause, cancel, stop, fail, retry | the status is written back from an old read; the stage to resume at is computed from history | a pause or a cancel holds; committed stages are not re-run; no EXECUTING without a human |
| Agent runtime | execution status, usage counters | startExecution, run, callModel, callTool | budgets and retries; the row is checked in memory | budgets bound the work; every run ends in one terminal status |
| Guardian, agent registry, permissions | agent status, grants | createAgent, transitionStatus, grant, revoke, authorize | a revocation racing an authorized call; two racing grants | no action without an active grant and agent; authority comes from a human |
| Identity and authentication | identities, token hashes | bootstrap, create, revoke, authenticate | the one-time bootstrap counts and then creates; the token is checked before the handler runs | one first human; every other identity made by a human; a trace of each change |
| Outreach (`message-approval`, `outbound-message`, prospects, experiments) | prospects, messages, deliveries, responses | discover, import, qualify, draft, request, apply, markContacted, send, record and analyse a response | attempts counted before they are stored; provider and limiter in memory; two services writing one prospect | only approved text goes out, once; the record of a contact is in order |
| Billing (pricing, plan, activation, webhooks) | plans, accounts, webhook deliveries, revenue | price, create, request, apply, activate, webhook | partial activation; late, repeated, reordered, unverified deliveries | an account was approved at a grounded price; revenue counts once per event |
| Growth experiments | experiments, results | propose, request, apply, approveToRun, complete | a status moved before its request; writes by id after an old check | what runs was approved; what was learnt was measured on a run |
| Opportunities, decision cycles and records, memos | opportunity status, recommendations, reviews, memos, records | run cycle, request, applyHumanDecision, transition | KILLED before its record exists; a cycle's budget compared after each claim | a kill was decided by a human; budgets hold |
| Claims, evidence, confidence, gaps | claims, reports, gaps, queue items | extract, validate, recompute, populate | two validations of one claim; a run that fails half-way | a claim follows its latest report, its gap follows the claim |
| Product factory, engineering tasks | product status, tasks, workspace, memo | create, approve, build, decide | a pipeline of ten agents, any of which may fail or be refused; outcomes nobody looks at | what is ready was built whole and the human saw what was found |
| Research: cycle, queue, intake, signals, clusters, problems | signals, clusters, problems, queue items, cycles | ingest, cluster, promote, run a cycle, requeue | deduplication by look-up and create; items taken and never returned | only independent sources corroborate; an item is handed on until done |
| Alerts, incidents, support cases, tasks, attention queue | their rows | raise, acknowledge, triage, refresh, review | look-up and create within a window; a refresh that skips what it has seen | each occurrence counts once, each waiting decision is on the queue |
| Predictions, lessons, business review memos | predictions, metrics, lessons, decision outcomes | record, resolve, sweep, decide a memo, learn | a sweep over an old list; a lesson after its row; a pause after its decision | nothing is learnt early; each bad prediction is a lesson; a decision takes effect |
| Customer discovery (interactions, findings, validation, ICP profile, discovery experiment and memo) | interactions, findings, profiles, claims, prospects, memos | record, setOutcome, attachFinding, evaluate, run, compile, decide | five writes per finding; a ladder climbed over rows read one by one; a chain of four agents that may be run again | what counts as evidence was observed; an answer rests on two businesses; a run asks a human once per draft |
| Company budget, concurrency flag | spend rollups | assertNotExceeded, conflict check | looked at once per advance | a cycle over budget is stopped |
| CEO, Chairman, other analysts | recommendations and reviews | recommend, review | what they cite may not exist; they may fail anywhere | only existing claims are cited |
| Calibration, decision quality, reporting, HTTP, audit | scores, aggregates, append-only rows | – | none (no state another step depends on) | – |

Components interact in three ways: by direct calls (a memo decision calls
`productService.setStatus`), by rows another service reads later (the approval
row is written by `decide` and read by every EXECUTE step), and by the event
bus, whose `publish` stores the event and then *awaits* each subscriber, so that
the orchestrator acts inside the human's own `decide` call.

`PROJECT.json` lists every component with its sources, and under `hazards` each
place where the code can go wrong in a way a test would hardly reach.

## Modules

| Module | Models | Code it stands for |
|---|---|---|
| `ApprovalRows` | statuses, transition table, freshness test (constant level) | `domain/approval/*` |
| `ApprovalEngine` | the approval service and the generic EXECUTE gate | `approval.service.ts`, repositories, routes |
| `ApprovalLedger` | the abstract promise: requests are opened, and get one verdict | – |
| `DeploymentGate` | one product from READY_FOR_DEPLOYMENT on: planning, memo, approval, EXECUTE, rollback, orchestrator, emergency stop | `deployment*.service.ts`, `launch-*.service.ts`, `emergency-stop.service.ts`, ... |
| `OperatingCycle` | the scheduler, the control plane that does a stage's work, the human's decision, budget and emergency stop | `scheduler`, `control-plane`, `company-recommendation`, `company-budget` |
| `AgentRuntime` | executions of an agent, its model and tool calls, the Guardian, the agent registry | `agent-runtime`, `retry.ts`, `authorization`, `agent` |
| `BoundedWorker` | the abstract promise: one start, a bounded number of calls of the outside world, one end | – |
| `Outreach` | prospects, experiments, messages, the send, responses and their analysis | `prospect*`, `outreach-*`, `message-*`, `outbound-message`, `customer-response`, `response-analyst`, dev provider, rate limiter |
| `Billing` | pricing model, plan, activation, webhooks | `pricing-agent`, `billing-plan`, `billing-activation`, `billing-webhooks.routes`, `webhook-security` |
| `ProductFactory` | one product from its creation to READY_FOR_DEPLOYMENT | `product`, `product-factory`, `engineering-*`, `workspace`, the agents of the build, `product-review-memo` |
| `DecisionPipeline` | one opportunity: evidence, claims, gaps, decision cycle, recommendation, review, memo, kill | `claim-*`, `evidence-*`, `decision-*`, `opportunity`, `ceo-reasoning`, `chairman`, `investment-memo` |
| `Access` | identities, the middleware, every router's guard, the registry, grants, the audit entries | `identity`, `authenticate.ts`, `agent`, `api/routes/*` |
| `FounderDesk` | alerts, incidents, support cases, tasks, the decision queue and the attention queue | `alert`, `incident`, `support-*`, `task`, `founder-*`, `attention-scoring` |
| `Research` | signals, clusters, problems, promotion, the queue and the research cycle | `signal*`, `problem*`, `research-*`, the analysts |
| `GrowthExperiments` | experiments from proposal to result | `growth-experiment*`, `experiment-analyst` |
| `Predictions` | predictions, metrics, lessons, decision outcomes, business review memos | `prediction-outcome`, `learning`, `decision-memory`, `business-review-memo` |
| `CustomerDiscovery` | talks, findings and their evidence, the validation ladder, customer profiles and their claims, discovery experiments, discovery memos | `customer-discovery-*`, `customer-validation`, `icp-*`, `discovery-experiment`, `domain/customer-discovery/*` |
| `*Proofs` | the theorems about `ApprovalEngine`, `DeploymentGate`, `AgentRuntime`, `OperatingCycle`, `Billing`, `Company`, and the invariants of `HumanApprovals` and `Accountability` | – |
| `MCApprovalEngine`, `MCDeploymentGate`, `MCOperatingCycle`, `MCAgentRuntime` | small instances of one component for TLC | – |
| `CompanyTables` | the variables the components of `Company` use each as its own | – |
| `HumanApprovals` | `Outreach`, `DecisionPipeline` and `ProductFactory`, side by side: where a human's approval lets something irreversible happen | – |
| `Accountability` | `Access`, `GrowthExperiments`, `Predictions` and `CustomerDiscovery`, side by side: who may act, what was tried, predicted and learnt, what customers said | – |
| `Company` | the ten modules from `Outreach` to `CustomerDiscovery`, side by side; it extends `HumanApprovals` and `Accountability` | – |
| `MCCompany` | a small instance of it for TLC | – |

`DeploymentGate` is where a product of `ProductFactory` goes on, and the approval
requests of `Outreach`, `Billing`, `DecisionPipeline` and `GrowthExperiments` are
rows of `ApprovalEngine`. Those modules keep of an approval what they read of it
(what it is bound to, its status, whether it has lapsed) and take from
`ApprovalLedger` that a verdict is final; that the engine keeps this promise for
one call at a time, and not for racing ones, is what its own runs and proofs
show.

### How state and actions correspond to the code

In the four core modules a call in flight is an element of `Calls` with a program
counter `pc` and the record `local` of what it has read; `Begin(c)` is a request
that arrives and runs up to its first await, `Continue(c)` resumes it. In the
other modules both are one record, `calls[c]`, whose field `at` is the place and
`Idle` the empty one; the tables are the fields of `db`, sequences of records
whose position is the id. A guard that throws ends the call without a further
effect, and what it wrote before stays; a request refused by its first read
changes nothing and is not an action. A restart (`Crash`, `Restart`) forgets
every call in flight and what the process keeps in memory (the dev providers'
maps, the rate limiter), and nothing else. An operator `X_Y` is a mutation of
`X`: the way a plausible mistake in that code would read. No specification uses
one.

In the core modules every await is a step. In the others a call gives way at
every write, before every run of an agent, and wherever a row is read in one
statement and written in a later one; a chain of reads and checks that nothing is
written between is one step. This is the one abstraction of their interleaving:
what may come between two such reads comes before or after both.

*ApprovalEngine.* `rows`, `snapshot` and `bound` are the three places one
approval request is spread over; each is written by an await of its own
(`RequestCreate`, `RequestSnapshot`, `RequestAttach`). `decide` is `DecideRead`
(transition check), `DecideWrite` (the update by id), `DecidePublish` (the
event). `expireOverdue` lists once (`SweepList`) and expires one row per await
(`SweepExpire`). `content` is the hash of the live resource, which other code may
change at any time (`EditResource`), and `now` the clock. `announced`,
`executions` and `about` are history variables no guard reads. An EXECUTE step is
`ExecuteRead`, `ExecuteApproval`, `ExecuteFresh`, common to deployment, billing,
growth experiments and outreach.

*DeploymentGate.* `product`, `plans`, `memos`, `approvals`, `deployments`, `stops`
are the tables. The two `setStatus` methods are each a read with the transition
check (`SetProduct`, `SetPlan`) and an unconditional update (`ProductWrite`,
`PlanWrite`); the continuation is in `local.then`. Decisions made in modelling:
a read that repeats the test of the read just before it is merged with it
(`execute` reads the product's status and then `setStatus` reads it again);
`provider.deploy` and the row that records its result are one step, since nothing
the model sees can change the one without the other; a `DeploymentPlan` has no
method that edits its content, so its approval goes stale only by expiry
(`lapsed`); what the dev provider remembers is the number of the process that
deployed (`process`), because its map is in memory; the business review memo is
reduced to its effect, pausing a LIVE product; `Autonomous` says whether the
orchestrator is registered (only tests register it in this version of the code);
deferring and requeueing are left to `ApprovalEngine`.

*OperatingCycle.* `cycles` is the table of cycles (stage and status, the two axes
of state), `events` the stage events of each, `recs` the recommendations the CEO
made and whether a human has decided on them; `stopped` and `exceeded` are what
the emergency stop and the budget rollup answer. Each scheduler method is a chain
of steps: `advanceStage` is `AdvanceRead` .. `AdvanceWrite`, which stores the
status it read at the start; `runNextStage` is `Run` (the read it dispatches on),
for DECIDING the CEO and the Chairman (`RunRecs`, `RunCeo`, `RunChairman`), and
then either the steps of `advanceStage`, which read again, or of
`routeToAwaitingHuman`. `about` says whose work a completed event reports. The
stage a cycle resumes at is computed from the completed events
(`resolveResumeStage`), so it is never EXECUTING, and the emergency stop that
guards that case stays a conjunct of the step. Only `failCycle` sets FAILED, and
no route calls it; it is an operation of the model because `retryCycle` is
reachable only through it. A *profile* is the way the service is used in one
behaviour (the operations called, how many calls may overlap, the bounds); it is
chosen in `Init` and constant from then on, so that one run covers several uses.
Within the bound on reviews, the last review is of a run of the CEO that did
complete: without this the bound itself would make a cycle stuck.

*AgentRuntime.* `rows` and `toolRows` are the persisted execution and its tool
executions, `usage` the counters `run` keeps in memory, `call` the model or tool
call in progress, `pc` where `run` is. The program an agent passes to `run` is
any sequence of uses of the handle (`Program(e)`), since `run` promises what it
promises for every program; no program in the repository catches what the handle
throws, and none makes two calls at once. `Attempt` is one round of
`withBoundedRetry`. A call that exceeds `maxDurationMs` is among the throws of
`ProgramThrows`. Authorization reads the agent and then its grants, for each
permission in turn (`AuthorizeAgent`, `AuthorizeGrant`), while `Registrars`
change them. `attempts` and `seen` are history variables. A restart leaves the
row as it is: nothing sweeps executions. A write that the database refuses
(`WriteFails`) throws where it is awaited: out of `run` before the program starts,
into the catch of `run` after, and from the catch to the caller; in the block of a tool
call it reaches the catch that stores a FAILED row, beside the SUCCESS row if that one
was stored already. The audit entry of the end is a write of its own (`AuditFails`): if
it is refused after COMPLETED, the catch tries the edge to FAILED that the table does
not have, so the row stays COMPLETED and `run` throws. `MaxCrashes` bounds restarts and
refused writes together. Executions share only the registry, so
one execution in the instance loses nothing; the theorems are for any number.

*Uses.* Each of the modules below has a constant `Uses`, and a behaviour is one
of them, chosen in its `Init` and constant but for the counters: which
operations are called (`ops`), how many calls may be in flight (`load`), how many
restarts and faults may happen (`crashes` and `faults`, what is left of
`restarts` and `mishaps`), and what is in the tables at the start. `Request`,
`Step` and the like only gather the actions. What an agent answers is the answer
of the fixture provider that the repository ships, and, where a use varies it,
answers of the same schema that a model may give as well: citations of rows that
do not exist, a verdict that contradicts the scan. A run of an agent may fail
(`RunFails`, the outcome its caller handles) and its start may be refused
(`StartRefused`, `Throws`: an inactive agent, a write that fails; the caller's
call ends where it stands).

*Outreach.* `setStatus` on a prospect is `SetStatusRead` and `SetStatusWrite`, and
`calls[c].todo` the statuses a service sets one after the other. `send` is
`SendCheck` (emergency stop, budget, status, the bound approval and its
freshness, attempts, limiter), `SendProvider` and `SendRecord`; `memory` holds
the provider's answers by idempotency key and the limiter's window. `sent` counts
what really left, and remembers the approval it left under. An experiment becomes
ACTIVE by `approve`, which counts the ACTIVE ones of its opportunity, or by `setStatus`,
which does not.

*Billing.* `activate` is `ActivateCheck`, `ActivatePrice` (the dev provider),
`ActivateAccount`, `ActivateRead` and the plan's write. `events` is what the
payment provider has sent and never shrinks: any of it may arrive again, late
(outside the replay window), in any order, or never. A delivery is stored with
its verdict under a unique id, then the metric is written. Accounts on other
providers, currencies and tiers do not differ in anything checked.

*ProductFactory.* A build is one call through `specify`, `design`, `ux`, the
workspace, the decomposition into two tasks, the engineering loop with its
attempts, reviews, QA, integration tests, security, estimates, recommendation,
review and memo. Of a file, `disk` keeps whether what is in it is clean, flawed
(something the scan sees) or does not compile. The product's statuses from
READY_FOR_DEPLOYMENT on are `DeploymentGate`'s.

*DecisionPipeline.* Evidence is a source, an organisation, a tone and what a
customer said, an objection being one about paying; confidence is computed with the code's formula in hundredths
(`recalculateClaimConfidence`). A decision cycle calls the steps of a single validation for each
claim (`calls[c].op`), and both are interleaved with transitions, scores, reviews
and the application of a human's decision. `kills` records each write of KILLED
and what made it.

*Access.* `Routes` is the table of every operation of `api/routes` that changes
state with the guard in front of it; `Perform` is a request that was let through
to a handler that other modules model. The handlers of identities and agents are
here, each with its read, its write and its audit entry as separate steps.

*FounderDesk.* `raise` looks for an alert of the same type and resource within 24
hours (`withinDedupWindow`), and then bumps or creates one. `refresh` goes through the
entries of the decision queue one by one, highest score first. A day that passes
is one action, so the window is exact to the day.

*Research.* A raw result has a text, what it nearly repeats, a url, a thread and a
theme; similarity, which the code computes from word sets, is equality of `near`
and of `theme`. `IngestRead` looks up and `IngestWrite` creates, `AssignRead` to
`RecomputeWrite` place a signal in a cluster and count it, `RunCycle` takes the queue item, runs the
research agent, and turns clusters into problems and candidates into
opportunities until `withinBudget` ends it. `given` records which cycle was
handed which item. The research agent makes one tool call for each of the one to three
queries of its plan and asks its model once or, to have the form of its answer
corrected, twice. The four analysts have a budget of one model call each
(`maxModelCalls: 1`), so that the correction is refused before it is counted and fails
their run; they count one. A new signal is compared with the last
`RECENT_COMPARISON_WINDOW` signals of its source only, and placed in one of
`MAX_CLUSTERS_TO_COMPARE` clusters or a new one; which clusters were updated last is
left open.

*GrowthExperiments*, *Predictions.* As in the code, `requestApproval` moves the
status before it makes the request; `markStarted` and `markEnded` write by id. The
sweep keeps the list of what was due (`calls[c].due`) and resolves one row after
the other; a resolution and its lesson are two writes. `runs` and `resolutions`
are history variables.

*CustomerDiscovery.* A talk is with a prospect, whose organization makes two talks
one business or two; its outcome is set by a human, as often as it pleases.
`AttachFinding` to `MarkPromoted` are the five writes that make an observed finding
evidence. `Evaluate` lists the talks, then `ListForInteraction` reads the findings of
one after the other; `evaluateCustomerValidation` is the ladder itself. A profile is
what the dev fixture makes of the claims, or in a use of its own whatever a live
model may put and cite; `WireField` turns each testable field into a claim.
`RunExperiment` goes through the agents' registration, the research rounds, the
qualification, the drafts and the requests for approval; the prospects a run found
are a set, taken up in any order, of which the code's is one; what one agent does within
its run is one step here and several in `Outreach`. `said` remembers which outcome
was ever recorded for which organization, and which claims were contradicted.

*Company.* The ten modules share no variable in the code's sense (no table of
one is written by another), so the composed system is their disjoint sum: a
behaviour has a `focus`, and its variables are those of that component. One run
checks them all, and each invariant speaks of the components it names.

## What the runs check

All runs use `CHECK_DEADLOCK FALSE`: the service is idle when no request comes,
and every bound below is eventually used up.

| Run | Instance | Shows |
|---|---|---|
| `approval_serial` | one call, two resources (one hashed), two rows, two versions, restart, fairness | `AnnouncedDecisionsStand`, `VerdictsAreAnnounced`; the engine implements `ApprovalLedger` |
| `approval_concurrent` | two calls (symmetric), two rows, two versions, restart | `ExecutionsAreHumanApproved`, `ExecutionsMatchTheRequest` |
| `approval_finality` | two calls, one row | **violated**: `DecisionIsFinal` |
| `gate_serial` | one call, two plans, two approvals, three deployments, one stop, fairness | `PlansAreExecutedOnce`, `RejectedLaunchesAreNotDeployed`, `NothingGoesLiveWhileStopped`, `RollbacksTakeEffect`, `DeployingEnds` |
| `gate_concurrent` | two calls (symmetric), one plan, one approval, two deployments, one restart | `LiveDeploymentsAreHumanApproved`, `ExecutedPlansAreDeployed` |
| `gate_twice` | two calls | **violated**: `PlansAreExecutedOnce` |
| `cycle_serial` | one call, every operation; profiles with a restart and with two reviews | `WorkMatchesStage`, `SettledCyclesHoldStill`, `NothingStartsExecutingWhileStopped` |
| `cycle_racing` | two calls (symmetric); profiles: two drivers; starts with keys; failures and retries | `ExecutingWasDecided`, `CompletedCyclesDidEveryStage`, `NoCycleStartsTwice` |
| `cycle_fair` | one call, a driver and a human that keep going, fairness | `ReviewsReenterTheirStage`, `CyclesEnd` |
| `cycle_undecided` | only `start` and `advance` | **violated**: `ExecutingWasDecided` |
| `agent` | one execution, two tools (one with two permissions), two tool calls, one model call, one retry, two grants, a restart or a refused write, fairness | `ToolsRunWithPermission`, `CompletedRowsAccountForEveryCall`, `RunsEndInTheirRow`, `RunsEnd`; the runtime implements `BoundedWorker` |
| `company` | the ten modules from `Outreach` to `CustomerDiscovery`, two calls (symmetric), the uses listed in `MCCompany` | the ten properties below |

The properties of `company` join those of the modules:

| Property | What it joins | In words |
|---|---|---|
| `HumansApprovedWhatMatters` | `Outreach!SentMessagesWereApproved`, `DecisionPipeline!KillsWereDecided`, `GrowthExperiments!ExperimentsWereApproved` | what left, was killed by a decision or ran was approved by a human for just that, whichever of several racing requests was bound last |
| `ContactsAreBackedAndBounded` | `Outreach!ContactsAreBacked`, `SendsAreBounded`, `CustomerDiscovery!DiscoveryRunsStopAtTheHuman` | a response follows a contact, a contact an approval; retries and races stay within the limits on sends and drafts; a discovery run asks a human once for each draft and drops no prospect it found unless an agent failed |
| `AccountsAndRevenueAreBacked` | `Billing!AccountsAreBacked`, `EventsCountOnce` | an account was approved at a grounded price; revenue counts once per event however messages arrive |
| `ApprovedBuildsWereWholeAndShown` | `ProductFactory!ReadyProductsWereBuilt`, `KnownProblemsReachTheHuman` | what a human released was carried through every stage, and the memo showed what the scans and reviews saw |
| `ClaimsFollowTheirEvidence` | `DecisionPipeline!ClaimsFollowTheirReports`, `InterestIsNotPayment`, `CustomerDiscovery!EvidenceIsObserved`, `ValidationIsBacked`, `AssumptionsAreClaimedOnce` | claim, gap and queue item agree with the latest report; "I would like it" never supports "they will pay"; evidence from talks was observed and says whether the talk was real; a validated opportunity has two businesses behind it; each assumption of a profile is one claim |
| `CyclesKeepTheirBudget` | `DecisionPipeline!CyclesKeepTheirBudget`, `Research!CyclesKeepTheirResearchBudget` | a cycle passes a budget by at most one claim's, cluster's or problem's work, or by the calls of the search a research cycle starts with (one to three tools, one or two models), and is not stopped within it |
| `AuthorityIsHumanAndAudited` | `Access!AuthorityIsHuman`, `ChangesAreAudited` | identities, grants and the reserved routes go back to a human; each change has its entry |
| `NothingIsHiddenFromTheFounder` | `FounderDesk!AlertsAreCounted`, `QueueIsComplete` | occurrences are counted once; a waiting decision is on the queue |
| `ResearchIsBackedAndHandedOn` | `Research!ProblemsAreCorroborated`, `ContentCountsOnce`, `NothingIsLeftHalfDone`, `ItemsAreResearched` | two independent sources behind a problem; no content twice; items and gaps are handed on until done |
| `LessonsFollowOutcomes` | `GrowthExperiments!ExperimentsAreMeasured`, `Predictions!PredictionsAreNotBackdated`, `BadPredictionsAreLessons`, `MemoDecisionsTakeEffect`, `CustomerDiscovery!ApprovedMemosAreAnnounced` | results come from runs, nothing from the future, each bad prediction has its lesson, a decided memo its effect, an approved discovery memo its announcement |

Where the code gives a promise only to calls made one after the other, or to a
process that is not restarted, the property says so in its own text
(`use.load = 1`, `use.restarts = use.crashes`) and keeps for racing calls the part
that does hold: a message that two calls send at once still leaves once and with
approval. What the races do break is listed further down.

*Why these bounds are enough.* Two calls are the least with a race, and the races
the runs find are between two; a third caller matters where two of them have to
advance the row around a third one's read, as in the three racing calls of
`run-next-stage` listed further down, which the theorems leave out by `OneAtATime`.
Two approval rows let a binding be replaced while the
old row is still used. Two versions let content change once. Two plans let a
launch be reworked and leave an older plan beside the newer. Three deployment rows
allow a failed attempt, a success and a rollback. Two reviews let a cycle be
routed to a human again after a decision; three cycles are a start, the second
start of its key and one of another; the bound on events is above what the other
bounds let a cycle use. Two tool calls and one model call exhaust a budget of each
kind in either order, one retry separates the last attempt from the others, two
grants allow a permission to be granted again after it was revoked, and
`MaxSteps = 0` makes every logical step exceed its budget. In `approval_serial`
the approval expires one tick after it was made. The view of
`approval_concurrent` drops only the set of published events, which no guard
reads.

In `company` the limits of the code are small enough to be reached and passed:
two attempts to send (three in the code) and one send a minute, one draft a day for
an experiment, two attempts at a task (as in the code), budgets of one claim, one search and one or two model
calls, three signals and two tool calls, two events of the payment provider that
may arrive in any order and again, two alerts, items and decisions, a clock of
three instants around a prediction's period, values on both sides of the
quarter that makes a prediction bad, baselines, samples and changes on both sides
of the thresholds for a growth experiment, talks with two businesses, with one of
them twice and with one that has no name (the ladder's thresholds are two), and up
to three businesses for a discovery run to find, so that its target of one or two
is reached, passed within a round and missed (the limit of five rounds is never
the reason it ends). Batches of search results are chosen so
that each kind of duplicate (text, reference, near text), a signal of the same
thread, one of another theme and an empty one occur; the window of signals a new one
is compared with is two (200 in the code) and the list of clusters one (300), so that
what has left them is found again as new. A use fixes what the others
of the same module vary, so that races, failures and restarts are each explored
with the whole of the operations they can disturb, without multiplying them with
each other.

The calls are interchangeable, so their symmetry is sound for the
invariants it is used with; no run with a liveness property uses symmetry. The
theorems below do not depend on any bound.

*Fairness.* `FairSpec` assumes weak fairness of `Continue(c)` for each call, and
of `Run(e)` for each execution: the event loop resumes a call whose await has
settled, and the database, the dev providers, models and tools settle
(`fetch`, which the model provider uses, and the workspace command tool time out). Nothing is assumed of `Begin` (nobody has to
send a request), of time, of edits or of restarts, and properties that a restart
would legitimately break say so. `OperatingCycle` also assumes strong fairness of
`Drive`, `HumanDecides` and `HumanResumes`: nothing in the code drives a cycle,
so `CyclesEnd` is a statement about a company whose driver keeps asking for the
next stage and whose human keeps answering. It is strong fairness because the
single call slot of the instance may be taken, now and then, by other requests.
`company` assumes none: its properties are about what the rows say at every
moment, also half-way through a call that never goes on.

## What is proved

The proof modules are checked by TLAPS for every value of the constants that
satisfies the named assumptions of the modules (bounds and budgets are natural
numbers, the calls in flight are finitely many, the null reviewer and the sweeper
are not humans, a tool requires a sequence of permissions). The modules of
`Company` have a constant `Uses`, the ways in which the component is used; what the
theorems assume of it is `AccessConstants`, `BillingConstants`,
`DecisionConstants`, `GrowthConstants`, `FactoryConstants`, `PredictionsConstants`,
`DiscoveryConstants`, `OutreachConstants` and `ResearchConstants` (the fields are of
their types, the counters of restarts and faults start full, a task may be attempted
once at least; the prospects a behaviour starts from have sources of their own, and
an agent that is registered already is registered once). `Company`, `HumanApprovals` and
`Accountability`, which instantiate the components, assume them of their own
constants, so that TLC evaluates them for the uses it runs. `Billing`
has a proof module of its own; the lemmas about the components of
`HumanApprovals` and `Accountability` are about their instances, in
`HumanApprovalsProofs` and `AccountabilityProofs`; and
`CompanyProofs` carries them over to the properties that run checks, and holds the
lemmas about `Research`.

`TypeOK` is not inductive for the properties above, so each module has an
inductive invariant `IInv`. Where a property is not true of racing calls, as a run
or the list below shows, its theorem has the restriction as a hypothesis and not as
a part of the model:

| Hypothesis | Module | Says |
|---|---|---|
| `OneAtATime` | `ApprovalEngine`, `DeploymentGate`, `OperatingCycle` | one call is in flight at a time |
| `Uninterrupted` | `DeploymentGate`, `OperatingCycle` | no restart cuts a call in two |
| `Undirected` | `OperatingCycle` | nobody calls `POST /:id/advance`, which moves a cycle without doing the work of its stage |
| `Unforced` | `OperatingCycle` | nobody resumes by hand a cycle that waits for a human |

Each is needed: without `OneAtATime`, `gate_twice` and `approval_finality` are
violated; without `Undirected`, `cycle_undecided`; and each of the others leaves one
of the behaviours listed further down.

*Approval engine.* `IInv` adds what a call knows at each program counter: a row
it holds exists and its resource never changes, the snapshot of a row is either
missing or the hash the row was requested for (`about`), a call between
`ExecuteApproval` and `ExecuteFresh` holds a row that **was** approved by a human
when it was read. The key observation is that the reviewer read together with the
status APPROVED is always human, because the only other writer, the sweeper,
writes EXPIRED. Proved: type correctness, `ExecutionsAreHumanApproved`,
`ExecutionsMatchTheRequest` with any number of racing calls and restarts. Under
the further assumption `OneAtATime` (at most one call is in flight) also the
finality of verdicts, `AnnouncedDecisionsStand` and the refinement of
`ApprovalLedger`; without it `approval_finality` shows they are false.

*Deployment gate.* `IInv` adds that a call in `execute_deploy` carries a human
reviewer and an approval of its plan, that approvals of a plan are never rebound,
that a plan on its way to EXECUTED and a product on its way to LIVE already have
a LIVE deployment row (rows are never changed or deleted). Proved: type
correctness, `LiveDeploymentsAreHumanApproved`, `ExecutedPlansAreDeployed`,
the reality of every LIVE product (`LiveIsReal`), with any number of racing calls and restarts.

One call at a time, the product is the memory of what was done: `SerialInv` says
that at most one deployment is LIVE and the product is then DEPLOYING, LIVE or
PAUSED, from where nothing leads back to a deployment, and that a call which has
passed the check of the stop, and is about to deploy, finds neither a stop nor an
earlier deployment. Proved under `OneAtATime`, restarts included:
`PlansAreExecutedOnce` and `NothingGoesLiveWhileStopped`; with `Uninterrupted`
also `RejectedLaunchesAreNotDeployed` (the call that records a rejection is the one
that takes the product out of the launch) and `RollbacksTakeEffect` (every rollback
is of a deployment the provider still knows, and pauses the product). The
orchestrator's own EXECUTE runs inside the call of `decide`, and is covered.

*Operating cycle.* For any number of racing calls: type correctness, for which
`IInv` says what a call carries at each program counter, and that an idempotency
key is on one cycle (`OneCyclePerKey`), which the unique index alone ensures.
Everything else is said of one call at a time, along a chain of invariants of which
each contains the one before:

- `SerialInv`: the row and the event a call has in hand are as it read them, and so
  is what follows from the two (the transition, the stage to resume at, the stop).
  Proved: `SettledCyclesHoldStill`, `NothingStartsExecutingWhileStopped`.
- `HistoryInv`: a completed event reports the work of its own stage; the
  predecessor of a retry has failed, and a retry without an event yet stands after
  all that its predecessor completed. Proved: `WorkMatchesStage`,
  `NoCycleStartsTwice`.
- `DecisionInv`, with `Undirected`: what a cycle has reached or completed beyond
  the human, and what a call is about to move it to, was decided on in its lineage
  (the cycle and those it retries). Proved: `ExecutingWasDecided`.
- `StagesInv`, with `Uninterrupted`: whatever lies before the stage of a cycle is
  completed in its lineage, and that stage has its event. Proved:
  `CompletedCyclesDidEveryStage`.
- `ReviewsInv`, with `Unforced`: a cycle has completed nothing from its own stage
  on, and the stage that asked for a review is the first it has not completed.
  Proved: `ReviewsReenterTheirStage`.

*Agent runtime.* `IInv` says of an execution, at each point of its run, in which
statuses its row can be (so that every failure of the program has an edge to FAILED), by how
much the counters in memory, in the row and in `tool_executions` differ (they
meet again whenever no call is in progress), and what of the budget is spent:
`attempts <= Effort(calls)`, where each call pays for its retries in advance,
`Effort(n) = n * (maxRetries + 1)`. For the Guardian it says which permissions
have been seen granted since the call began, which no step of the registry can
take back. Proved: type correctness, `ToolsRunWithPermission`,
`RunsEndInTheirRow` (a run that returns has ended its row, and only what the database
refuses is thrown to the caller), `CompletedRowsAccountForEveryCall`, and that the runtime
implements `BoundedWorker` with the limit
`(MaxToolCalls + MaxModelCalls) * (MaxRetries + 1)`.

*Access.* `AccessInv` says what a request has been let through with: a grant, or an
identity that is not the first, is on its way to the write only for somebody whose
row of `identities` is of a HUMAN. Rows are revoked and expire, but are never deleted
and never change their type, so that this survives whatever comes between the
check and the write; the promise is about the check, as the code is. What changed
has its audit entry, or a call is at `audit` to write it, or a restart has lost it.
That the routes reserved to a human are guarded is a lemma over all 41 routers
(`RoutesGuarded`). Proved, for any number of racing calls and restarts: the types
of all rows, `AuthorityIsHumanAndAudited`, with the parts that it says only of
calls made one after the other (one first human, one active grant of a permission).

*Billing.* `IInv` has a part for each concern. `Planning`: a call that has passed
the checks of `activate` carries a request of its own plan that a human approved,
and no decision is made twice; an ACTIVE plan has an account. `Alone`: while
calls come one after the other, the plan a call opens an account for has none.
`Webhooks`: a delivery is stored under a unique id before its metric, so that an
accepted event is counted, or exactly one call is on the way to count it, or a
restart has lost that call. Proved, for any number of racing calls and whatever
the network does to the messages: the types of all rows,
`AccountsAndRevenueAreBacked`.

*Human approvals.* What outreach, decisions and experiments promise rests on one fact: a call
that is about to do what cannot be undone carries the approval row it found bound
and approved, and that row stays approved and about the same thing, because the
row's verdict is final (`ApprovalLedger`) and no operation rebinds it. It holds
whatever call comes in between, and also after a restart, which only loses calls.
Proved as `HumansApproved`, for any number of racing calls, rows and restarts.

- `OutreachInv`: messages and requests name each other, a call about a message
  carries one that is there, and one at `provider` a request of that very message
  that a human approved; so does what `history` counts.
- `DecisionInv`: a call on its way to KILLED, or to the record of a decision, carries
  a decided request; a record says what the human decided. With one call at a time
  and no crash also that a request on its way is not recorded yet, that a transition
  about to be written still is an edge from the status there is, and that every kill
  has its record or a call is at `record` to write it; so that a decision is recorded
  once and what was killed stays so.
- `FactoryInv`, for `BuildsWereWholeAndShown`: a build in a later stage carries an
  architecture of its own that no other call and no memo is about, with its screens,
  and the stage says how far it is: from `review` on it has two tasks, all COMPLETED;
  from `secure` on all are tested; at `memo` its recommendation and review are there.
  Before, at task 2, task 1 is COMPLETED, and a task that is not has attempts left:
  this is why a build never reaches its reviews with a task given up, whatever
  answers, faults and refusals its runs met. A product that is READY_FOR_DEPLOYMENT
  has a verdict APPROVE, and each memo is about an architecture that was built to the
  end and whose tasks no build carries any more. With one call at a time also that nothing is scanned before a
  build has left `integrate`, so that no file changes after a scan.
- `GrowthInv`: a call at `start` carries an approved request of its experiment, and
  an experiment that is RUNNING or COMPLETED has run. With one call at a time also
  that the status a call read still stands, that an experiment has one request and
  none while it is DRAFT or ANALYZED; so that it runs once, and never if a human
  rejected it.

*Lessons.* `LessonsFollow`, for any number of racing calls, rows and restarts:

- `MeasuredInv`, on top of `GrowthInv`: an experiment that is COMPLETED, or a call
  on its way there, has a run of its own and a result; with one call at a time and
  no restart also that one that waits for a human has a request, or a call is
  about to make it.
- `PredictionsInv`: whatever a call is about to write as a prediction's value is
  that of a metric of its type, recorded between the end of its period and now, so
  that no step of the clock or of another sweep makes it one of the future. With
  no restart the lessons of a prediction, and the calls on their way to write one,
  are as many as the resolutions that were off the mark; the counting is of finite
  sets, over which one step adds or moves one element. A memo that was approved to
  kill or pause has paused the product, or a call is on its way to.
- `DiscoveryInv`, with one call at a time: a discovery memo is decided once, and an
  approved one is announced, or a call is at `announce`, or a restart has lost it.

*Contacts.* `ContactsHold`, for any number of racing calls, rows, faults and restarts:

- `ContactsInv`, for `Outreach`: whatever status a call has still to write for a
  prospect is backed already, by a message that was contacted or by an answer to one,
  and what is on record stays; a call at `contactWrite` carries a message that has an
  approved request. Two calls can both see room for one more attempt, so the limit on
  attempts is not inductive: what is, is that the attempts stored and the calls that
  are sending are together at most `MaxSendAttempts + load - 1`, as a call begins to
  send only if the stored ones are below the limit and the other calls are fewer than
  `load`. That a message leaves once, or once more for each restart, rests on what the
  provider remembers: after a first `SENT` only a restart makes it forget. With one
  call at a time also that a call has checked the limit of its day or experiment just
  now, and that one at `provider` sends what was not sent.
- `RunsInv`, for the runs of a discovery experiment: what two runs found is disjoint,
  and a run has had at most as many rounds as it found prospects and as its target
  says. A prospect still ahead in its run has no message, and a message at `request`
  no request, so that each is drafted for once and a human is asked once. While no
  agent has failed and the experiment has not been ended, each prospect that was found
  is left alone, has been put to a human, or is still ahead in its run: this is why
  none is dropped.

*Budgets of cycles.* `CyclesKeepBudgets`, for any number of cycles that run at the
same time, faults and restarts:

- `DecisionBudgetInv`, for decision cycles: a cycle looks at its budgets before each
  claim and nowhere else, so what is inductive is how far past them a call can be at
  each of its places: not at all while a claim's validation has still to answer, by
  that one claim and model call from there on. Searches are never past theirs, since
  each validation is allowed what is left. A row has the counts its call ended with.
- `ResearchBudgetInv`, for research cycles, the same place by place: within its budget
  before a cluster is read or a problem analysed, and then by one model call for each
  of the agents it asks; the search before them has made at most three tool calls and
  asked its model twice, whatever the budget is. That a stopped cycle had used up its budget or its time is
  shown of the call first: once it is stopped it counts nothing more. It is carried to
  the row because every cycle that runs has a row of its own, which no other call
  writes, and whose counts are the call's when its status is written.

Only model-checked: the liveness properties `VerdictsAreAnnounced`,
`DeployingEnds`, `CyclesEnd` and `RunsEnd` (fairness and ENABLED are out of the
prover's reach), and of `company` its types and the three properties `ClaimsFollowTheirEvidence`,
`ResearchIsBackedAndHandedOn` and `NothingIsHiddenFromTheFounder`. Of these, the last compares a
sum over a table with a counter, which takes an induction over data that the prover
does not have; the others are next in the plan.

## Where code and documentation disagree

Three runs show the code doing what a comment, a test or a document says it does
not; `PROJECT.json` quotes the lines.

- `approval_finality`: a verdict is overwritten by a second decision or by the
  sweep, both of which update by id after a check on an older read.
- `gate_twice`: two EXECUTE calls of one plan both deploy it.
- `cycle_undecided`: two calls of `POST /:id/advance` take a cycle from DECIDING
  through AWAITING_HUMAN into EXECUTING with no decision.

While the models were built the following was met as well. No run of its own
keeps it; where a property is named it holds only in the restricted form or
instance of its run.

*Deployment, cycles, runtime*

- A throw or a restart after `provider.deploy` leaves the product in DEPLOYING,
  which no operation leaves (`DeployingEnds`, checked without restarts).
- A failed rollback is remembered like one that worked and blocks later ones
  (`RollbacksTakeEffect`, checked without restarts).
- A launch whose rejection was recorded just before a restart can still be
  deployed (`RejectedLaunchesAreNotDeployed`, likewise).
- Three racing calls of `run-next-stage`, or two and a `resume`, take a cycle into
  EXECUTING with no decision as well. Two such calls alone do not:
  `ExecutingWasDecided` holds in `cycle_racing`, and its theorem is for one at a time.
- A review requested from EXECUTING leaves the cycle in stage AWAITING_HUMAN with
  status RUNNING; from CREATED, or in a retry, it returns to another stage than
  the one that asked (`ReviewsReenterTheirStage`, `CyclesEnd` exempt these).
- A retry of a cycle that is itself a retry restarts at CREATED when its
  predecessor completed no stage of its own.
- An advance in flight writes RUNNING over a pause or a cancel that came in
  between (`SettledCyclesHoldStill`: one call at a time), and two advances
  complete a stage whose work was not done, or rewrite its event
  (`WorkMatchesStage`, likewise).
- The comment at `agent-runtime.service.ts:31` calls `maxRetries` the "total
  retryable-failure retries allowed across the whole execution"; the code allows
  them for each call, and the limit of `BoundedWorker` is the product. The retries
  of a call that failed for good are never stored.
- The audit entry of a COMPLETED execution, if refused, makes `run` throw an illegal
  transition although the row says COMPLETED; a tool call whose SUCCESS row was stored
  and whose counters were not has a FAILED row as well (`RunsEndInTheirRow` and
  `CompletedRowsAccountForEveryCall` say what holds then).

*Access and the desk*

- Two racing grants of one permission make two active rows, of which a revocation
  takes one; two racing bootstraps make two first humans
  (`AuthorityIsHumanAndAudited`: one call at a time).
- The comment at `agent.service.ts:82` reserves a change of an agent's status to
  the Human Owner; `transitionStatus` does not ask for one and its route only for
  an identity, so an agent can reactivate itself. An agent that is suspended or
  retired still authenticates.
- The audit entry is a write of its own, which a restart loses.
- An acknowledged alert swallows new occurrences for 24 hours. One attention item
  stands for all decisions of a source on a resource and keeps its first score: a
  RED decision may wait behind a GREEN item. Decisions without a resource never
  reach the queue.
- A task's terminal status is overwritten by a racing write.

*Outreach and billing*

- The comment at `outreach-experiment.service.ts:98` says never an unbounded number of
  ACTIVE experiments of an opportunity, and `outreach-limits.ts:5` that its limits are
  checked before, never after. Only `approve` looks at that limit:
  `POST /outreach-experiments/:id/status` takes an experiment from PENDING_APPROVAL to
  ACTIVE without it (the route asks for a human, the service method for nobody), and two
  racing `approve` calls pass it too. `SendsAreBounded` therefore says nothing of it.
- `contact-policy.ts` says no prospect reaches APPROVED_TO_CONTACT without an
  approved policy; nothing looks at it, and `send` does not look at the prospect
  again.
- A FAILED answer of the dev provider is replayed for ever. A restart between the
  delivery and `markContacted` leaves a message that went out uncontacted for
  good; one before the delivery is stored sends it again.
- The webhook's delivery id is stored before its verdict: a delivery that came
  late is recorded invalid and its repetition refused, and a crash before the
  metric loses the revenue.
- A decision applied late moves an ACTIVE plan back to HUMAN_APPROVED, and two
  accounts may be opened for a plan in a race or after a restart.

*Factory and decisions*

- REQUEST_CHANGES moves a product to BUILDING, which its comment calls the one
  legitimate path back, but no operation resumes a build; DEFER leaves it in
  HUMAN_REVIEW; a decision whose second write a crash lost is lost for good.
- A refused start leaves a task IN_PROGRESS and a decision or research cycle
  RUNNING for ever; failed review, QA and security runs are not looked at.
- KILLED can be set by any identity through `POST /opportunities/:id/status`; a
  transition in flight revives a killed opportunity; a crash between KILLED and
  the record makes the record impossible to write, and two racing applications
  write two. The decision is attributed to the latest recommendation, review and
  memo at the time it is applied.
- INTEREST evidence supports WILLINGNESS_TO_PAY between its attachment and its
  wrapping, and for good if the process crashed there. Items known *not* to be
  independent get the same credit as independent ones. `maxClaims` is compared
  with `<=`, so one more claim is validated.
- A crash in the middle of claim extraction leaves a partial set that is taken for
  complete.

*Research, growth, predictions*

- A research cycle with a budget of one tool call makes up to three: the budget is
  looked at only after the search (`CyclesKeepTheirResearchBudget` allows for it).
  A signal that nearly repeats one from before the window is taken for new
  (`ContentCountsOnce`).
- The validation search promotes REJECTED (empty) signals to evidence: its filter
  is only on DUPLICATE. What it, or `POST /research`, found first is never
  clustered, and its rediscovery is a duplicate. A repost of a rejected signal is
  a duplicate too.
- A crash, a refused start or a throw leaves the queue item IN_PROGRESS, the cycle
  RUNNING and signals PROCESSED; nothing sweeps them, and the edges and services
  that could return them have no caller. Of two cycles on one item the second
  `markDone` throws and its totals are lost.
- `growthExperimentService.requestApproval` says it mirrors the deployment plan's,
  which makes the request before it moves the status; here an unknown agent, a
  crash or an expiry leaves AWAITING_APPROVAL for good. A late `approveToRun`
  restarts an ended experiment. A baseline of 0 makes every lift a change of 0,
  recorded as negative.
- `resolve` does not look whether a prediction is resolved: a second resolution
  overwrites it and draws a second lesson; a crash before the lesson loses it. The
  sweep takes metrics of any origin, where its comment says "never a fabricated
  number". A crash between a memo's decision and the pause leaves a killed product
  LIVE.

*Customer discovery*

- The worked example of `docs/CUSTOMER_DISCOVERY_VALIDATION.md` answers `STRONG`
  where the ladder, also as the same document states it, gives `BUILD_CANDIDATE`.
- The document says nothing is ever concluded without a citable row behind it. The
  ladder counts findings, not evidence: after a restart between the two, or with a
  strength that is none, which is looked at after the finding is stored, an answer
  rests on a finding without evidence, and a retry stores the finding again
  (`EvidenceIsObserved` exempts these).
- The ladder does not look at the reality label: simulated talks validate an
  opportunity like real ones.
- An evaluation reads outcomes first and findings one talk after the other: one
  that races a correction answers from an outcome that no longer stands
  (`ValidationIsBacked` compares with what was ever recorded).
- A customer profile made after its assumption was contradicted claims the same
  text anew (`AssumptionsAreClaimedOnce` exempts it); two racing profiles claim it
  twice.
- A prospect found by a discovery run that failed or was restarted is known, and
  therefore never found again: no later run qualifies or drafts for it. A request
  for approval that failed leaves its draft without one for good.

The properties that hold only for one call at a time would hold without that
restriction if the repositories updated on condition (`WHERE id AND status`).

## Not modelled, and the plan

Not modelled: prompts, fixtures' texts and the parsing of model output; read-only
reporting, calibration and decision quality (they compute from rows and store
nothing another step reads); validation of request bodies and serialisation;
research sources and workspace tools (I/O against the file system and public
APIs, seen only by what they answer); the scripts under `scripts/`, which call
the services modelled here one after the other; the discovery-experiment
proposals and the texts of pricing, go-to-market and discovery memos, which no
guard reads; the arithmetic of the spend rollup, of which only the verdict
matters to a cycle; the concurrency check, which adds an alert and a sentence to a
recommendation. Liveness of the ten modules of `company` is not stated: every
wait in them is for a person or for a driver nobody schedules, and the calls
themselves have no loop but over finite lists.

Next, in this order:

1. Theorems about the other properties of `company`: `ClaimsFollowTheirEvidence`,
   which goes on from the invariants there are, then `ResearchIsBackedAndHandedOn`.
2. Pure algorithms against reference definitions: confidence, evidence quality,
   freshness policies, opportunity scoring.
3. `DeploymentGate` and `ProductFactory` over one product, and the approval engine
   in place of the ledger in one of the modules that rely on it.
