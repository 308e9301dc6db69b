--------------------------- MODULE DeploymentGate ---------------------------
(***************************************************************************)
(* The launch gate of one Product: planning a launch (launch-operations),  *)
(* the review memo, the RED-tier approval of a DeploymentPlan, the EXECUTE *)
(* step and its rollback (deployment, deployment-plan), the orchestrator   *)
(* that executes an approved plan by itself (autonomous-operations) and    *)
(* the emergency stop.                                                     *)
(*                                                                         *)
(* As in ApprovalEngine, an action is the code between two awaits of a     *)
(* call in Calls, tables are durable and a crash loses what is in flight.  *)
(* A read that only repeats the test of the read before it is merged with  *)
(* it. A DeploymentPlan is immutable, so its approved and current hashes   *)
(* are equal and an approval of a plan goes stale only by expiring.        *)
(***************************************************************************)
EXTENDS ApprovalRows, Integers, FiniteSets

CONSTANTS
  Calls,           \* the calls that may be in flight at the same time
  Humans,          \* identities of type HUMAN
  NoOne,           \* the null reviewer
  Sweeper,         \* "system:expiry-sweep"
  Decisions,       \* the decisions humans make on approvals of plans
  Autonomous,      \* is the orchestrator subscribed to the event bus?
  MaxPlans,        \* bound: planning passes that produce a plan
  MaxApprovals,    \* bound: approval rows ever created
  MaxDeployments,  \* bound: deployment and rollback rows ever created
  MaxStops,        \* bound: emergency stops ever activated
  MaxCrashes       \* bound: process restarts

ASSUME ReviewersAssumption == NoOne \notin Humans /\ Sweeper \notin Humans
ASSUME DecisionsAssumption == Decisions \subseteq RouteDecision /\ Autonomous \in BOOLEAN
ASSUME BoundsAssumption ==
  /\ MaxPlans \in Nat \ {0}
  /\ MaxApprovals \in Nat \ {0}
  /\ MaxDeployments \in Nat \ {0}
  /\ MaxStops \in Nat
  /\ MaxCrashes \in Nat

Plans       == 1 .. MaxPlans
Approvals   == 1 .. MaxApprovals
Deployments == 1 .. MaxDeployments
Stops       == 1 .. MaxStops
Null        == 0                        \* a null foreign key

(* The product lifecycle from READY_FOR_DEPLOYMENT on.                     *)
ProductStatus ==
  {"READY_FOR_DEPLOYMENT", "LAUNCH_PLANNING", "AWAITING_LAUNCH_APPROVAL", "DEPLOYING",
   "LIVE", "PAUSED", "FAILED", "ARCHIVED"}

ProductTransitions ==
  [s \in ProductStatus |->
     CASE s = "READY_FOR_DEPLOYMENT"     -> {"LAUNCH_PLANNING", "ARCHIVED"}
       [] s = "LAUNCH_PLANNING"          -> {"AWAITING_LAUNCH_APPROVAL", "FAILED"}
       [] s = "AWAITING_LAUNCH_APPROVAL" -> {"DEPLOYING", "LAUNCH_PLANNING", "FAILED"}
       [] s = "DEPLOYING"                -> {"LIVE", "AWAITING_LAUNCH_APPROVAL"}
       [] s = "LIVE"                     -> {"PAUSED", "ARCHIVED"}
       [] s = "PAUSED"                   -> {"LIVE", "ARCHIVED"}
       [] s = "FAILED"                   -> {"ARCHIVED"}
       [] OTHER                          -> {}]

PlanStatus == {"DRAFT", "PENDING_APPROVAL", "HUMAN_APPROVED", "EXECUTED", "REJECTED"}

PlanTransitions ==
  [s \in PlanStatus |->
     CASE s = "DRAFT"            -> {"PENDING_APPROVAL"}
       [] s = "PENDING_APPROVAL" -> {"HUMAN_APPROVED", "REJECTED"}
       [] s = "HUMAN_APPROVED"   -> {"EXECUTED"}
       [] OTHER                  -> {}]

(* The human's decision on a launch review memo, and what it makes of the  *)
(* product; APPROVE and DEFER leave it alone.                              *)
MemoDecision == {"APPROVE", "REQUEST_CHANGES", "REJECT", "DEFER"}

VARIABLES
  product,      \* Product.status
  plans,        \* deployment_plans: status and approvalRequestId
  memos,        \* launch_review_memos, one for each plan that was reviewed
  approvals,    \* approval_requests: status, resourceId, reviewedBy
  lapsed,       \* the approvals whose expiresAt has passed
  deployments,  \* deployments: EXECUTE attempts and rollbacks
  stops,        \* emergency_stops: "none", "active" or "resumed"
  pc,           \* where each call is
  local,        \* what each call has read so far
  crashes       \* restarts so far: the number of the running process

tables == <<product, plans, memos, approvals, lapsed, deployments, stops>>
vars == <<tables, pc, local, crashes>>

AbsentPlan == [status |-> "ABSENT", approval |-> Null]
AbsentApproval == [status |-> "ABSENT", plan |-> Null, reviewedBy |-> NoOne]
AbsentDeployment ==
  [status |-> "ABSENT", plan |-> Null, of |-> Null, process |-> 0, approval |-> Null, by |-> NoOne]
Nothing ==
  [plan |-> Null, approval |-> Null, row |-> Null, decision |-> "none", reviewer |-> NoOne,
   to |-> "none", then |-> "idle", swept |-> {}]

(* Rows get the next id of their table.                                    *)
IsNext(table, i) == table[i].status = "ABSENT" /\ \A j \in 1 .. (i - 1) : table[j].status # "ABSENT"

Step(c, from, to, read) ==
  /\ pc[c] = from
  /\ pc' = [pc EXCEPT ![c] = to]
  /\ local' = [local EXCEPT ![c] = IF to = "idle" THEN Nothing ELSE read]

Return(c, from) == Step(c, from, "idle", Nothing)

(* A step that only reads: it goes on to to with what it has read if ok    *)
(* holds, and throws or returns otherwise.                                 *)
ReadStep(c, from, ok, to, read) ==
  /\ Step(c, from, IF ok THEN to ELSE "idle", read)
  /\ UNCHANGED <<tables, crashes>>

(* The bound on deployment rows: a call that will write one reserves it.   *)
Room ==
  Cardinality({c \in Calls : pc[c] \in {"execute_deploy", "rollback_row"} \/ local[c].then = "execute_deploy"})
    < Cardinality({d \in Deployments : deployments[d].status = "ABSENT"})

StopActive == \E s \in Stops : stops[s] = "active"

-----------------------------------------------------------------------------
(* productService.setStatus and deploymentPlanService.setStatus: read the  *)
(* row and check the edge, then UPDATE by id whatever the row holds.       *)

ProductMay(status) == status \in ProductTransitions[product]

SetProduct(c, from, status, then) ==
  ReadStep(c, from, ProductMay(status), "product_write",
           [local[c] EXCEPT !.to = status, !.then = then])

ProductWrite(c) ==
  /\ Step(c, "product_write", local[c].then, local[c])
  /\ product' = local[c].to
  /\ UNCHANGED <<plans, memos, approvals, lapsed, deployments, stops, crashes>>

PlanMay(p, status) == plans[p].status \in PlanStatus /\ status \in PlanTransitions[plans[p].status]

SetPlan(c, from, status, then) ==
  ReadStep(c, from, PlanMay(local[c].plan, status), "plan_write",
           [local[c] EXCEPT !.to = status, !.then = then])

PlanWrite(c) ==
  /\ Step(c, "plan_write", local[c].then, local[c])
  /\ plans' = [plans EXCEPT ![local[c].plan] = [@ EXCEPT !.status = local[c].to]]
  /\ UNCHANGED <<product, memos, approvals, lapsed, deployments, stops, crashes>>

-----------------------------------------------------------------------------
(* planLaunch: the product enters LAUNCH_PLANNING, the strategist writes a *)
(* DRAFT plan, further agents run, a memo is compiled and the product      *)
(* waits for the launch approval. An agent that does not complete fails    *)
(* the launch.                                                             *)

PlansLaunch == product \in {"READY_FOR_DEPLOYMENT", "LAUNCH_PLANNING"}

LaunchBegin(c) ==
  /\ PlansLaunch
  /\ IF product = "READY_FOR_DEPLOYMENT"
     THEN SetProduct(c, "idle", "LAUNCH_PLANNING", "launch_strategist")
     ELSE ReadStep(c, "idle", TRUE, "launch_strategist", Nothing)

LaunchStrategist(c) == ReadStep(c, "launch_strategist", PlansLaunch, "launch_plan", Nothing)

LaunchPlan(c) ==
  \E p \in Plans :
    /\ IsNext(plans, p)
    /\ Step(c, "launch_plan", "launch_memo", [Nothing EXCEPT !.plan = p])
    /\ plans' = [plans EXCEPT ![p] = [status |-> "DRAFT", approval |-> Null]]
    /\ UNCHANGED <<product, memos, approvals, lapsed, deployments, stops, crashes>>

LaunchMemo(c) ==
  /\ Step(c, "launch_memo", "launch_done", Nothing)
  /\ memos' = [memos EXCEPT ![local[c].plan] = "undecided"]
  /\ UNCHANGED <<product, plans, approvals, lapsed, deployments, stops, crashes>>

LaunchDone(c) == SetProduct(c, "launch_done", "AWAITING_LAUNCH_APPROVAL", "idle")

LaunchFail(c) == \E from \in {"launch_plan", "launch_memo"} : SetProduct(c, from, "FAILED", "idle")

-----------------------------------------------------------------------------
(* recordHumanDecision on a launch review memo: the decision is recorded,  *)
(* then the product is moved.                                              *)

MemoRead(c, p, d) ==
  /\ memos[p] = "undecided"
  /\ ReadStep(c, "idle", TRUE, "memo_write", [Nothing EXCEPT !.plan = p, !.decision = d])

MemoWrite(c) ==
  /\ Step(c, "memo_write", IF local[c].decision \in {"REJECT", "REQUEST_CHANGES"} THEN "memo_product" ELSE "idle",
          local[c])
  /\ memos' = [memos EXCEPT ![local[c].plan] = local[c].decision]
  /\ UNCHANGED <<product, plans, approvals, lapsed, deployments, stops, crashes>>

(* Mutation of MemoProduct: a rejected launch is reworked like any other.  *)
MemoProduct_Rework(c) == SetProduct(c, "memo_product", "LAUNCH_PLANNING", "idle")

MemoProduct(c) ==
  SetProduct(c, "memo_product", IF local[c].decision = "REJECT" THEN "FAILED" ELSE "LAUNCH_PLANNING", "idle")

-----------------------------------------------------------------------------
(* deploymentPlanService.requestApproval: a DRAFT plan gets an approval    *)
(* row, and the attach makes it PENDING_APPROVAL.                          *)

RequestRead(c, p) ==
  /\ plans[p].status = "DRAFT"
  /\ ReadStep(c, "idle", TRUE, "request_create", [Nothing EXCEPT !.plan = p])

RequestCreate(c) ==
  \E a \in Approvals :
    /\ IsNext(approvals, a)
    /\ Step(c, "request_create", "request_attach", [local[c] EXCEPT !.approval = a])
    /\ approvals' = [approvals EXCEPT ![a] =
                       [status |-> "PENDING", plan |-> local[c].plan, reviewedBy |-> NoOne]]
    /\ UNCHANGED <<product, plans, memos, lapsed, deployments, stops, crashes>>

RequestAttach(c) ==
  /\ Return(c, "request_attach")
  /\ plans' = [plans EXCEPT ![local[c].plan] =
                 [status |-> "PENDING_APPROVAL", approval |-> local[c].approval]]
  /\ UNCHANGED <<product, memos, approvals, lapsed, deployments, stops, crashes>>

-----------------------------------------------------------------------------
(* approvalService.decide on the approval of a plan. publish awaits its    *)
(* subscribers, so that the orchestrator applies the decision and executes *)
(* the plan before the decide call returns.                                *)

(* Mutation of Resolved: who reviewed is not stored.                       *)
Resolved_NoReviewer(a, status, by) ==
  [approvals EXCEPT ![a] = [@ EXCEPT !.status = status]]

Resolved(a, status, by) ==
  [approvals EXCEPT ![a] = [@ EXCEPT !.status = status, !.reviewedBy = by]]

DecideRead(c, a, h, d) ==
  /\ approvals[a].status # "ABSENT"
  /\ CanTransition(approvals[a].status, d)
  /\ ReadStep(c, "idle", TRUE, "decide_write",
              [Nothing EXCEPT !.approval = a, !.decision = d, !.reviewer = h])

DecideWrite(c) ==
  /\ Step(c, "decide_write", IF Autonomous THEN "apply_approval" ELSE "idle",
          [Nothing EXCEPT !.approval = local[c].approval, !.then = "execute_stop"])
  /\ approvals' = Resolved(local[c].approval, local[c].decision, local[c].reviewer)
  /\ UNCHANGED <<product, plans, memos, lapsed, deployments, stops, crashes>>

(* applyDecision: the plan takes the verdict of the approval. Called by a  *)
(* human through its route or, with then = "execute_stop", by the          *)
(* orchestrator, who goes on to execute a HUMAN_APPROVED plan.             *)

(* Mutation of Verdict: the status of the approval is copied as it is.     *)
Verdict_Copied(a) == approvals[a].status
Verdict(a) == IF approvals[a].status = "APPROVED" THEN "HUMAN_APPROVED" ELSE "REJECTED"

ApplyRead(c, from, a, then) ==
  ReadStep(c, from, approvals[a].status \in {"APPROVED", "REJECTED"}, "apply_plan",
           [Nothing EXCEPT !.plan = approvals[a].plan, !.to = Verdict(a), !.then = then])

ApplyBegin(c, a) == approvals[a].status # "ABSENT" /\ ApplyRead(c, "idle", a, "idle")
ApplyApproval(c) == ApplyRead(c, "apply_approval", local[c].approval, local[c].then)

(* An already applied decision is returned as it is.                       *)
ApplyPlan(c) ==
  LET status == plans[local[c].plan].status
      applied == status \in {"HUMAN_APPROVED", "REJECTED", "EXECUTED"}
  IN  ReadStep(c, "apply_plan", applied => status = "HUMAN_APPROVED",
               IF applied THEN local[c].then ELSE "apply_set", local[c])

ApplySet(c) ==
  SetPlan(c, "apply_set", local[c].to, IF local[c].to = "HUMAN_APPROVED" THEN local[c].then ELSE "idle")

-----------------------------------------------------------------------------
(* deploymentService.execute.                                              *)

ExecuteBegin(c, p) ==
  /\ plans[p].status # "ABSENT"
  /\ ReadStep(c, "idle", ~StopActive, "execute_plan", [Nothing EXCEPT !.plan = p])

(* Mutation of ExecuteStop: the orchestrator does not look at the stop.    *)
ExecuteStop_Ignored(c) ==
  ReadStep(c, "execute_stop", TRUE, "execute_plan", [Nothing EXCEPT !.plan = local[c].plan])

ExecuteStop(c) ==
  ReadStep(c, "execute_stop", ~StopActive, "execute_plan", [Nothing EXCEPT !.plan = local[c].plan])

ExecutePlan(c) ==
  LET plan == plans[local[c].plan] IN
  ReadStep(c, "execute_plan", plan.status = "HUMAN_APPROVED" /\ plan.approval # Null, "execute_approval",
           [local[c] EXCEPT !.approval = plan.approval])

ApprovedFor(a, p) == approvals[a].status = "APPROVED" /\ approvals[a].plan = p

ExecuteApproval(c) ==
  ReadStep(c, "execute_approval", ApprovedFor(local[c].approval, local[c].plan), "execute_fresh",
           [local[c] EXCEPT !.reviewer = approvals[local[c].approval].reviewedBy])

ExecuteFresh(c) == ReadStep(c, "execute_fresh", local[c].approval \notin lapsed, "execute_product", local[c])

ExecuteProduct(c) == Room /\ SetProduct(c, "execute_product", "DEPLOYING", "execute_deploy")

(* Mutation of ExecuteDeploy: the two outcomes are swapped.                *)
ExecuteDeploy_Swapped(c) ==
  \E d \in Deployments, result \in {"LIVE", "FAILED"} :
    /\ IsNext(deployments, d)
    /\ Step(c, "execute_deploy", IF result = "FAILED" THEN "execute_executed" ELSE "execute_revert", local[c])
    /\ deployments' = [deployments EXCEPT ![d] =
         [status |-> result, plan |-> local[c].plan, of |-> Null, process |-> crashes,
          approval |-> local[c].approval, by |-> local[c].reviewer]]
    /\ UNCHANGED <<product, plans, memos, approvals, lapsed, stops, crashes>>

(* provider.deploy (a port: it succeeds or fails) and the row that records *)
(* the attempt. Nothing the model sees changes between the two.            *)
ExecuteDeploy(c) ==
  \E d \in Deployments, result \in {"LIVE", "FAILED"} :
    /\ IsNext(deployments, d)
    /\ Step(c, "execute_deploy", IF result = "LIVE" THEN "execute_executed" ELSE "execute_revert", local[c])
    /\ deployments' = [deployments EXCEPT ![d] =
         [status |-> result, plan |-> local[c].plan, of |-> Null, process |-> crashes,
          approval |-> local[c].approval, by |-> local[c].reviewer]]
    /\ UNCHANGED <<product, plans, memos, approvals, lapsed, stops, crashes>>

ExecuteExecuted(c) == SetPlan(c, "execute_executed", "EXECUTED", "execute_live")
ExecuteLive(c) == SetProduct(c, "execute_live", "LIVE", "idle")

(* Mutation of ExecuteRevert: a failed attempt leaves the product alone.   *)
ExecuteRevert_Skipped(c) == ReadStep(c, "execute_revert", FALSE, "idle", Nothing)
ExecuteRevert(c) == SetProduct(c, "execute_revert", "AWAITING_LAUNCH_APPROVAL", "idle")

-----------------------------------------------------------------------------
(* deploymentService.rollback. The dev provider knows only what the        *)
(* running process has deployed.                                           *)

RolledBackBy(d) == {r \in Deployments : deployments[r].of = d}

RollbackRead(c, d) ==
  /\ deployments[d].status = "LIVE"
  /\ RolledBackBy(d) = {}
  /\ Room
  /\ ReadStep(c, "idle", TRUE, "rollback_row", [Nothing EXCEPT !.row = d, !.plan = deployments[d].plan])

(* Mutation of RollbackRow: a rollback that worked is recorded as failed.  *)
RollbackRow_Inverted(c) ==
  \E r \in Deployments :
    LET known == deployments[local[c].row].process = crashes IN
    /\ IsNext(deployments, r)
    /\ Step(c, "rollback_row", IF known THEN "rollback_pause" ELSE "idle", local[c])
    /\ deployments' = [deployments EXCEPT ![r] =
         [status |-> IF known THEN "FAILED" ELSE "ROLLED_BACK", plan |-> local[c].plan, of |-> local[c].row,
          process |-> crashes, approval |-> Null, by |-> NoOne]]
    /\ UNCHANGED <<product, plans, memos, approvals, lapsed, stops, crashes>>

RollbackRow(c) ==
  \E r \in Deployments :
    LET known == deployments[local[c].row].process = crashes IN
    /\ IsNext(deployments, r)
    /\ Step(c, "rollback_row", IF known THEN "rollback_pause" ELSE "idle", local[c])
    /\ deployments' = [deployments EXCEPT ![r] =
         [status |-> IF known THEN "ROLLED_BACK" ELSE "FAILED", plan |-> local[c].plan, of |-> local[c].row,
          process |-> crashes, approval |-> Null, by |-> NoOne]]
    /\ UNCHANGED <<product, plans, memos, approvals, lapsed, stops, crashes>>

(* Mutation of RollbackPause: the product is not told.                     *)
RollbackPause_Skipped(c) == ReadStep(c, "rollback_pause", FALSE, "idle", Nothing)
RollbackPause(c) == SetProduct(c, "rollback_pause", "PAUSED", "idle")

(* A business review memo that recommends a kill pauses a LIVE product.    *)
PauseProduct(c) == product = "LIVE" /\ SetProduct(c, "idle", "PAUSED", "idle")

-----------------------------------------------------------------------------
(* emergencyStopService.activate and .resume: find the latest active row,  *)
(* then create one or resume the one that was found.                       *)

ActivateRead(c) ==
  /\ ~StopActive
  /\ \E s \in Stops : stops[s] = "none"
  /\ ReadStep(c, "idle", TRUE, "stop_create", Nothing)

StopCreate(c) ==
  \E s \in Stops :
    /\ stops[s] = "none" /\ \A t \in 1 .. (s - 1) : stops[t] # "none"
    /\ Return(c, "stop_create")
    /\ stops' = [stops EXCEPT ![s] = "active"]
    /\ UNCHANGED <<product, plans, memos, approvals, lapsed, deployments, crashes>>

ResumeRead(c) ==
  \E s \in Stops :
    /\ stops[s] = "active" /\ \A t \in Stops : stops[t] = "active" => t <= s
    /\ ReadStep(c, "idle", TRUE, "stop_resume", [Nothing EXCEPT !.row = s])

StopResume(c) ==
  /\ Return(c, "stop_resume")
  /\ stops' = [stops EXCEPT ![local[c].row] = "resumed"]
  /\ UNCHANGED <<product, plans, memos, approvals, lapsed, deployments, crashes>>

-----------------------------------------------------------------------------
(* expireOverdue, the passing of time and a restart.                       *)

Overdues == {a \in lapsed : approvals[a].status = "PENDING"}

SweepList(c) ==
  /\ Overdues # {}
  /\ ReadStep(c, "idle", TRUE, "sweep", [Nothing EXCEPT !.swept = Overdues])

SweepExpire(c) ==
  \E a \in local[c].swept :
    /\ \A b \in local[c].swept : a <= b
    /\ Step(c, "sweep", IF local[c].swept = {a} THEN "idle" ELSE "sweep", [local[c] EXCEPT !.swept = @ \ {a}])
    /\ approvals' = Resolved(a, "EXPIRED", Sweeper)
    /\ UNCHANGED <<product, plans, memos, lapsed, deployments, stops, crashes>>

(* Approvals get the same period, so they lapse in the order of creation.  *)
Lapse(a) ==
  /\ approvals[a].status # "ABSENT" /\ a \notin lapsed
  /\ 1 .. (a - 1) \subseteq lapsed
  /\ lapsed' = lapsed \cup {a}
  /\ UNCHANGED <<product, plans, memos, approvals, deployments, stops, pc, local, crashes>>

Crash ==
  /\ crashes < MaxCrashes
  /\ crashes' = crashes + 1
  /\ pc' = [c \in Calls |-> "idle"]
  /\ local' = [c \in Calls |-> Nothing]
  /\ UNCHANGED tables

-----------------------------------------------------------------------------
Init ==
  /\ product = "READY_FOR_DEPLOYMENT"
  /\ plans = [p \in Plans |-> AbsentPlan]
  /\ memos = [p \in Plans |-> "absent"]
  /\ approvals = [a \in Approvals |-> AbsentApproval]
  /\ lapsed = {}
  /\ deployments = [d \in Deployments |-> AbsentDeployment]
  /\ stops = [s \in Stops |-> "none"]
  /\ pc = [c \in Calls |-> "idle"]
  /\ local = [c \in Calls |-> Nothing]
  /\ crashes = 0

(* A request arrives and its first await runs.                             *)
Begin(c) ==
  \/ LaunchBegin(c) \/ PauseProduct(c) \/ ActivateRead(c) \/ ResumeRead(c) \/ SweepList(c)
  \/ \E p \in Plans : RequestRead(c, p) \/ ExecuteBegin(c, p) \/ \E d \in MemoDecision : MemoRead(c, p, d)
  \/ \E a \in Approvals : ApplyBegin(c, a) \/ \E h \in Humans, d \in Decisions : DecideRead(c, a, h, d)
  \/ \E d \in Deployments : RollbackRead(c, d)

(* A call in flight goes on.                                               *)
Continue(c) ==
  \/ ProductWrite(c) \/ PlanWrite(c)
  \/ LaunchStrategist(c) \/ LaunchPlan(c) \/ LaunchMemo(c) \/ LaunchDone(c) \/ LaunchFail(c)
  \/ MemoWrite(c) \/ MemoProduct(c)
  \/ RequestCreate(c) \/ RequestAttach(c)
  \/ DecideWrite(c) \/ ApplyApproval(c) \/ ApplyPlan(c) \/ ApplySet(c)
  \/ ExecuteStop(c) \/ ExecutePlan(c) \/ ExecuteApproval(c) \/ ExecuteFresh(c) \/ ExecuteProduct(c)
  \/ ExecuteDeploy(c) \/ ExecuteExecuted(c) \/ ExecuteLive(c) \/ ExecuteRevert(c)
  \/ RollbackRow(c) \/ RollbackPause(c)
  \/ StopCreate(c) \/ StopResume(c) \/ SweepExpire(c)

Next ==
  \/ \E c \in Calls : Begin(c) \/ Continue(c)
  \/ \E a \in Approvals : Lapse(a)
  \/ Crash

Spec == Init /\ [][Next]_vars

(* The event loop resumes every call whose await has settled.              *)
FairSpec == Spec /\ \A c \in Calls : WF_vars(Continue(c))

-----------------------------------------------------------------------------
PC ==
  {"idle", "product_write", "plan_write", "launch_strategist", "launch_plan", "launch_memo", "launch_done",
   "memo_write", "memo_product", "request_create", "request_attach", "decide_write", "apply_approval",
   "apply_plan", "apply_set", "execute_stop", "execute_plan", "execute_approval", "execute_fresh",
   "execute_product", "execute_deploy", "execute_executed", "execute_live", "execute_revert",
   "rollback_row", "rollback_pause", "stop_create", "stop_resume", "sweep"}

Local ==
  [plan : Plans \cup {Null}, approval : Approvals \cup {Null}, row : Deployments \cup Stops \cup {Null},
   decision : Decisions \cup MemoDecision \cup {"none"}, reviewer : Humans \cup {NoOne, Sweeper},
   to : ProductStatus \cup PlanStatus \cup {"none"}, then : PC, swept : SUBSET Approvals]

TypeOK ==
  /\ product \in ProductStatus
  /\ plans \in [Plans -> [status : PlanStatus \cup {"ABSENT"}, approval : Approvals \cup {Null}]]
  /\ memos \in [Plans -> MemoDecision \cup {"absent", "undecided"}]
  /\ approvals \in [Approvals -> [status : ApprovalStatus \cup {"ABSENT"}, plan : Plans \cup {Null},
                                  reviewedBy : Humans \cup {NoOne, Sweeper}]]
  /\ lapsed \subseteq Approvals
  /\ deployments \in [Deployments -> [status : {"ABSENT", "LIVE", "FAILED", "ROLLED_BACK"},
                                      plan : Plans \cup {Null}, of : Deployments \cup {Null},
                                      process : 0 .. MaxCrashes, approval : Approvals \cup {Null},
                                      by : Humans \cup {NoOne, Sweeper}]]
  /\ stops \in [Stops -> {"none", "active", "resumed"}]
  /\ pc \in [Calls -> PC]
  /\ local \in [Calls -> Local]
  /\ crashes \in 0 .. MaxCrashes

DeploymentsOf(p) == {d \in Deployments : deployments[d].status = "LIVE" /\ deployments[d].plan = p}

(* Nothing goes live that a human has not approved: whoever runs EXECUTE,  *)
(* the approval that let it through was about this very plan and had been  *)
(* given by a human, whatever races it ran and after any restart.          *)
LiveDeploymentsAreHumanApproved ==
  \A p \in Plans : \A d \in DeploymentsOf(p) :
    /\ deployments[d].by \in Humans
    /\ approvals[deployments[d].approval].plan = p

(* A plan is EXECUTED only on a real, successful deployment of this plan,  *)
(* never on the attempt alone.                                             *)
ExecutedPlansAreDeployed == \A p \in Plans : plans[p].status = "EXECUTED" => DeploymentsOf(p) # {}

(* LIVE is real only when a Deployment row with status LIVE exists: the    *)
(* product is LIVE or PAUSED only after some plan has gone live.           *)
LiveProductsWereDeployed == product \in {"LIVE", "PAUSED"} => \E p \in Plans : DeploymentsOf(p) # {}

(* A DeploymentPlan cannot be executed twice.                              *)
PlansAreExecutedOnce == \A p \in Plans : Cardinality(DeploymentsOf(p)) <= 1

(* A product whose launch a human has rejected is not deployed afterwards: *)
(* no LIVE row appears once some memo of the product says REJECT.          *)
RejectedLaunchesAreNotDeployed ==
  [][(\E p \in Plans : memos[p] = "REJECT") => \A p \in Plans : DeploymentsOf(p)' \subseteq DeploymentsOf(p)]_vars

(* While an emergency stop is active nothing goes live, not even through   *)
(* the orchestrator.                                                       *)
NothingGoesLiveWhileStopped ==
  [][StopActive => \A p \in Plans : DeploymentsOf(p)' \subseteq DeploymentsOf(p)]_vars

Served == {d \in Deployments : deployments[d].status = "LIVE"
             /\ ~ \E r \in RolledBackBy(d) : deployments[r].status = "ROLLED_BACK"}

(* When no call is in flight a LIVE product is served by a deployment that *)
(* has not been rolled back, and a rollback is refused only for a          *)
(* deployment that has been.                                               *)
RollbacksTakeEffect ==
  (\A c \in Calls : pc[c] = "idle") =>
    /\ product = "LIVE" => Served # {}
    /\ \A d \in Deployments : RolledBackBy(d) # {} => \E r \in RolledBackBy(d) : deployments[r].status = "ROLLED_BACK"

(* An EXECUTE attempt ends: the product does not stay in DEPLOYING.        *)
DeployingEnds == (product = "DEPLOYING") ~> (product # "DEPLOYING")
=============================================================================
