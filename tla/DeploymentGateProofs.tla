------------------------ MODULE DeploymentGateProofs ------------------------
(***************************************************************************)
(* What holds of the launch gate for any number of calls, plans, approvals *)
(* and deployments, with every interleaving and every restart; and, in the *)
(* second part, what holds of it when its calls are served one at a time.  *)
(***************************************************************************)
EXTENDS DeploymentGate, FiniteSetTheorems, TLAPS

-----------------------------------------------------------------------------
(* The inductive invariant. What a write step stores is what an earlier    *)
(* step of the same call has read, so it says what a call may have read by *)
(* the time it reaches each of its program points.                         *)

Exists(a) == approvals[a].status # "ABSENT"
Ran(p) == \E d \in Deployments : deployments[d].status = "LIVE" /\ deployments[d].plan = p
AnyRan == \E p \in Plans : Ran(p)

(* The call has read a human's approval of its own plan.                   *)
Cleared(l) ==
  /\ l.plan \in Plans /\ l.approval \in Approvals
  /\ Exists(l.approval) /\ approvals[l.approval].plan = l.plan
  /\ l.reviewer \in Humans

(* The points at which a call works on a plan.                             *)
AtPlan ==
  {"plan_write", "request_create", "apply_plan", "apply_set", "execute_stop", "execute_plan",
   "execute_approval", "execute_executed"}

(* What a call may have read when it is at at.                             *)
Ready(at, l) ==
  /\ at \in AtPlan => l.plan \in Plans
  /\ at = "product_write" =>
       /\ l.to \in ProductStatus
       /\ l.then \in {"idle", "launch_strategist", "execute_deploy"}
       /\ l.to \in {"LIVE", "PAUSED"} => AnyRan
       /\ l.then = "execute_deploy" => Cleared(l)
  /\ at = "plan_write" =>
       /\ l.to \in PlanStatus
       /\ l.then \in {"idle", "execute_stop", "execute_live"}
       /\ l.to = "EXECUTED" => Ran(l.plan)
       /\ l.then = "execute_live" => l.to = "EXECUTED"
  /\ at = "memo_write" => l.decision \in MemoDecision
  /\ at = "decide_write" =>
       l.approval \in Approvals /\ Exists(l.approval) /\ l.decision \in Decisions /\ l.reviewer \in Humans
  /\ at \in {"apply_approval", "apply_plan", "apply_set"} => l.then \in {"idle", "execute_stop"}
  /\ at = "apply_approval" => l.approval \in Approvals
  /\ at \in {"apply_plan", "apply_set"} => l.to \in {"HUMAN_APPROVED", "REJECTED"}
  /\ at = "execute_approval" => l.approval \in Approvals
  /\ at \in {"execute_fresh", "execute_product", "execute_deploy"} => Cleared(l)
  /\ at = "execute_executed" => Ran(l.plan)
  /\ at = "execute_live" => AnyRan
  /\ at = "rollback_row" => l.row \in Deployments
  /\ at = "sweep" => \A a \in l.swept : Exists(a)

(* An approved row was approved by a human, and is about a plan.           *)
ApprovalsOK ==
  \A a \in Approvals : /\ approvals[a].status = "APPROVED" => approvals[a].reviewedBy \in Humans
                       /\ Exists(a) => approvals[a].plan \in Plans

(* A LIVE row was cleared by a human's approval of its plan.               *)
DeploymentsOK ==
  \A d \in Deployments : deployments[d].status = "LIVE" =>
    /\ deployments[d].plan \in Plans
    /\ deployments[d].by \in Humans
    /\ deployments[d].approval \in Approvals
    /\ Exists(deployments[d].approval)
    /\ approvals[deployments[d].approval].plan = deployments[d].plan

PlansOK == \A p \in Plans : plans[p].status = "EXECUTED" => Ran(p)
ProductOK == product \in {"LIVE", "PAUSED"} => AnyRan

IInv ==
  /\ TypeOK
  /\ \A c \in Calls : Ready(pc[c], local[c])
  /\ ApprovalsOK
  /\ DeploymentsOK
  /\ PlansOK
  /\ ProductOK

-----------------------------------------------------------------------------
LEMMA Constants ==
  /\ Decisions \subseteq RouteDecision /\ RouteDecision \subseteq ApprovalStatus
  /\ "PENDING" \in ApprovalStatus /\ "EXPIRED" \in ApprovalStatus /\ "APPROVED" \in ApprovalStatus
  /\ Null \notin Plans /\ Null \notin Approvals
  /\ Nothing \in Local
BY DecisionsAssumption DEF RouteDecision, ApprovalStatus, Null, Plans, Approvals, Nothing, Local, PC

LEMMA StepFacts ==
  ASSUME TypeOK, NEW c \in Calls, NEW from, NEW to \in PC, NEW read \in Local, Step(c, from, to, read)
  PROVE  /\ pc' \in [Calls -> PC] /\ local' \in [Calls -> Local]
         /\ pc[c] = from /\ pc'[c] = to
         /\ to # "idle" => local'[c] = read
         /\ \A d \in Calls \ {c} : pc'[d] = pc[d] /\ local'[d] = local[d]
BY Constants DEF Step, TypeOK

(* Rows that exist keep what they are about: every action guarantees it.   *)
RowsKept ==
  /\ \A a \in Approvals : Exists(a) => Exists(a)' /\ approvals'[a].plan = approvals[a].plan
  /\ \A d \in Deployments : deployments[d].status = "LIVE" => deployments'[d] = deployments[d]

LEMMA RanKept ==
  ASSUME RowsKept
  PROVE  (\A p : Ran(p) => Ran(p)') /\ (AnyRan => AnyRan')
BY DEF RowsKept, Ran, AnyRan

(* What a call has read keeps allowing what it is about to do.             *)
LEMMA ReadyKept ==
  ASSUME RowsKept, NEW at, NEW l \in Local, Ready(at, l)
  PROVE  Ready(at, l)'
<1>1. Cleared(l) => Cleared(l)'
  BY DEF Cleared, RowsKept
<1>2. l.approval \in Approvals /\ Exists(l.approval) => Exists(l.approval)'
  BY DEF RowsKept
<1>3. (\A a \in l.swept : Exists(a)) => (\A a \in l.swept : Exists(a)')
  BY DEF RowsKept, Local
<1> QED BY <1>1, <1>2, <1>3, RanKept DEF Ready

(* The calls, when one of them takes a step.                               *)
LEMMA CallsKept ==
  ASSUME IInv, RowsKept, NEW c \in Calls, NEW from, NEW to \in PC, NEW read \in Local,
         Step(c, from, to, read), to # "idle" => Ready(to, read)'
  PROVE  /\ pc' \in [Calls -> PC] /\ local' \in [Calls -> Local]
         /\ \A d \in Calls : Ready(pc[d], local[d])'
<1>1. /\ pc' \in [Calls -> PC] /\ local' \in [Calls -> Local]
      /\ pc'[c] = to
      /\ to # "idle" => local'[c] = read
      /\ \A d \in Calls \ {c} : pc'[d] = pc[d] /\ local'[d] = local[d]
  BY StepFacts DEF IInv
<1>2. ASSUME NEW d \in Calls \ {c} PROVE Ready(pc[d], local[d])'
  <2>1. PICK at, l : at = pc[d] /\ l = local[d]
    OBVIOUS
  <2>2. Ready(at, l)'
    BY <2>1, ReadyKept DEF IInv, TypeOK
  <2>3. pc'[d] = at /\ local'[d] = l
    BY <1>1, <2>1
  <2> QED BY <2>2, <2>3 DEF Ready, Cleared
<1>3. Ready(pc[c], local[c])'
  <2>1. CASE to = "idle"
    BY <1>1, <2>1 DEF Ready, AtPlan
  <2>2. CASE to # "idle"
    BY <1>1, <2>2 DEF Ready, Cleared
  <2> QED BY <2>1, <2>2
<1> QED BY <1>1, <1>2, <1>3

(* A step that only reads, when what it has read is enough to go on.       *)
LEMMA ReadStepIInv ==
  ASSUME IInv, NEW c \in Calls, NEW from, NEW ok \in BOOLEAN, NEW to \in PC, NEW read \in Local,
         ReadStep(c, from, ok, to, read), ok => Ready(to, read)
  PROVE  IInv'
<1> DEFINE at == IF ok THEN to ELSE "idle"
<1>1. UNCHANGED tables /\ crashes' = crashes /\ Step(c, from, at, read)
  BY DEF ReadStep
<1>2. at \in PC /\ (at # "idle" => ok /\ at = to)
  BY DEF PC
<1>3. RowsKept
  BY <1>1 DEF RowsKept, tables, Exists
<1>4. at # "idle" => Ready(at, read)'
  BY <1>2, <1>3, ReadyKept
<1> HIDE DEF at
<1>5. /\ pc' \in [Calls -> PC] /\ local' \in [Calls -> Local]
      /\ \A d \in Calls : Ready(pc[d], local[d])'
  BY <1>1, <1>2, <1>3, <1>4, CallsKept
<1> QED BY <1>1, <1>5 DEF IInv, TypeOK, tables, ApprovalsOK, DeploymentsOK, PlansOK, ProductOK, Exists, Ran, AnyRan

-----------------------------------------------------------------------------
(* The two setStatus reads.                                                *)

LEMMA MoveInLocal ==
  ASSUME NEW l \in Local, NEW to \in ProductStatus \cup PlanStatus, NEW then \in PC
  PROVE  [l EXCEPT !.to = to, !.then = then] \in Local
BY DEF Local

LEMMA SetProductIInv ==
  ASSUME IInv, NEW c \in Calls, NEW from, NEW status \in ProductStatus,
         NEW then \in {"idle", "launch_strategist", "execute_deploy"},
         SetProduct(c, from, status, then),
         ProductMay(status) /\ status \in {"LIVE", "PAUSED"} => AnyRan,
         then = "execute_deploy" => Cleared(local[c])
  PROVE  IInv'
<1> DEFINE read == [local[c] EXCEPT !.to = status, !.then = then]
<1>a. local[c] \in Local /\ then \in PC /\ "product_write" \in PC
  BY DEF IInv, TypeOK, PC
<1>1. read \in Local /\ "product_write" \in PC
  BY <1>a, MoveInLocal
<1>2. Cleared(local[c]) => Cleared(read)
  BY DEF Cleared, IInv, TypeOK, Local
<1>3. ProductMay(status) => Ready("product_write", read)
  BY <1>2 DEF Ready, AtPlan, IInv, TypeOK, Local
<1>4. ReadStep(c, from, ProductMay(status), "product_write", read) /\ ProductMay(status) \in BOOLEAN
  BY DEF SetProduct, ProductMay
<1> HIDE DEF read
<1> QED BY <1>1, <1>3, <1>4, ReadStepIInv

LEMMA SetPlanIInv ==
  ASSUME IInv, NEW c \in Calls, NEW from, NEW status \in PlanStatus,
         NEW then \in {"idle", "execute_stop", "execute_live"},
         SetPlan(c, from, status, then), local[c].plan \in Plans,
         status = "EXECUTED" => Ran(local[c].plan), then = "execute_live" => status = "EXECUTED"
  PROVE  IInv'
<1> DEFINE read == [local[c] EXCEPT !.to = status, !.then = then]
           ok == PlanMay(local[c].plan, status)
<1>a. local[c] \in Local /\ then \in PC /\ "plan_write" \in PC
  BY DEF IInv, TypeOK, PC
<1>1. read \in Local /\ "plan_write" \in PC /\ ok \in BOOLEAN
  BY <1>a, MoveInLocal DEF PlanMay
<1>2. read.plan = local[c].plan /\ read.to = status /\ read.then = then
  BY DEF IInv, TypeOK, Local
<1>3. ok => Ready("plan_write", read)
  BY <1>2 DEF Ready, AtPlan
<1>4. ReadStep(c, from, ok, "plan_write", read)
  BY DEF SetPlan
<1> HIDE DEF read, ok
<1> QED BY <1>1, <1>3, <1>4, ReadStepIInv

LEMMA PausingNeedsLive == IInv /\ ProductMay("PAUSED") => AnyRan
BY DEF IInv, TypeOK, ProductMay, ProductTransitions, ProductStatus, ProductOK

LEMMA ProductReadsIInv ==
  ASSUME IInv, NEW c \in Calls,
         LaunchDone(c) \/ LaunchFail(c) \/ MemoProduct(c) \/ ExecuteProduct(c) \/ ExecuteLive(c)
           \/ ExecuteRevert(c) \/ RollbackPause(c) \/ PauseProduct(c)
  PROVE  IInv'
<1>0. {"LAUNCH_PLANNING", "AWAITING_LAUNCH_APPROVAL", "DEPLOYING", "LIVE", "PAUSED", "FAILED"} \subseteq ProductStatus
  BY DEF ProductStatus
<1>1. CASE LaunchDone(c)
  BY <1>0, <1>1, SetProductIInv DEF LaunchDone
<1>2. CASE LaunchFail(c)
  BY <1>0, <1>2, SetProductIInv DEF LaunchFail
<1>3. CASE MemoProduct(c)
  BY <1>0, <1>3, SetProductIInv DEF MemoProduct
<1>4. CASE ExecuteProduct(c)
  <2>1. pc[c] = "execute_product"
    BY <1>4 DEF ExecuteProduct, SetProduct, ReadStep, Step
  <2>2. Cleared(local[c])
    BY <2>1 DEF IInv, Ready
  <2> QED BY <1>0, <1>4, <2>2, SetProductIInv DEF ExecuteProduct
<1>5. CASE ExecuteLive(c)
  <2>1. pc[c] = "execute_live"
    BY <1>5 DEF ExecuteLive, SetProduct, ReadStep, Step
  <2>2. AnyRan
    BY <2>1 DEF IInv, Ready
  <2> QED BY <1>0, <1>5, <2>2, SetProductIInv DEF ExecuteLive
<1>6. CASE ExecuteRevert(c)
  BY <1>0, <1>6, SetProductIInv DEF ExecuteRevert
<1>7. CASE RollbackPause(c)
  BY <1>0, <1>7, SetProductIInv, PausingNeedsLive DEF RollbackPause
<1>8. CASE PauseProduct(c)
  BY <1>0, <1>8, SetProductIInv, PausingNeedsLive DEF PauseProduct
<1> QED BY <1>1, <1>2, <1>3, <1>4, <1>5, <1>6, <1>7, <1>8

-----------------------------------------------------------------------------
(* The other steps that only read.                                         *)

LEMMA LaunchBeginIInv == ASSUME IInv, NEW c \in Calls, LaunchBegin(c) PROVE IInv'
<1>1. "LAUNCH_PLANNING" \in ProductStatus /\ "launch_strategist" \in PC
  BY DEF ProductStatus, PC
<1>2. Ready("launch_strategist", Nothing)
  BY DEF Ready, AtPlan
<1>3. CASE SetProduct(c, "idle", "LAUNCH_PLANNING", "launch_strategist")
  BY <1>1, <1>3, SetProductIInv
<1>4. CASE ReadStep(c, "idle", TRUE, "launch_strategist", Nothing)
  BY <1>1, <1>2, <1>4, Constants, ReadStepIInv
<1> QED BY <1>3, <1>4 DEF LaunchBegin

LEMMA LaunchStrategistIInv == ASSUME IInv, NEW c \in Calls, LaunchStrategist(c) PROVE IInv'
<1>1. "launch_plan" \in PC /\ PlansLaunch \in BOOLEAN /\ Ready("launch_plan", Nothing)
  BY DEF PC, PlansLaunch, Ready, AtPlan
<1> QED BY <1>1, Constants, ReadStepIInv DEF LaunchStrategist

LEMMA MemoReadIInv ==
  ASSUME IInv, NEW c \in Calls, NEW p \in Plans, NEW d \in MemoDecision, MemoRead(c, p, d) PROVE IInv'
<1> DEFINE read == [Nothing EXCEPT !.plan = p, !.decision = d]
<1>1. read \in Local /\ "memo_write" \in PC /\ Ready("memo_write", read)
  BY Constants DEF Nothing, Local, PC, Ready, AtPlan
<1>2. ReadStep(c, "idle", TRUE, "memo_write", read)
  BY DEF MemoRead
<1> HIDE DEF read
<1> QED BY <1>1, <1>2, ReadStepIInv

LEMMA RequestReadIInv == ASSUME IInv, NEW c \in Calls, NEW p \in Plans, RequestRead(c, p) PROVE IInv'
<1> DEFINE read == [Nothing EXCEPT !.plan = p]
<1>1. read \in Local /\ "request_create" \in PC /\ Ready("request_create", read)
  BY Constants DEF Nothing, Local, PC, Ready, AtPlan
<1>2. ReadStep(c, "idle", TRUE, "request_create", read)
  BY DEF RequestRead
<1> HIDE DEF read
<1> QED BY <1>1, <1>2, ReadStepIInv

LEMMA DecideReadIInv ==
  ASSUME IInv, NEW c \in Calls, NEW a \in Approvals, NEW h \in Humans, NEW d \in Decisions, DecideRead(c, a, h, d)
  PROVE  IInv'
<1> DEFINE read == [Nothing EXCEPT !.approval = a, !.decision = d, !.reviewer = h]
<1>1. read \in Local /\ "decide_write" \in PC
  BY Constants DEF Nothing, Local, PC
<1>2. Ready("decide_write", read)
  BY DEF DecideRead, Nothing, Ready, AtPlan, Exists
<1>3. ReadStep(c, "idle", TRUE, "decide_write", read)
  BY DEF DecideRead
<1> HIDE DEF read
<1> QED BY <1>1, <1>2, <1>3, ReadStepIInv

LEMMA ApplyReadIInv ==
  ASSUME IInv, NEW c \in Calls, NEW from, NEW a \in Approvals, NEW then \in {"idle", "execute_stop"},
         ApplyRead(c, from, a, then)
  PROVE  IInv'
<1> DEFINE read == [Nothing EXCEPT !.plan = approvals[a].plan, !.to = Verdict(a), !.then = then]
           ok == approvals[a].status \in {"APPROVED", "REJECTED"}
<1>a. approvals[a].plan \in Plans \cup {Null} /\ Verdict(a) \in PlanStatus
  BY DEF IInv, TypeOK, Verdict, PlanStatus
<1>b. then \in PC /\ "apply_plan" \in PC /\ ok \in BOOLEAN
  BY DEF PC
<1>1. read \in Local /\ "apply_plan" \in PC /\ ok \in BOOLEAN
  BY <1>a, <1>b, Constants DEF Local
<1>2. ok => Ready("apply_plan", read)
  BY DEF IInv, ApprovalsOK, Exists, Verdict, Nothing, Ready, AtPlan
<1>3. ReadStep(c, from, ok, "apply_plan", read)
  BY DEF ApplyRead
<1> HIDE DEF read, ok
<1> QED BY <1>1, <1>2, <1>3, ReadStepIInv

LEMMA ApplyIInv ==
  ASSUME IInv, NEW c \in Calls, ApplyApproval(c) \/ (\E a \in Approvals : ApplyBegin(c, a)) PROVE IInv'
<1>1. CASE ApplyApproval(c)
  <2>1. pc[c] = "apply_approval"
    BY <1>1 DEF ApplyApproval, ApplyRead, ReadStep, Step
  <2>2. local[c].approval \in Approvals /\ local[c].then \in {"idle", "execute_stop"}
    BY <2>1 DEF IInv, Ready
  <2> QED BY <1>1, <2>2, ApplyReadIInv DEF ApplyApproval
<1>2. CASE \E a \in Approvals : ApplyBegin(c, a)
  BY <1>2, ApplyReadIInv DEF ApplyBegin
<1> QED BY <1>1, <1>2

LEMMA ApplyPlanIInv == ASSUME IInv, NEW c \in Calls, ApplyPlan(c) PROVE IInv'
<1> DEFINE status == plans[local[c].plan].status
           applied == status \in {"HUMAN_APPROVED", "REJECTED", "EXECUTED"}
           ok == applied => status = "HUMAN_APPROVED"
           to == IF applied THEN local[c].then ELSE "apply_set"
<1>1. ReadStep(c, "apply_plan", ok, to, local[c])
  BY DEF ApplyPlan
<1>2. Ready("apply_plan", local[c]) /\ local[c] \in Local
  BY <1>1 DEF ReadStep, Step, IInv, TypeOK
<1>3. to \in {"idle", "execute_stop", "apply_set"}
  BY <1>2 DEF Ready
<1>4. to \in PC /\ ok \in BOOLEAN
  BY <1>3 DEF PC
<1>5. Ready(to, local[c])
  <2> HIDE DEF to
  <2> QED BY <1>2, <1>3 DEF Ready, AtPlan
<1> HIDE DEF status, applied, ok, to
<1> QED BY <1>1, <1>2, <1>4, <1>5, ReadStepIInv

LEMMA ApplySetIInv == ASSUME IInv, NEW c \in Calls, ApplySet(c) PROVE IInv'
<1>1. Ready("apply_set", local[c])
  BY DEF ApplySet, SetPlan, ReadStep, Step, IInv
<1>2. /\ local[c].to \in PlanStatus /\ local[c].to # "EXECUTED"
      /\ (IF local[c].to = "HUMAN_APPROVED" THEN local[c].then ELSE "idle") \in {"idle", "execute_stop"}
      /\ local[c].plan \in Plans
  BY <1>1 DEF Ready, AtPlan, PlanStatus
<1> QED BY <1>2, SetPlanIInv DEF ApplySet

LEMMA ExecuteStopIInv ==
  ASSUME IInv, NEW c \in Calls, ExecuteStop(c) \/ (\E p \in Plans : ExecuteBegin(c, p)) PROVE IInv'
<1>1. ASSUME NEW p \in Plans, NEW from, ReadStep(c, from, ~StopActive, "execute_plan", [Nothing EXCEPT !.plan = p])
      PROVE  IInv'
  <2> DEFINE read == [Nothing EXCEPT !.plan = p]
  <2>1. read \in Local /\ "execute_plan" \in PC /\ (~StopActive) \in BOOLEAN /\ Ready("execute_plan", read)
    BY Constants DEF Nothing, Local, PC, Ready, AtPlan
  <2> HIDE DEF read
  <2> QED BY <1>1, <2>1, ReadStepIInv DEF read
<1>2. CASE ExecuteStop(c)
  <2>1. Ready("execute_stop", local[c])
    BY <1>2 DEF ExecuteStop, ReadStep, Step, IInv
  <2> QED BY <1>1, <1>2, <2>1 DEF ExecuteStop, Ready, AtPlan
<1>3. CASE \E p \in Plans : ExecuteBegin(c, p)
  BY <1>1, <1>3 DEF ExecuteBegin
<1> QED BY <1>2, <1>3

LEMMA ExecutePlanIInv == ASSUME IInv, NEW c \in Calls, ExecutePlan(c) PROVE IInv'
<1> DEFINE plan == plans[local[c].plan]
           ok == plan.status = "HUMAN_APPROVED" /\ plan.approval # Null
           read == [local[c] EXCEPT !.approval = plan.approval]
<1>1. ReadStep(c, "execute_plan", ok, "execute_approval", read)
  BY DEF ExecutePlan
<1>2. local[c].plan \in Plans /\ local[c] \in Local
  BY <1>1 DEF ReadStep, Step, IInv, TypeOK, Ready, AtPlan
<1>3. plan.approval \in Approvals \cup {Null}
  BY <1>2 DEF IInv, TypeOK
<1>4. read \in Local /\ ok \in BOOLEAN /\ "execute_approval" \in PC
  BY <1>2, <1>3 DEF Local, PC
<1>5. read.plan = local[c].plan /\ read.approval = plan.approval
  BY <1>2 DEF Local
<1>6. ok => Ready("execute_approval", read)
  BY <1>2, <1>3, <1>5 DEF Ready, AtPlan
<1> HIDE DEF plan, ok, read
<1> QED BY <1>1, <1>4, <1>6, ReadStepIInv

LEMMA ExecuteApprovalIInv == ASSUME IInv, NEW c \in Calls, ExecuteApproval(c) PROVE IInv'
<1> DEFINE a == local[c].approval
           ok == ApprovedFor(a, local[c].plan)
           read == [local[c] EXCEPT !.reviewer = approvals[a].reviewedBy]
<1>1. ReadStep(c, "execute_approval", ok, "execute_fresh", read)
  BY DEF ExecuteApproval
<1>2. local[c].plan \in Plans /\ a \in Approvals /\ local[c] \in Local
  BY <1>1 DEF ReadStep, Step, IInv, TypeOK, Ready, AtPlan
<1>3. read \in Local /\ ok \in BOOLEAN /\ "execute_fresh" \in PC
  BY <1>2 DEF IInv, TypeOK, Local, PC, ApprovedFor
<1>4. read.plan = local[c].plan /\ read.approval = a /\ read.reviewer = approvals[a].reviewedBy
  BY <1>2 DEF Local
<1>5. ok => Cleared(read)
  BY <1>2, <1>4 DEF Cleared, ApprovedFor, Exists, IInv, ApprovalsOK
<1>6. ok => Ready("execute_fresh", read)
  BY <1>5 DEF Ready, AtPlan
<1> HIDE DEF a, ok, read
<1> QED BY <1>1, <1>3, <1>6, ReadStepIInv

LEMMA ExecuteFreshIInv == ASSUME IInv, NEW c \in Calls, ExecuteFresh(c) PROVE IInv'
<1>1. Ready("execute_fresh", local[c]) /\ local[c] \in Local
  BY DEF ExecuteFresh, ReadStep, Step, IInv, TypeOK
<1>2. Ready("execute_product", local[c]) /\ "execute_product" \in PC /\ (local[c].approval \notin lapsed) \in BOOLEAN
  BY <1>1 DEF Ready, AtPlan, PC
<1> QED BY <1>1, <1>2, ReadStepIInv DEF ExecuteFresh

LEMMA ExecuteExecutedIInv == ASSUME IInv, NEW c \in Calls, ExecuteExecuted(c) PROVE IInv'
<1>1. Ready("execute_executed", local[c])
  BY DEF ExecuteExecuted, SetPlan, ReadStep, Step, IInv
<1>2. "EXECUTED" \in PlanStatus /\ local[c].plan \in Plans /\ Ran(local[c].plan)
  BY <1>1 DEF Ready, AtPlan, PlanStatus
<1> QED BY <1>2, SetPlanIInv DEF ExecuteExecuted

LEMMA RollbackReadIInv == ASSUME IInv, NEW c \in Calls, NEW d \in Deployments, RollbackRead(c, d) PROVE IInv'
<1> DEFINE read == [Nothing EXCEPT !.row = d, !.plan = deployments[d].plan]
<1>1. read \in Local /\ "rollback_row" \in PC /\ Ready("rollback_row", read)
  BY Constants, ZenonT(60) DEF IInv, TypeOK, Nothing, Local, PC, Ready, AtPlan
<1>2. ReadStep(c, "idle", TRUE, "rollback_row", read)
  BY DEF RollbackRead
<1> HIDE DEF read
<1> QED BY <1>1, <1>2, ReadStepIInv

LEMMA StopReadsIInv == ASSUME IInv, NEW c \in Calls, ActivateRead(c) \/ ResumeRead(c) PROVE IInv'
<1>1. CASE ActivateRead(c)
  <2>1. "stop_create" \in PC /\ Ready("stop_create", Nothing)
    BY DEF PC, Ready, AtPlan
  <2> QED BY <1>1, <2>1, Constants, ReadStepIInv DEF ActivateRead
<1>2. CASE ResumeRead(c)
  <2> PICK s \in Stops : ReadStep(c, "idle", TRUE, "stop_resume", [Nothing EXCEPT !.row = s])
    BY <1>2 DEF ResumeRead
  <2> DEFINE read == [Nothing EXCEPT !.row = s]
  <2>1. read \in Local /\ "stop_resume" \in PC /\ Ready("stop_resume", read)
    BY Constants DEF Nothing, Local, PC, Ready, AtPlan
  <2> HIDE DEF read
  <2> QED BY <2>1, ReadStepIInv DEF read
<1> QED BY <1>1, <1>2

LEMMA SweepListIInv == ASSUME IInv, NEW c \in Calls, SweepList(c) PROVE IInv'
<1> DEFINE read == [Nothing EXCEPT !.swept = Overdues]
<1>1. read \in Local /\ "sweep" \in PC
  BY Constants DEF IInv, TypeOK, Overdues, Nothing, Local, PC
<1>2. Ready("sweep", read)
  BY DEF Overdues, Exists, Nothing, Ready, AtPlan
<1>3. ReadStep(c, "idle", TRUE, "sweep", read)
  BY DEF SweepList
<1> HIDE DEF read
<1> QED BY <1>1, <1>2, <1>3, ReadStepIInv

-----------------------------------------------------------------------------
(* The steps that write.                                                   *)

(* The invariant of the tables follows from the calls' when no approval    *)
(* and no deployment is written.                                           *)
LEMMA RowsUnchanged ==
  ASSUME IInv, UNCHANGED <<approvals, deployments>>
  PROVE  RowsKept /\ ApprovalsOK' /\ DeploymentsOK' /\ (\A p : Ran(p) => Ran(p)') /\ (AnyRan => AnyRan')
BY DEF IInv, RowsKept, Exists, ApprovalsOK, DeploymentsOK, Ran, AnyRan

LEMMA ProductWriteIInv == ASSUME IInv, NEW c \in Calls, ProductWrite(c) PROVE IInv'
<1>1. /\ Step(c, "product_write", local[c].then, local[c])
      /\ product' = local[c].to
      /\ UNCHANGED <<plans, memos, approvals, lapsed, deployments, stops, crashes>>
  BY DEF ProductWrite
<1>2. local[c] \in Local /\ Ready("product_write", local[c])
  BY <1>1 DEF Step, IInv, TypeOK
<1> PICK l \in Local : l = local[c]
  BY <1>2
<1>3. l.to \in ProductStatus /\ l.then \in {"idle", "launch_strategist", "execute_deploy"}
  BY <1>2 DEF Ready
<1>4. l.then # "idle" => Ready(l.then, l)
  BY <1>2, <1>3 DEF Ready, AtPlan
<1>5. l.then # "idle" => Ready(l.then, l)'
  BY <1>1, <1>4, RowsUnchanged, ReadyKept
<1>6. l.then \in PC /\ Step(c, "product_write", l.then, l)
  BY <1>1, <1>3 DEF PC
<1>7. /\ pc' \in [Calls -> PC] /\ local' \in [Calls -> Local]
      /\ \A d \in Calls : Ready(pc[d], local[d])'
  BY <1>1, <1>5, <1>6, RowsUnchanged, CallsKept
<1>8. ProductOK'
  BY <1>1, <1>2, RowsUnchanged DEF ProductOK, Ready
<1>9. PlansOK'
  BY <1>1, RowsUnchanged DEF PlansOK, IInv
<1> QED BY <1>1, <1>3, <1>7, <1>8, <1>9, RowsUnchanged DEF IInv, TypeOK

LEMMA PlanWriteIInv == ASSUME IInv, NEW c \in Calls, PlanWrite(c) PROVE IInv'
<1>1. /\ Step(c, "plan_write", local[c].then, local[c])
      /\ plans' = [plans EXCEPT ![local[c].plan] = [@ EXCEPT !.status = local[c].to]]
      /\ UNCHANGED <<product, memos, approvals, lapsed, deployments, stops, crashes>>
  BY DEF PlanWrite
<1>2. local[c] \in Local /\ Ready("plan_write", local[c])
  BY <1>1 DEF Step, IInv, TypeOK
<1> PICK l \in Local : l = local[c]
  BY <1>2
<1>3. /\ l.to \in PlanStatus /\ l.then \in {"idle", "execute_stop", "execute_live"} /\ l.plan \in Plans
      /\ l.to = "EXECUTED" => Ran(l.plan)
      /\ l.then = "execute_live" => l.to = "EXECUTED"
  BY <1>2 DEF Ready, AtPlan
<1>4. l.then = "execute_live" => AnyRan
  BY <1>3 DEF AnyRan
<1>5. l.then # "idle" => Ready(l.then, l)
  BY <1>3, <1>4 DEF Ready, AtPlan
<1>6. l.then # "idle" => Ready(l.then, l)'
  BY <1>1, <1>5, RowsUnchanged, ReadyKept
<1>7. l.then \in PC /\ Step(c, "plan_write", l.then, l)
  BY <1>1, <1>3 DEF PC
<1>8. /\ pc' \in [Calls -> PC] /\ local' \in [Calls -> Local]
      /\ \A d \in Calls : Ready(pc[d], local[d])'
  BY <1>1, <1>6, <1>7, RowsUnchanged, CallsKept
<1>9. /\ plans' \in [Plans -> [status : PlanStatus \cup {"ABSENT"}, approval : Approvals \cup {Null}]]
      /\ plans'[l.plan].status = l.to
      /\ \A p \in Plans \ {l.plan} : plans'[p] = plans[p]
  BY <1>1, <1>3 DEF IInv, TypeOK
<1>10. PlansOK'
  BY <1>1, <1>3, <1>9, RowsUnchanged DEF PlansOK, IInv
<1>11. ProductOK'
  BY <1>1, RowsUnchanged DEF ProductOK, IInv
<1> QED BY <1>1, <1>8, <1>9, <1>10, <1>11, RowsUnchanged DEF IInv, TypeOK

(* A plan row is written with a status that promises nothing.              *)
LEMMA PlanRowIInv ==
  ASSUME IInv, NEW c \in Calls, NEW from, NEW to \in PC, NEW read \in Local, Step(c, from, to, read),
         to # "idle" => Ready(to, read),
         NEW p \in Plans \cup {Null}, NEW status \in {"DRAFT", "PENDING_APPROVAL"}, NEW a \in Approvals \cup {Null},
         plans' = [plans EXCEPT ![p] = [status |-> status, approval |-> a]],
         UNCHANGED <<product, memos, approvals, lapsed, deployments, stops, crashes>>
  PROVE  IInv'
<1>1. to # "idle" => Ready(to, read)'
  BY RowsUnchanged, ReadyKept
<1>2. /\ pc' \in [Calls -> PC] /\ local' \in [Calls -> Local]
      /\ \A d \in Calls : Ready(pc[d], local[d])'
  BY <1>1, RowsUnchanged, CallsKept
<1>3. plans' \in [Plans -> [status : PlanStatus \cup {"ABSENT"}, approval : Approvals \cup {Null}]]
  BY DEF IInv, TypeOK, PlanStatus
<1>4. PlansOK'
  BY RowsUnchanged DEF PlansOK, IInv, TypeOK
<1>5. ProductOK'
  BY RowsUnchanged DEF ProductOK, IInv
<1> QED BY <1>2, <1>3, <1>4, <1>5, RowsUnchanged DEF IInv, TypeOK

LEMMA LaunchPlanIInv == ASSUME IInv, NEW c \in Calls, LaunchPlan(c) PROVE IInv'
<1> PICK p \in Plans :
      /\ Step(c, "launch_plan", "launch_memo", [Nothing EXCEPT !.plan = p])
      /\ plans' = [plans EXCEPT ![p] = [status |-> "DRAFT", approval |-> Null]]
      /\ UNCHANGED <<product, memos, approvals, lapsed, deployments, stops, crashes>>
  BY DEF LaunchPlan
<1> DEFINE read == [Nothing EXCEPT !.plan = p]
<1>1. read \in Local /\ "launch_memo" \in PC /\ Ready("launch_memo", read)
  BY Constants DEF Nothing, Local, PC, Ready, AtPlan
<1> HIDE DEF read
<1> QED BY <1>1, PlanRowIInv DEF read

LEMMA RequestAttachIInv == ASSUME IInv, NEW c \in Calls, RequestAttach(c) PROVE IInv'
<1>1. local[c].plan \in Plans \cup {Null} /\ local[c].approval \in Approvals \cup {Null} /\ "idle" \in PC
  BY DEF IInv, TypeOK, Local, PC
<1> QED BY <1>1, Constants, PlanRowIInv DEF RequestAttach, Return

(* Memos, stops and the clock carry no part of the invariant.              *)
LEMMA SideTableIInv ==
  ASSUME IInv, NEW c \in Calls, NEW from, NEW to \in PC, NEW read \in Local, Step(c, from, to, read),
         to # "idle" => Ready(to, read),
         UNCHANGED <<product, plans, approvals, lapsed, deployments, crashes>>,
         memos' \in [Plans -> MemoDecision \cup {"absent", "undecided"}],
         stops' \in [Stops -> {"none", "active", "resumed"}]
  PROVE  IInv'
<1>1. to # "idle" => Ready(to, read)'
  BY RowsUnchanged, ReadyKept
<1>2. /\ pc' \in [Calls -> PC] /\ local' \in [Calls -> Local]
      /\ \A d \in Calls : Ready(pc[d], local[d])'
  BY <1>1, RowsUnchanged, CallsKept
<1>3. PlansOK' /\ ProductOK'
  BY RowsUnchanged DEF PlansOK, ProductOK, IInv
<1> QED BY <1>2, <1>3, RowsUnchanged DEF IInv, TypeOK

LEMMA LaunchMemoIInv == ASSUME IInv, NEW c \in Calls, LaunchMemo(c) PROVE IInv'
<1>1. "launch_done" \in PC /\ Ready("launch_done", Nothing)
  BY DEF PC, Ready, AtPlan
<1>2. /\ memos' \in [Plans -> MemoDecision \cup {"absent", "undecided"}]
      /\ stops' \in [Stops -> {"none", "active", "resumed"}]
  BY DEF LaunchMemo, IInv, TypeOK
<1> QED BY <1>1, <1>2, Constants, SideTableIInv DEF LaunchMemo

LEMMA MemoWriteIInv == ASSUME IInv, NEW c \in Calls, MemoWrite(c) PROVE IInv'
<1> DEFINE to == IF local[c].decision \in {"REJECT", "REQUEST_CHANGES"} THEN "memo_product" ELSE "idle"
<1>1. Step(c, "memo_write", to, local[c])
  BY DEF MemoWrite
<1>2. to \in PC /\ Ready(to, local[c]) /\ local[c] \in Local
  BY DEF PC, Ready, AtPlan, IInv, TypeOK
<1>3. local[c].decision \in MemoDecision
  BY <1>1 DEF Step, IInv, Ready
<1>4. /\ memos' \in [Plans -> MemoDecision \cup {"absent", "undecided"}]
      /\ stops' \in [Stops -> {"none", "active", "resumed"}]
  BY <1>3 DEF MemoWrite, IInv, TypeOK
<1> HIDE DEF to
<1> QED BY <1>1, <1>2, <1>4, SideTableIInv DEF MemoWrite

LEMMA StopWritesIInv == ASSUME IInv, NEW c \in Calls, StopCreate(c) \/ StopResume(c) PROVE IInv'
<1>1. "idle" \in PC
  BY DEF PC
<1>2. /\ memos' \in [Plans -> MemoDecision \cup {"absent", "undecided"}]
      /\ stops' \in [Stops -> {"none", "active", "resumed"}]
  BY DEF StopCreate, StopResume, IInv, TypeOK
<1>3. \E from : Step(c, from, "idle", Nothing)
  BY DEF StopCreate, StopResume, Return
<1>4. UNCHANGED <<product, plans, approvals, lapsed, deployments, crashes>>
  BY DEF StopCreate, StopResume
<1> QED BY <1>1, <1>2, <1>3, <1>4, Constants, SideTableIInv

(* An approval row is created for a plan, or resolved.                     *)
LEMMA ApprovalRowIInv ==
  ASSUME IInv, NEW c \in Calls, NEW from, NEW to \in PC, NEW read \in Local, Step(c, from, to, read),
         to # "idle" => Ready(to, read),
         NEW a \in Approvals, NEW row \in [status : ApprovalStatus \cup {"ABSENT"}, plan : Plans \cup {Null},
                                           reviewedBy : Humans \cup {NoOne, Sweeper}],
         approvals' = [approvals EXCEPT ![a] = row],
         row.status # "ABSENT", row.plan \in Plans, Exists(a) => row.plan = approvals[a].plan,
         row.status = "APPROVED" => row.reviewedBy \in Humans,
         UNCHANGED <<product, plans, memos, lapsed, deployments, stops, crashes>>
  PROVE  IInv'
<1>1. /\ approvals' \in [Approvals -> [status : ApprovalStatus \cup {"ABSENT"}, plan : Plans \cup {Null},
                                       reviewedBy : Humans \cup {NoOne, Sweeper}]]
      /\ approvals'[a] = row /\ \A b \in Approvals \ {a} : approvals'[b] = approvals[b]
  BY DEF IInv, TypeOK
<1>2. RowsKept
  BY <1>1 DEF RowsKept, Exists
<1>3. ApprovalsOK' /\ DeploymentsOK'
  BY <1>1, <1>2 DEF IInv, ApprovalsOK, DeploymentsOK, Exists
<1>4. to # "idle" => Ready(to, read)'
  BY <1>2, ReadyKept
<1>5. /\ pc' \in [Calls -> PC] /\ local' \in [Calls -> Local]
      /\ \A d \in Calls : Ready(pc[d], local[d])'
  BY <1>2, <1>4, CallsKept
<1>6. PlansOK' /\ ProductOK'
  BY <1>2, RanKept DEF PlansOK, ProductOK, IInv
<1> QED BY <1>1, <1>3, <1>5, <1>6 DEF IInv, TypeOK

LEMMA RequestCreateIInv == ASSUME IInv, NEW c \in Calls, RequestCreate(c) PROVE IInv'
<1>1. pc[c] = "request_create"
  BY DEF RequestCreate, Step
<1>2. local[c] \in Local /\ local[c].plan \in Plans
  BY <1>1 DEF IInv, TypeOK, Ready, AtPlan
<1> PICK a \in Approvals :
      /\ IsNext(approvals, a)
      /\ Step(c, "request_create", "request_attach", [local[c] EXCEPT !.approval = a])
      /\ approvals' = [approvals EXCEPT ![a] =
                         [status |-> "PENDING", plan |-> local[c].plan, reviewedBy |-> NoOne]]
      /\ UNCHANGED <<product, plans, memos, lapsed, deployments, stops, crashes>>
  BY DEF RequestCreate
<1> DEFINE read == [local[c] EXCEPT !.approval = a]
           row == [status |-> "PENDING", plan |-> local[c].plan, reviewedBy |-> NoOne]
<1>3. read \in Local
  BY <1>2 DEF Local
<1>4. "request_attach" \in PC /\ Ready("request_attach", read)
  BY DEF PC, Ready, AtPlan
<1>5. row \in [status : ApprovalStatus \cup {"ABSENT"}, plan : Plans \cup {Null},
               reviewedBy : Humans \cup {NoOne, Sweeper}]
  BY <1>2, Constants
<1>6. row.status # "ABSENT" /\ row.status # "APPROVED" /\ row.plan \in Plans
  BY <1>2
<1>7. ~Exists(a)
  BY DEF IsNext, Exists
<1> HIDE DEF read, row
<1> QED BY <1>3, <1>4, <1>5, <1>6, <1>7, ApprovalRowIInv DEF read, row

(* Resolved keeps what a row is about.                                     *)
LEMMA ResolvedIInv ==
  ASSUME IInv, NEW c \in Calls, NEW from, NEW to \in PC, NEW read \in Local, Step(c, from, to, read),
         to # "idle" => Ready(to, read),
         NEW a \in Approvals, Exists(a), NEW status \in ApprovalStatus, NEW by \in Humans \cup {Sweeper},
         status = "APPROVED" => by \in Humans,
         approvals' = Resolved(a, status, by),
         UNCHANGED <<product, plans, memos, lapsed, deployments, stops, crashes>>
  PROVE  IInv'
<1> DEFINE row == [approvals[a] EXCEPT !.status = status, !.reviewedBy = by]
<1>1. approvals' = [approvals EXCEPT ![a] = row]
  BY DEF Resolved
<1>2. approvals[a] \in [status : ApprovalStatus \cup {"ABSENT"}, plan : Plans \cup {Null},
                        reviewedBy : Humans \cup {NoOne, Sweeper}]
  BY DEF IInv, TypeOK
<1>3. /\ row \in [status : ApprovalStatus \cup {"ABSENT"}, plan : Plans \cup {Null},
                  reviewedBy : Humans \cup {NoOne, Sweeper}]
      /\ row.status = status /\ row.reviewedBy = by /\ row.plan = approvals[a].plan
  BY <1>2
<1>4. status # "ABSENT" /\ approvals[a].plan \in Plans
  BY DEF ApprovalStatus, IInv, ApprovalsOK
<1> HIDE DEF row
<1> QED BY <1>1, <1>3, <1>4, ApprovalRowIInv

LEMMA DecideWriteIInv == ASSUME IInv, NEW c \in Calls, DecideWrite(c) PROVE IInv'
<1>1. pc[c] = "decide_write"
  BY DEF DecideWrite, Step
<1>2. /\ local[c].approval \in Approvals /\ Exists(local[c].approval)
      /\ local[c].decision \in ApprovalStatus /\ local[c].reviewer \in Humans
  BY <1>1, Constants DEF IInv, Ready
<1> DEFINE to == IF Autonomous THEN "apply_approval" ELSE "idle"
           read == [Nothing EXCEPT !.approval = local[c].approval, !.then = "execute_stop"]
<1>3. to \in {"idle", "apply_approval"} /\ to \in PC
  BY DEF PC
<1>4. read \in Local /\ read.approval \in Approvals /\ read.then = "execute_stop"
  BY <1>2, Constants DEF Nothing, Local, PC
<1>5. Step(c, "decide_write", to, read)
  BY DEF DecideWrite
<1> HIDE DEF to, read
<1>6. Ready(to, read)
  BY <1>3, <1>4 DEF Ready, AtPlan
<1> QED BY <1>2, <1>3, <1>4, <1>5, <1>6, ResolvedIInv DEF DecideWrite

LEMMA SweepExpireIInv == ASSUME IInv, NEW c \in Calls, SweepExpire(c) PROVE IInv'
<1>1. pc[c] = "sweep"
  BY DEF SweepExpire, Step
<1>2. local[c] \in Local /\ \A b \in local[c].swept : Exists(b)
  BY <1>1 DEF IInv, TypeOK, Ready
<1>3. local[c].swept \subseteq Approvals
  BY <1>2 DEF Local
<1> PICK a \in local[c].swept :
      /\ Step(c, "sweep", IF local[c].swept = {a} THEN "idle" ELSE "sweep",
              [local[c] EXCEPT !.swept = local[c].swept \ {a}])
      /\ approvals' = Resolved(a, "EXPIRED", Sweeper)
      /\ UNCHANGED <<product, plans, memos, lapsed, deployments, stops, crashes>>
  BY <1>2 DEF SweepExpire, Local
<1> DEFINE to == IF local[c].swept = {a} THEN "idle" ELSE "sweep"
           read == [local[c] EXCEPT !.swept = local[c].swept \ {a}]
<1>4. read \in Local /\ read.swept \subseteq local[c].swept
  BY <1>2, <1>3 DEF Local
<1>5. to \in {"idle", "sweep"} /\ to \in PC
  BY DEF PC
<1>6. Step(c, "sweep", to, read)
  OBVIOUS
<1> HIDE DEF to, read
<1>7. Ready(to, read)
  BY <1>2, <1>4, <1>5 DEF Ready, AtPlan
<1> QED BY <1>2, <1>3, <1>4, <1>5, <1>6, <1>7, Constants, ResolvedIInv

(* A deployment row is created.                                            *)
LEMMA DeploymentRowIInv ==
  ASSUME IInv, NEW c \in Calls, NEW from, NEW to \in PC, NEW read \in Local, Step(c, from, to, read),
         NEW d \in Deployments, deployments[d].status = "ABSENT",
         NEW row \in [status : {"ABSENT", "LIVE", "FAILED", "ROLLED_BACK"}, plan : Plans \cup {Null},
                      of : Deployments \cup {Null}, process : 0 .. MaxCrashes,
                      approval : Approvals \cup {Null}, by : Humans \cup {NoOne, Sweeper}],
         deployments' = [deployments EXCEPT ![d] = row],
         row.status = "LIVE" =>
           /\ row.plan \in Plans /\ row.by \in Humans /\ row.approval \in Approvals
           /\ Exists(row.approval) /\ approvals[row.approval].plan = row.plan,
         UNCHANGED <<product, plans, memos, approvals, lapsed, stops, crashes>>,
         to # "idle" => Ready(to, read)'
  PROVE  IInv'
<1>1. /\ deployments' \in [Deployments -> [status : {"ABSENT", "LIVE", "FAILED", "ROLLED_BACK"},
                                           plan : Plans \cup {Null}, of : Deployments \cup {Null},
                                           process : 0 .. MaxCrashes, approval : Approvals \cup {Null},
                                           by : Humans \cup {NoOne, Sweeper}]]
      /\ deployments'[d] = row /\ \A e \in Deployments \ {d} : deployments'[e] = deployments[e]
  BY DEF IInv, TypeOK
<1>2. RowsKept
  BY <1>1 DEF RowsKept, Exists
<1>3. ApprovalsOK' /\ DeploymentsOK'
  BY <1>1 DEF IInv, ApprovalsOK, DeploymentsOK, Exists
<1>4. /\ pc' \in [Calls -> PC] /\ local' \in [Calls -> Local]
      /\ \A e \in Calls : Ready(pc[e], local[e])'
  BY <1>2, CallsKept
<1>5. PlansOK' /\ ProductOK'
  BY <1>2, RanKept DEF PlansOK, ProductOK, IInv
<1> QED BY <1>1, <1>3, <1>4, <1>5 DEF IInv, TypeOK

LEMMA ExecuteDeployIInv == ASSUME IInv, NEW c \in Calls, ExecuteDeploy(c) PROVE IInv'
<1>1. pc[c] = "execute_deploy"
  BY DEF ExecuteDeploy, Step
<1>2. local[c] \in Local /\ Cleared(local[c])
  BY <1>1 DEF IInv, TypeOK, Ready
<1> PICK l \in Local : l = local[c]
  BY <1>2
<1> PICK d \in Deployments : \E result \in {"LIVE", "FAILED"} :
      /\ IsNext(deployments, d)
      /\ Step(c, "execute_deploy", IF result = "LIVE" THEN "execute_executed" ELSE "execute_revert", l)
      /\ deployments' = [deployments EXCEPT ![d] =
           [status |-> result, plan |-> l.plan, of |-> Null, process |-> crashes,
            approval |-> l.approval, by |-> l.reviewer]]
      /\ UNCHANGED <<product, plans, memos, approvals, lapsed, stops, crashes>>
  BY DEF ExecuteDeploy
<1> PICK result \in {"LIVE", "FAILED"} :
      /\ IsNext(deployments, d)
      /\ Step(c, "execute_deploy", IF result = "LIVE" THEN "execute_executed" ELSE "execute_revert", l)
      /\ deployments' = [deployments EXCEPT ![d] =
           [status |-> result, plan |-> l.plan, of |-> Null, process |-> crashes,
            approval |-> l.approval, by |-> l.reviewer]]
      /\ UNCHANGED <<product, plans, memos, approvals, lapsed, stops, crashes>>
  OBVIOUS
<1> PICK to \in PC : to = IF result = "LIVE" THEN "execute_executed" ELSE "execute_revert"
  BY DEF PC
<1> PICK row : row = [status |-> result, plan |-> l.plan, of |-> Null, process |-> crashes,
                      approval |-> l.approval, by |-> l.reviewer]
  OBVIOUS
<1>3. /\ l.plan \in Plans /\ l.approval \in Approvals /\ l.reviewer \in Humans
      /\ Exists(l.approval) /\ approvals[l.approval].plan = l.plan
  BY <1>2 DEF Cleared
<1>4. row \in [status : {"ABSENT", "LIVE", "FAILED", "ROLLED_BACK"}, plan : Plans \cup {Null},
               of : Deployments \cup {Null}, process : 0 .. MaxCrashes,
               approval : Approvals \cup {Null}, by : Humans \cup {NoOne, Sweeper}]
  BY <1>3 DEF IInv, TypeOK
<1>5. /\ row.plan \in Plans /\ row.by \in Humans /\ row.approval \in Approvals
      /\ Exists(row.approval) /\ approvals[row.approval].plan = row.plan
  BY <1>3
<1>6. deployments[d].status = "ABSENT" /\ deployments' = [deployments EXCEPT ![d] = row]
  BY DEF IsNext
<1>7. result = "LIVE" => Ran(l.plan)'
  BY <1>6 DEF IInv, TypeOK, Ran
<1>8. Ready(to, l)'
  BY <1>3, <1>7 DEF Ready, AtPlan
<1>9. Step(c, "execute_deploy", to, l) /\ UNCHANGED <<product, plans, memos, approvals, lapsed, stops, crashes>>
  OBVIOUS
<1> QED BY ONLY IInv, c \in Calls, to \in PC, l \in Local, d \in Deployments, <1>4, <1>5, <1>6, <1>8, <1>9,
           DeploymentRowIInv

LEMMA RollbackRowIInv == ASSUME IInv, NEW c \in Calls, RollbackRow(c) PROVE IInv'
<1>1. pc[c] = "rollback_row" /\ local[c] \in Local
  BY DEF RollbackRow, Step, IInv, TypeOK
<1>2. local[c].row \in Deployments /\ local[c].plan \in Plans \cup {Null}
  BY <1>1 DEF IInv, Ready, Local
<1> PICK l \in Local : l = local[c]
  BY <1>1
<1> PICK status \in {"ROLLED_BACK", "FAILED"} :
      status = IF deployments[l.row].process = crashes THEN "ROLLED_BACK" ELSE "FAILED"
  OBVIOUS
<1> PICK to \in PC : to = IF deployments[l.row].process = crashes THEN "rollback_pause" ELSE "idle"
  BY DEF PC
<1> PICK row : row = [status |-> status, plan |-> l.plan, of |-> l.row,
                      process |-> crashes, approval |-> Null, by |-> NoOne]
  OBVIOUS
<1> PICK r \in Deployments :
      /\ IsNext(deployments, r)
      /\ Step(c, "rollback_row", to, l)
      /\ deployments' = [deployments EXCEPT ![r] = row]
      /\ UNCHANGED <<product, plans, memos, approvals, lapsed, stops, crashes>>
  BY DEF RollbackRow
<1>3. row \in [status : {"ABSENT", "LIVE", "FAILED", "ROLLED_BACK"}, plan : Plans \cup {Null},
               of : Deployments \cup {Null}, process : 0 .. MaxCrashes,
               approval : Approvals \cup {Null}, by : Humans \cup {NoOne, Sweeper}]
  BY <1>2 DEF IInv, TypeOK
<1>4. row.status # "LIVE" /\ deployments[r].status = "ABSENT"
  BY DEF IsNext
<1>5. to \in {"idle", "rollback_pause"}
  OBVIOUS
<1>6. Ready(to, l)'
  BY <1>5 DEF Ready, AtPlan
<1> QED BY <1>3, <1>4, <1>6, DeploymentRowIInv

LEMMA EnvironmentIInv == ASSUME IInv, Crash \/ (\E a \in Approvals : Lapse(a)) PROVE IInv'
<1>1. CASE Crash
  <2>1. UNCHANGED tables /\ crashes' \in 0 .. MaxCrashes
    BY <1>1, BoundsAssumption DEF Crash, IInv, TypeOK
  <2>2. pc' \in [Calls -> PC] /\ local' \in [Calls -> Local]
    BY <1>1, Constants DEF Crash, PC
  <2>3. \A c \in Calls : Ready(pc[c], local[c])'
    BY <1>1 DEF Crash, Ready, AtPlan
  <2>4. UNCHANGED <<approvals, deployments>>
    BY <2>1 DEF tables
  <2>5. PlansOK' /\ ProductOK'
    BY <2>1, <2>4, RowsUnchanged DEF PlansOK, ProductOK, IInv, tables
  <2> QED BY <2>1, <2>2, <2>3, <2>4, <2>5, RowsUnchanged DEF IInv, TypeOK, tables
<1>2. CASE \E a \in Approvals : Lapse(a)
  BY <1>2 DEF Lapse, IInv, TypeOK, ApprovalsOK, DeploymentsOK, PlansOK, ProductOK, Exists, Ran, AnyRan,
              Ready, Cleared
<1> QED BY <1>1, <1>2

-----------------------------------------------------------------------------
LEMMA InitIInv == Init => IInv
<1> SUFFICES ASSUME Init PROVE IInv
  OBVIOUS
<1>1. TypeOK
  BY BoundsAssumption, Constants
     DEF Init, TypeOK, ProductStatus, AbsentPlan, AbsentApproval, AbsentDeployment, PC
<1>2. \A c \in Calls : Ready(pc[c], local[c])
  BY DEF Init, Ready, AtPlan
<1>3. ApprovalsOK /\ DeploymentsOK /\ PlansOK /\ ProductOK
  BY DEF Init, ApprovalsOK, DeploymentsOK, PlansOK, ProductOK, AbsentPlan, AbsentApproval, AbsentDeployment, Exists
<1> QED BY <1>1, <1>2, <1>3 DEF IInv

LEMMA NextIInv == IInv /\ [Next]_vars => IInv'
<1> SUFFICES ASSUME IInv, [Next]_vars PROVE IInv'
  OBVIOUS
<1>1. CASE UNCHANGED vars
  BY <1>1 DEF vars, tables, IInv, TypeOK, ApprovalsOK, DeploymentsOK, PlansOK, ProductOK, Exists, Ran, AnyRan,
              Ready, Cleared
<1>2. ASSUME NEW c \in Calls, Begin(c) PROVE IInv'
  BY <1>2, LaunchBeginIInv, ProductReadsIInv, StopReadsIInv, SweepListIInv, RequestReadIInv, ExecuteStopIInv,
     MemoReadIInv, ApplyIInv, DecideReadIInv, RollbackReadIInv DEF Begin
<1>3. ASSUME NEW c \in Calls, Continue(c) PROVE IInv'
  BY <1>3, ProductReadsIInv, ProductWriteIInv, PlanWriteIInv, LaunchStrategistIInv, LaunchPlanIInv, LaunchMemoIInv,
     MemoWriteIInv, RequestCreateIInv, RequestAttachIInv, DecideWriteIInv, ApplyIInv, ApplyPlanIInv, ApplySetIInv,
     ExecuteStopIInv, ExecutePlanIInv, ExecuteApprovalIInv, ExecuteFreshIInv, ExecuteDeployIInv,
     ExecuteExecutedIInv, RollbackRowIInv, StopWritesIInv, SweepExpireIInv DEF Continue
<1> QED BY <1>1, <1>2, <1>3, EnvironmentIInv DEF Next

LEMMA Invariance == Spec => []IInv
BY InitIInv, NextIInv, PTL DEF Spec

-----------------------------------------------------------------------------
(* Every variable keeps its type.                                          *)
THEOREM TypeCorrectness == Spec => []TypeOK
<1>1. IInv => TypeOK
  BY DEF IInv
<1> QED BY <1>1, Invariance, PTL

(* No plan goes live without a human's approval of that plan, whatever     *)
(* races the decide, attach, apply and execute calls run.                  *)
THEOREM HumanApproval == Spec => []LiveDeploymentsAreHumanApproved
<1>1. IInv => LiveDeploymentsAreHumanApproved
  BY DEF IInv, DeploymentsOK, LiveDeploymentsAreHumanApproved, DeploymentsOf
<1> QED BY <1>1, Invariance, PTL

(* EXECUTED is never set on the attempt alone.                             *)
THEOREM ExecutedIsReal == Spec => []ExecutedPlansAreDeployed
<1>1. IInv => ExecutedPlansAreDeployed
  BY DEF IInv, PlansOK, Ran, ExecutedPlansAreDeployed, DeploymentsOf
<1> QED BY <1>1, Invariance, PTL

(* LIVE is never set speculatively.                                        *)
THEOREM LiveIsReal == Spec => []LiveProductsWereDeployed
<1>1. IInv => LiveProductsWereDeployed
  BY DEF IInv, ProductOK, AnyRan, Ran, LiveProductsWereDeployed, DeploymentsOf
<1> QED BY <1>1, Invariance, PTL

-----------------------------------------------------------------------------
(***************************************************************************)
(* What holds of the launch gate, for any number of plans, approvals,      *)
(* deployments and stops, when its calls are served one at a time. A call  *)
(* checks what it has read and writes later, so that two racing EXECUTE    *)
(* calls deploy one plan twice and a stop may be activated between the     *)
(* check and the deployment: none of these theorems holds of two calls.    *)
(*                                                                         *)
(* What is said of memos and of rollbacks also needs that no restart cuts  *)
(* a call in two: a restart between the decision on a memo and the move of *)
(* the product forgets the rejection, and the dev provider forgets what it *)
(* has deployed.                                                           *)
(***************************************************************************)

OneAtATime    == \A c, d \in Calls : c = d
Uninterrupted == MaxCrashes = 0

-----------------------------------------------------------------------------
(* The inductive invariant: the product remembers that it has been         *)
(* deployed, so that the call that deploys it is the first.                *)

Live     == {d \in Deployments : deployments[d].status = "LIVE"}
Rejected == \E p \in Plans : memos[p] = "REJECT"

Open     == {"READY_FOR_DEPLOYMENT", "LAUNCH_PLANNING", "AWAITING_LAUNCH_APPROVAL"}
Deployed == {"DEPLOYING", "LIVE", "PAUSED"}

Launching == {"launch_strategist", "launch_plan", "launch_memo", "launch_done"}

(* The points after the check of the stop and before the deployment.       *)
Executing(at, l) ==
  \/ at \in {"execute_plan", "execute_approval", "execute_fresh", "execute_product", "execute_deploy"}
  \/ at = "product_write" /\ l.then = "execute_deploy"

(* What the only call in flight knows of the tables.                       *)
Alone(at, l) ==
  /\ at \in Launching => product = "LAUNCH_PLANNING"
  /\ at = "product_write" =>
       /\ l.to \notin {"LIVE", "PAUSED"} => Live = {}
       /\ l.then = "launch_strategist" => l.to = "LAUNCH_PLANNING"
       /\ l.then = "execute_deploy" => l.to = "DEPLOYING"
       /\ l.to # "READY_FOR_DEPLOYMENT"
  /\ at = "execute_deploy" => product = "DEPLOYING" /\ Live = {}
  /\ at = "execute_revert" => Live = {}
  /\ at \in {"memo_write", "memo_product"} => product # "READY_FOR_DEPLOYMENT"
  /\ Executing(at, l) => ~StopActive

(* The call is about to fail the launch its human has rejected, or to      *)
(* pause the product it has rolled back.                                   *)
Failing(at, l) == (at = "memo_product" /\ l.decision = "REJECT") \/ (at = "product_write" /\ l.to = "FAILED")
Pausing(at, l) == at = "rollback_pause" \/ (at = "product_write" /\ l.to = "PAUSED")

(* ... and what it knows besides when no restart has cut a call in two.    *)
Whole(at, l) ==
  /\ at \in Launching \cup {"execute_deploy", "execute_revert"} => ~Rejected
  /\ at = "product_write" /\ l.to \in Open \cup {"DEPLOYING"} => ~Rejected
  /\ \/ at \in {"execute_executed", "execute_live"}
     \/ at = "plan_write" /\ l.then = "execute_live"
     \/ at = "product_write" /\ l.to = "LIVE"
     => Served # {}
  /\ at = "rollback_row" => l.row \in Live

DeployedOnce ==
  /\ \A d, e \in Live : d = e
  /\ Live # {} => product \in Deployed
MemosOK == product = "READY_FOR_DEPLOYMENT" => \A p \in Plans : memos[p] = "absent"
RejectionsOK == Rejected /\ product \in Open => \E c \in Calls : Failing(pc[c], local[c])
RollbacksOK ==
  /\ \A r \in Deployments : deployments[r].of # Null => deployments[r].status = "ROLLED_BACK" /\ deployments[r].of \in Live
  /\ product = "LIVE" => Served # {} \/ \E c \in Calls : Pausing(pc[c], local[c])

SerialInv ==
  /\ IInv
  /\ \A c \in Calls : Alone(pc[c], local[c])
  /\ DeployedOnce
  /\ MemosOK
  /\ Uninterrupted =>
       /\ \A c \in Calls : Whole(pc[c], local[c])
       /\ RejectionsOK
       /\ RollbacksOK

-----------------------------------------------------------------------------
(* One call.                                                               *)

LEMMA OneCall ==
  ASSUME OneAtATime, TypeOK, NEW c \in Calls, NEW from, NEW to \in PC, NEW read \in Local, Step(c, from, to, read)
  PROVE  /\ pc[c] = from /\ pc'[c] = to
         /\ to # "idle" => local'[c] = read
         /\ \A d \in Calls : d = c
BY StepFacts DEF OneAtATime

(* What a step has to show of its call and of the tables it has written.   *)
LEMMA StepSerial ==
  ASSUME SerialInv, IInv', OneAtATime,
         NEW c \in Calls, NEW from, NEW to \in PC, NEW read \in Local, Step(c, from, to, read),
         to # "idle" => Alone(to, read)',
         DeployedOnce', MemosOK',
         Uninterrupted =>
           /\ to # "idle" => Whole(to, read)'
           /\ (Rejected' /\ product' \in Open) => (to # "idle" /\ Failing(to, read))
           /\ \A r \in Deployments : deployments'[r].of # Null =>
                deployments'[r].status = "ROLLED_BACK" /\ deployments'[r].of \in Live'
           /\ product' = "LIVE" => Served' # {} \/ (to # "idle" /\ Pausing(to, read))
  PROVE  SerialInv'
<1>1. /\ pc'[c] = to
      /\ to # "idle" => local'[c] = read
      /\ \A d \in Calls : d = c
  BY OneCall DEF SerialInv, IInv
<1>2. ASSUME NEW d \in Calls PROVE Alone(pc[d], local[d])'
  <2>1. CASE to = "idle"
    BY <1>1, <2>1 DEF Alone, Executing, Launching
  <2>2. CASE to # "idle"
    BY <1>1, <2>2 DEF Alone, Executing
  <2> QED BY <2>1, <2>2
<1>3. ASSUME NEW d \in Calls, Uninterrupted PROVE Whole(pc[d], local[d])'
  <2>1. CASE to = "idle"
    BY <1>1, <2>1 DEF Whole, Launching
  <2>2. CASE to # "idle"
    BY <1>1, <1>3, <2>2 DEF Whole
  <2> QED BY <2>1, <2>2
<1>4. to # "idle" /\ Failing(to, read) => Failing(pc'[c], local'[c])
  BY <1>1
<1>5. to # "idle" /\ Pausing(to, read) => Pausing(pc'[c], local'[c])
  BY <1>1
<1>6. Uninterrupted => RejectionsOK' /\ RollbacksOK'
  BY <1>4, <1>5 DEF RejectionsOK, RollbacksOK, Failing, Pausing
<1>7. Uninterrupted' <=> Uninterrupted
  BY DEF Uninterrupted
<1> QED BY <1>2, <1>3, <1>6, <1>7 DEF SerialInv

(* A step that writes nothing the invariant looks at.                      *)
LEMMA QuietStep ==
  ASSUME SerialInv, IInv', OneAtATime,
         NEW c \in Calls, NEW from, NEW to \in PC, NEW read \in Local, Step(c, from, to, read),
         UNCHANGED <<product, memos, deployments, stops>>,
         to # "idle" => Alone(to, read),
         Uninterrupted =>
           /\ to # "idle" => Whole(to, read)
           /\ (Failing(from, local[c]) /\ product \in Open) => (to # "idle" /\ Failing(to, read))
           /\ (Pausing(from, local[c]) /\ product = "LIVE") => (to # "idle" /\ Pausing(to, read))
  PROVE  SerialInv'
<1>1. Live' = Live /\ Served' = Served /\ Rejected' = Rejected /\ StopActive' = StopActive
  BY DEF Live, Served, RolledBackBy, Rejected, StopActive
<1>2. to # "idle" => Alone(to, read)'
  BY <1>1 DEF Alone, Executing
<1>3. DeployedOnce' /\ MemosOK'
  BY <1>1 DEF DeployedOnce, MemosOK, SerialInv
<1>4. (to # "idle" => Whole(to, read)) => (to # "idle" => Whole(to, read)')
  BY <1>1 DEF Whole
<1>5. pc[c] = from /\ \A d \in Calls : d = c
  BY OneCall DEF SerialInv, IInv
<1>6. Uninterrupted =>
           /\ (Rejected' /\ product' \in Open) => (to # "idle" /\ Failing(to, read))
           /\ product' = "LIVE" => Served' # {} \/ (to # "idle" /\ Pausing(to, read))
           /\ \A r \in Deployments : deployments'[r].of # Null =>
                deployments'[r].status = "ROLLED_BACK" /\ deployments'[r].of \in Live'
  BY <1>1, <1>5 DEF SerialInv, RejectionsOK, RollbacksOK
<1> QED BY <1>2, <1>3, <1>4, <1>6, StepSerial

(* The points at which the call knows nothing of the tables.               *)
Plain == PC \ (Launching \cup
  {"product_write", "plan_write", "memo_write", "memo_product", "execute_plan", "execute_approval", "execute_fresh",
   "execute_product", "execute_deploy", "execute_executed", "execute_live", "execute_revert", "rollback_row",
   "rollback_pause"})

LEMMA PlainStep ==
  ASSUME SerialInv, IInv', OneAtATime,
         NEW c \in Calls, NEW from \in Plain, NEW to \in Plain, NEW read \in Local, Step(c, from, to, read),
         UNCHANGED <<product, memos, deployments, stops>>
  PROVE  SerialInv'
<1>1. Alone(to, read) /\ Whole(to, read) /\ to \in PC
  BY DEF Plain, Launching, Alone, Whole, Executing
<1>2. ~Failing(from, local[c]) /\ ~Pausing(from, local[c])
  BY DEF Plain, Failing, Pausing
<1> QED BY <1>1, <1>2, QuietStep

LEMMA ReadSerial ==
  ASSUME SerialInv, IInv', OneAtATime,
         NEW c \in Calls, NEW from \in PC \ {"product_write", "memo_product", "rollback_pause"},
         NEW ok \in BOOLEAN, NEW to \in PC, NEW read \in Local, ReadStep(c, from, ok, to, read),
         ok => Alone(to, read) /\ (Uninterrupted => Whole(to, read))
  PROVE  SerialInv'
<1> DEFINE at == IF ok THEN to ELSE "idle"
<1>1. at \in PC /\ (at # "idle" => ok /\ at = to)
  BY DEF PC
<1>2. Step(c, from, at, read) /\ UNCHANGED <<product, memos, deployments, stops>>
  BY DEF ReadStep, tables
<1>3. ~Failing(from, local[c]) /\ ~Pausing(from, local[c])
  BY DEF Failing, Pausing
<1> HIDE DEF at
<1> QED BY <1>1, <1>2, <1>3, QuietStep

LEMMA SetProductSerial ==
  ASSUME SerialInv, IInv', OneAtATime,
         NEW c \in Calls, NEW from \in PC \ {"product_write"}, NEW status \in ProductStatus,
         NEW then \in {"idle", "launch_strategist", "execute_deploy"},
         SetProduct(c, from, status, then),
         ProductMay(status) =>
           /\ status \notin {"LIVE", "PAUSED"} => Live = {}
           /\ then = "launch_strategist" => status = "LAUNCH_PLANNING"
           /\ then = "execute_deploy" => status = "DEPLOYING" /\ ~StopActive,
         Uninterrupted =>
           /\ ProductMay(status) =>
                /\ status \in Open \cup {"DEPLOYING"} => ~Rejected
                /\ status = "LIVE" => Served # {}
           /\ Failing(from, local[c]) => status = "FAILED"
           /\ Pausing(from, local[c]) => status = "PAUSED"
  PROVE  SerialInv'
<1> DEFINE read == [local[c] EXCEPT !.to = status, !.then = then]
           at == IF ProductMay(status) THEN "product_write" ELSE "idle"
<1>1. local[c] \in Local /\ then \in PC /\ at \in PC
  BY DEF SerialInv, IInv, TypeOK, PC
<1>2. read \in Local
  BY <1>1, MoveInLocal
<1>3. read.to = status /\ read.then = then
  BY <1>1 DEF Local
<1>4. Step(c, from, at, read) /\ UNCHANGED <<product, memos, deployments, stops>>
  BY DEF SetProduct, ReadStep, tables
<1>5. pc[c] = from
  BY <1>4 DEF Step
<1>6. at # "idle" => at = "product_write" /\ ProductMay(status)
  OBVIOUS
<1>7. ProductMay(status) => status # "READY_FOR_DEPLOYMENT"
  BY DEF ProductMay, ProductTransitions, SerialInv, IInv, TypeOK, ProductStatus
<1>8. at # "idle" => Alone(at, read)
  BY <1>3, <1>6, <1>7 DEF Alone, Launching, Executing
<1>9. Uninterrupted => (at # "idle" => Whole(at, read))
  BY <1>3, <1>6 DEF Whole, Launching
<1>10. ASSUME Uninterrupted, Failing(from, local[c]), product \in Open PROVE at # "idle" /\ Failing(at, read)
  <2>1. status = "FAILED" /\ from = "memo_product"
    BY <1>10 DEF Failing
  <2>2. product \in {"LAUNCH_PLANNING", "AWAITING_LAUNCH_APPROVAL"}
    BY <1>5, <1>10, <2>1 DEF SerialInv, Alone, Open
  <2>3. ProductMay(status)
    BY <2>1, <2>2 DEF ProductMay, ProductTransitions, ProductStatus
  <2> QED BY <1>3, <2>1, <2>3 DEF Failing
<1>11. ASSUME Uninterrupted, Pausing(from, local[c]), product = "LIVE" PROVE at # "idle" /\ Pausing(at, read)
  <2>1. status = "PAUSED"
    BY <1>11
  <2>2. ProductMay(status)
    BY <1>11, <2>1 DEF ProductMay, ProductTransitions, ProductStatus
  <2> QED BY <1>3, <2>1, <2>2 DEF Pausing
<1> HIDE DEF at, read
<1> QED BY <1>1, <1>2, <1>4, <1>8, <1>9, <1>10, <1>11, QuietStep

-----------------------------------------------------------------------------
(* The steps that only read.                                               *)

LEMMA WhereItIs ==
  ASSUME SerialInv, NEW c \in Calls, NEW from, pc[c] = from
  PROVE  /\ local[c] \in Local /\ Ready(from, local[c]) /\ Alone(from, local[c])
         /\ Uninterrupted => Whole(from, local[c])
         /\ pc \in [Calls -> PC] /\ product \in ProductStatus
BY DEF SerialInv, IInv, TypeOK

(* A product that may still be launched has never been deployed, and is    *)
(* not one whose launch was rejected.                                      *)
LEMMA OpenIsFresh ==
  ASSUME SerialInv, OneAtATime, product \in Open
  PROVE  /\ Live = {}
         /\ \A c \in Calls : Uninterrupted /\ ~Failing(pc[c], local[c]) => ~Rejected
<1>1. Live = {}
  BY DEF SerialInv, DeployedOnce, Open, Deployed
<1>2. ASSUME NEW c \in Calls, Uninterrupted, ~Failing(pc[c], local[c]) PROVE ~Rejected
  BY <1>2 DEF OneAtATime, SerialInv, RejectionsOK
<1> QED BY <1>1, <1>2

LEMMA LaunchReadsSerial ==
  ASSUME SerialInv, IInv', OneAtATime, NEW c \in Calls,
         LaunchBegin(c) \/ LaunchStrategist(c) \/ LaunchDone(c) \/ LaunchFail(c)
  PROVE  SerialInv'
<1>0. Launching \cup {"idle"} \subseteq PC \ {"product_write", "memo_product", "rollback_pause"}
  BY DEF Launching, PC
<1>s. {"LAUNCH_PLANNING", "AWAITING_LAUNCH_APPROVAL", "FAILED"} \subseteq ProductStatus
  BY DEF ProductStatus
<1>f. \A from \in Launching \cup {"idle"} : ~Failing(from, local[c]) /\ ~Pausing(from, local[c])
  BY DEF Launching, Failing, Pausing
<1>p. ASSUME product \in Open, pc[c] \in Launching \cup {"idle"} PROVE Live = {} /\ (Uninterrupted => ~Rejected)
  BY <1>p, <1>f, OpenIsFresh
<1>l. pc[c] \in Launching => product = "LAUNCH_PLANNING"
  BY DEF SerialInv, Alone
<1>1. CASE LaunchBegin(c)
  <2>1. product \in Open
    BY <1>1 DEF LaunchBegin, PlansLaunch, Open
  <2>2. pc[c] = "idle"
    BY <1>1 DEF LaunchBegin, SetProduct, ReadStep, Step
  <2>3. CASE SetProduct(c, "idle", "LAUNCH_PLANNING", "launch_strategist")
    BY <1>0, <1>s, <1>f, <1>p, <2>1, <2>2, <2>3, SetProductSerial
  <2>4. CASE product = "LAUNCH_PLANNING" /\ ReadStep(c, "idle", TRUE, "launch_strategist", Nothing)
    <3>1. Alone("launch_strategist", Nothing) /\ (Uninterrupted => Whole("launch_strategist", Nothing))
      BY <1>p, <2>1, <2>2, <2>4 DEF Alone, Whole, Launching, Executing
    <3>2. "launch_strategist" \in PC
      BY DEF PC
    <3> QED BY <1>0, <2>4, <3>1, <3>2, Constants, ReadSerial
  <2> QED BY <1>1, <2>3, <2>4 DEF LaunchBegin, PlansLaunch
<1>2. CASE LaunchStrategist(c)
  <2>1. pc[c] = "launch_strategist" /\ "launch_strategist" \in Launching
    BY <1>2 DEF LaunchStrategist, ReadStep, Step, Launching
  <2>2. product = "LAUNCH_PLANNING" /\ product \in Open
    BY <1>l, <2>1 DEF Open
  <2>3. Alone("launch_plan", Nothing) /\ (Uninterrupted => Whole("launch_plan", Nothing))
    BY <1>p, <2>1, <2>2 DEF Alone, Whole, Launching, Executing
  <2>4. "launch_plan" \in PC /\ PlansLaunch \in BOOLEAN
    BY DEF PC, PlansLaunch
  <2> QED BY <1>0, <1>2, <2>1, <2>3, <2>4, Constants, ReadSerial DEF LaunchStrategist
<1>3. ASSUME NEW from \in Launching, NEW status \in {"AWAITING_LAUNCH_APPROVAL", "FAILED"},
             SetProduct(c, from, status, "idle")
      PROVE  SerialInv'
  <2>1. pc[c] = from
    BY <1>3 DEF SetProduct, ReadStep, Step
  <2>2. product \in Open
    BY <1>l, <2>1 DEF Open
  <2> QED BY <1>0, <1>3, <1>s, <1>f, <1>p, <2>1, <2>2, SetProductSerial
<1> QED BY <1>1, <1>2, <1>3 DEF LaunchDone, LaunchFail, Launching

LEMMA MemoReadsSerial ==
  ASSUME SerialInv, IInv', OneAtATime, NEW c \in Calls,
         MemoProduct(c) \/ (\E p \in Plans, d \in MemoDecision : MemoRead(c, p, d))
  PROVE  SerialInv'
<1>1. CASE MemoProduct(c)
  <2> DEFINE status == IF local[c].decision = "REJECT" THEN "FAILED" ELSE "LAUNCH_PLANNING"
  <2>1. pc[c] = "memo_product" /\ "memo_product" \in PC /\ SetProduct(c, "memo_product", status, "idle")
    BY <1>1 DEF MemoProduct, SetProduct, ReadStep, Step, PC
  <2>2. status \in ProductStatus /\ product \in ProductStatus
    BY WhereItIs, <2>1 DEF ProductStatus
  <2>3. product # "READY_FOR_DEPLOYMENT"
    BY <2>1 DEF SerialInv, Alone
  <2>4. ProductMay(status) => product \in Open
    BY <2>2, <2>3 DEF ProductMay, ProductTransitions, Open, ProductStatus
  <2>5. status # "FAILED" => ~Failing("memo_product", local[c])
    BY DEF Failing
  <2>6. Failing("memo_product", local[c]) => status = "FAILED"
    BY DEF Failing
  <2>7. ~Pausing("memo_product", local[c])
    BY DEF Pausing
  <2>8. status \notin {"LIVE", "PAUSED"} /\ status \in {"FAILED", "LAUNCH_PLANNING"}
    OBVIOUS
  <2>9. status \in Open \cup {"DEPLOYING"} => status # "FAILED"
    BY DEF Open
  <2> HIDE DEF status
  <2> QED BY <2>1, <2>2, <2>4, <2>5, <2>6, <2>7, <2>8, <2>9, OpenIsFresh, SetProductSerial
<1>2. ASSUME NEW p \in Plans, NEW d \in MemoDecision, MemoRead(c, p, d) PROVE SerialInv'
  <2> DEFINE read == [Nothing EXCEPT !.plan = p, !.decision = d]
  <2>1. read \in Local /\ "memo_write" \in PC /\ "idle" \in PC
    BY Constants DEF Nothing, Local, PC
  <2>2. ReadStep(c, "idle", TRUE, "memo_write", read) /\ memos[p] # "absent"
    BY <1>2 DEF MemoRead
  <2>3. product # "READY_FOR_DEPLOYMENT"
    BY <2>2 DEF SerialInv, MemosOK
  <2>4. Alone("memo_write", read) /\ Whole("memo_write", read)
    BY <2>3 DEF Alone, Whole, Launching, Executing
  <2> HIDE DEF read
  <2> QED BY <2>1, <2>2, <2>4, ReadSerial
<1> QED BY <1>1, <1>2

LEMMA PlainReadsSerial ==
  ASSUME SerialInv, IInv', OneAtATime, NEW c \in Calls,
         \/ ActivateRead(c) \/ ResumeRead(c) \/ SweepList(c) \/ ApplyApproval(c) \/ ApplyPlan(c)
         \/ \E p \in Plans : RequestRead(c, p)
         \/ \E a \in Approvals : ApplyBegin(c, a)
         \/ \E a \in Approvals, h \in Humans, d \in Decisions : DecideRead(c, a, h, d)
  PROVE  SerialInv'
<1>0. {"idle", "stop_create", "stop_resume", "sweep", "apply_approval", "apply_plan", "apply_set", "execute_stop",
       "request_create", "decide_write"} \subseteq Plain
  BY DEF Plain, PC, Launching
<1>1. ASSUME NEW from \in Plain, NEW ok \in BOOLEAN, NEW to \in Plain, NEW read \in Local, ReadStep(c, from, ok, to, read)
      PROVE  SerialInv'
  <2> DEFINE at == IF ok THEN to ELSE "idle"
  <2>1. at \in Plain /\ Step(c, from, at, read) /\ UNCHANGED <<product, memos, deployments, stops>>
    BY <1>0, <1>1 DEF ReadStep, tables
  <2> HIDE DEF at
  <2> QED BY <1>1, <2>1, PlainStep
<1>2. CASE ActivateRead(c)
  BY <1>0, <1>1, <1>2, Constants DEF ActivateRead
<1>3. CASE ResumeRead(c)
  <2> PICK s \in Stops : ReadStep(c, "idle", TRUE, "stop_resume", [Nothing EXCEPT !.row = s])
    BY <1>3 DEF ResumeRead
  <2> DEFINE read == [Nothing EXCEPT !.row = s]
  <2>1. read \in Local
    BY Constants DEF Nothing, Local
  <2> HIDE DEF read
  <2> QED BY <1>0, <1>1, <2>1 DEF read
<1>4. CASE SweepList(c)
  <2> DEFINE read == [Nothing EXCEPT !.swept = Overdues]
  <2>1. read \in Local
    BY Constants DEF SerialInv, IInv, TypeOK, Overdues, Nothing, Local
  <2>2. ReadStep(c, "idle", TRUE, "sweep", read)
    BY <1>4 DEF SweepList
  <2> HIDE DEF read
  <2> QED BY <1>0, <1>1, <2>1, <2>2
<1>5. ASSUME NEW from \in Plain, NEW a \in Approvals, NEW then \in {"idle", "execute_stop"}, ApplyRead(c, from, a, then)
      PROVE  SerialInv'
  <2> DEFINE read == [Nothing EXCEPT !.plan = approvals[a].plan, !.to = Verdict(a), !.then = then]
             ok == approvals[a].status \in {"APPROVED", "REJECTED"}
  <2>1. approvals[a].plan \in Plans \cup {Null} /\ Verdict(a) \in PlanStatus /\ then \in PC
    BY DEF SerialInv, IInv, TypeOK, Verdict, PlanStatus, PC
  <2>a. PICK p, v : p = approvals[a].plan /\ v = Verdict(a)
    OBVIOUS
  <2>b. [Nothing EXCEPT !.plan = p, !.to = v, !.then = then] \in Local
    BY <2>1, <2>a, Constants DEF Local
  <2>2. read \in Local /\ ok \in BOOLEAN
    BY <2>a, <2>b
  <2>3. ReadStep(c, from, ok, "apply_plan", read)
    BY <1>5 DEF ApplyRead
  <2> HIDE DEF read, ok
  <2> QED BY <1>0, <1>1, <2>2, <2>3
<1>6. CASE ApplyApproval(c)
  <2>1. pc[c] = "apply_approval"
    BY <1>6 DEF ApplyApproval, ApplyRead, ReadStep, Step
  <2>2. local[c].approval \in Approvals /\ local[c].then \in {"idle", "execute_stop"}
    BY <2>1, WhereItIs DEF Ready
  <2> QED BY <1>0, <1>5, <1>6, <2>2 DEF ApplyApproval
<1>7. CASE ApplyPlan(c)
  <2> DEFINE status == plans[local[c].plan].status
             applied == status \in {"HUMAN_APPROVED", "REJECTED", "EXECUTED"}
             ok == applied => status = "HUMAN_APPROVED"
             to == IF applied THEN local[c].then ELSE "apply_set"
  <2>1. ReadStep(c, "apply_plan", ok, to, local[c])
    BY <1>7 DEF ApplyPlan
  <2>2. Ready("apply_plan", local[c]) /\ local[c] \in Local
    BY <2>1, WhereItIs DEF ReadStep, Step
  <2>3. to \in Plain /\ ok \in BOOLEAN
    BY <1>0, <2>2 DEF Ready
  <2> HIDE DEF status, applied, ok, to
  <2> QED BY <1>0, <1>1, <2>1, <2>2, <2>3
<1>8. CASE \E p \in Plans : RequestRead(c, p)
  <2> PICK p \in Plans : ReadStep(c, "idle", TRUE, "request_create", [Nothing EXCEPT !.plan = p])
    BY <1>8 DEF RequestRead
  <2> DEFINE read == [Nothing EXCEPT !.plan = p]
  <2>1. read \in Local
    BY Constants DEF Nothing, Local
  <2> HIDE DEF read
  <2> QED BY <1>0, <1>1, <2>1 DEF read
<1>9. CASE \E a \in Approvals : ApplyBegin(c, a)
  BY <1>0, <1>5, <1>9 DEF ApplyBegin
<1>10. ASSUME NEW a \in Approvals, NEW h \in Humans, NEW d \in Decisions, DecideRead(c, a, h, d) PROVE SerialInv'
  <2> DEFINE read == [Nothing EXCEPT !.approval = a, !.decision = d, !.reviewer = h]
  <2>1. read \in Local
    BY Constants DEF Nothing, Local
  <2>2. ReadStep(c, "idle", TRUE, "decide_write", read)
    BY <1>10 DEF DecideRead
  <2> HIDE DEF read
  <2> QED BY <1>0, <1>1, <2>1, <2>2
<1> QED BY <1>2, <1>3, <1>4, <1>6, <1>7, <1>8, <1>9, <1>10

(* The steps of EXECUTE up to the write that makes the product DEPLOYING.  *)
LEMMA ExecuteReadsSerial ==
  ASSUME SerialInv, IInv', OneAtATime, NEW c \in Calls,
         \/ ExecuteStop(c) \/ ExecutePlan(c) \/ ExecuteApproval(c) \/ ExecuteFresh(c)
         \/ \E p \in Plans : ExecuteBegin(c, p)
  PROVE  SerialInv'
<1>0. {"execute_plan", "execute_approval", "execute_fresh", "execute_product"} \subseteq PC
  BY DEF PC
<1>f. {"idle", "execute_stop", "execute_plan", "execute_approval", "execute_fresh"}
        \subseteq PC \ {"product_write", "memo_product", "rollback_pause"}
  BY DEF PC
<1>1. ASSUME NEW from \in {"idle", "execute_stop", "execute_plan", "execute_approval", "execute_fresh"},
             NEW ok \in BOOLEAN, NEW to \in {"execute_plan", "execute_approval", "execute_fresh", "execute_product"},
             NEW read \in Local, ReadStep(c, from, ok, to, read), ok => ~StopActive
      PROVE  SerialInv'
  <2>1. ok => Alone(to, read) /\ Whole(to, read)
    BY <1>1 DEF Alone, Whole, Executing, Launching
  <2> QED BY <1>0, <1>f, <1>1, <2>1, ReadSerial
<1>2. ASSUME NEW p \in Plans, NEW from \in {"idle", "execute_stop"},
             ReadStep(c, from, ~StopActive, "execute_plan", [Nothing EXCEPT !.plan = p])
      PROVE  SerialInv'
  <2> DEFINE read == [Nothing EXCEPT !.plan = p]
             ok == ~StopActive
  <2>1. read \in Local /\ ok \in BOOLEAN /\ (ok => ~StopActive)
    BY Constants DEF Nothing, Local
  <2>2. ReadStep(c, from, ok, "execute_plan", read)
    BY <1>2
  <2> HIDE DEF read, ok
  <2> QED BY <1>1, <2>1, <2>2
<1>3. pc[c] \in {"execute_plan", "execute_approval", "execute_fresh"} => ~StopActive
  BY DEF SerialInv, Alone, Executing
<1>4. CASE ExecuteStop(c)
  <2>1. Ready("execute_stop", local[c])
    BY <1>4, WhereItIs DEF ExecuteStop, ReadStep, Step
  <2> QED BY <1>2, <1>4, <2>1 DEF ExecuteStop, Ready, AtPlan
<1>5. CASE \E p \in Plans : ExecuteBegin(c, p)
  BY <1>2, <1>5 DEF ExecuteBegin
<1>6. CASE ExecutePlan(c)
  <2> DEFINE plan == plans[local[c].plan]
             ok == plan.status = "HUMAN_APPROVED" /\ plan.approval # Null
             read == [local[c] EXCEPT !.approval = plan.approval]
  <2>1. ReadStep(c, "execute_plan", ok, "execute_approval", read) /\ pc[c] = "execute_plan"
    BY <1>6 DEF ExecutePlan, ReadStep, Step
  <2>2. local[c].plan \in Plans /\ local[c] \in Local
    BY <2>1, WhereItIs DEF Ready, AtPlan
  <2>3. plan.approval \in Approvals \cup {Null}
    BY <2>2 DEF SerialInv, IInv, TypeOK
  <2>4. read \in Local /\ ok \in BOOLEAN
    BY <2>2, <2>3 DEF Local
  <2> HIDE DEF plan, ok, read
  <2> QED BY <1>1, <1>3, <2>1, <2>4
<1>7. CASE ExecuteApproval(c)
  <2> DEFINE a == local[c].approval
             ok == ApprovedFor(a, local[c].plan)
             read == [local[c] EXCEPT !.reviewer = approvals[a].reviewedBy]
  <2>1. ReadStep(c, "execute_approval", ok, "execute_fresh", read) /\ pc[c] = "execute_approval"
    BY <1>7 DEF ExecuteApproval, ReadStep, Step
  <2>2. a \in Approvals /\ local[c] \in Local
    BY <2>1, WhereItIs DEF Ready
  <2>3. read \in Local /\ ok \in BOOLEAN
    BY <2>2 DEF SerialInv, IInv, TypeOK, Local, ApprovedFor
  <2> HIDE DEF a, ok, read
  <2> QED BY <1>1, <1>3, <2>1, <2>3
<1>8. CASE ExecuteFresh(c)
  <2>1. pc[c] = "execute_fresh"
    BY <1>8 DEF ExecuteFresh, ReadStep, Step
  <2> QED BY <1>1, <1>3, <1>8, <2>1, WhereItIs DEF ExecuteFresh
<1> QED BY <1>4, <1>5, <1>6, <1>7, <1>8

(* The setStatus reads of EXECUTE and rollback.                            *)
LEMMA ExecuteMovesSerial ==
  ASSUME SerialInv, IInv', OneAtATime, NEW c \in Calls,
         ExecuteProduct(c) \/ ExecuteLive(c) \/ ExecuteRevert(c) \/ RollbackPause(c) \/ PauseProduct(c)
  PROVE  SerialInv'
<1>0. {"execute_product", "execute_live", "execute_revert", "rollback_pause", "idle"} \subseteq PC \ {"product_write"}
  BY DEF PC
<1>s. {"DEPLOYING", "LIVE", "AWAITING_LAUNCH_APPROVAL", "PAUSED"} \subseteq ProductStatus
  BY DEF ProductStatus
<1>f. \A from \in {"execute_product", "execute_live", "execute_revert", "rollback_pause", "idle"} :
        ~Failing(from, local[c]) /\ (from # "rollback_pause" => ~Pausing(from, local[c]))
  BY DEF Failing, Pausing
<1>o. "PAUSED" \notin Open \cup {"DEPLOYING"} /\ "LIVE" \notin Open \cup {"DEPLOYING"}
  BY DEF Open
<1>1. CASE ExecuteProduct(c)
  <2>1. SetProduct(c, "execute_product", "DEPLOYING", "execute_deploy") /\ pc[c] = "execute_product"
    BY <1>1 DEF ExecuteProduct, SetProduct, ReadStep, Step
  <2>2. ~StopActive
    BY <2>1 DEF SerialInv, Alone, Executing
  <2>3. ProductMay("DEPLOYING") => product \in Open
    BY <2>1, WhereItIs DEF ProductMay, ProductTransitions, ProductStatus, Open
  <2>4. ProductMay("DEPLOYING") => Live = {} /\ (Uninterrupted => ~Rejected)
    BY <1>f, <2>1, <2>3, OpenIsFresh
  <2> QED BY <1>0, <1>s, <1>f, <2>1, <2>2, <2>4, SetProductSerial
<1>2. CASE ExecuteLive(c)
  <2>1. SetProduct(c, "execute_live", "LIVE", "idle") /\ pc[c] = "execute_live"
    BY <1>2 DEF ExecuteLive, SetProduct, ReadStep, Step
  <2>2. Uninterrupted => Served # {}
    BY <2>1 DEF SerialInv, Whole
  <2> QED BY <1>0, <1>s, <1>f, <1>o, <2>1, <2>2, SetProductSerial
<1>3. CASE ExecuteRevert(c)
  <2>1. SetProduct(c, "execute_revert", "AWAITING_LAUNCH_APPROVAL", "idle") /\ pc[c] = "execute_revert"
    BY <1>3 DEF ExecuteRevert, SetProduct, ReadStep, Step
  <2>2. Live = {} /\ (Uninterrupted => ~Rejected)
    BY <2>1 DEF SerialInv, Alone, Whole
  <2> QED BY <1>0, <1>s, <1>f, <2>1, <2>2, SetProductSerial
<1>4. CASE RollbackPause(c) \/ PauseProduct(c)
  BY <1>0, <1>s, <1>f, <1>o, <1>4, SetProductSerial DEF RollbackPause, PauseProduct
<1> QED BY <1>1, <1>2, <1>3, <1>4

(* The setStatus reads of a plan.                                          *)
LEMMA PlanMovesSerial ==
  ASSUME SerialInv, IInv', OneAtATime, NEW c \in Calls, ApplySet(c) \/ ExecuteExecuted(c) PROVE SerialInv'
<1>0. {"apply_set", "execute_executed"} \subseteq PC \ {"product_write", "memo_product", "rollback_pause"}
      /\ "plan_write" \in PC
  BY DEF PC
<1>1. ASSUME NEW from \in {"apply_set", "execute_executed"}, NEW status \in PlanStatus, NEW then \in PC,
             SetPlan(c, from, status, then), then = "execute_live" => (Uninterrupted => Served # {})
      PROVE  SerialInv'
  <2> DEFINE read == [local[c] EXCEPT !.to = status, !.then = then]
             ok == PlanMay(local[c].plan, status)
  <2>1. local[c] \in Local
    BY DEF SerialInv, IInv, TypeOK
  <2>2. read \in Local /\ ok \in BOOLEAN
    BY <2>1, MoveInLocal DEF PlanMay
  <2>3. read.then = then
    BY <2>1 DEF Local
  <2>4. Alone("plan_write", read) /\ (Uninterrupted => Whole("plan_write", read))
    BY <1>1, <2>3 DEF Alone, Whole, Launching, Executing
  <2>5. ReadStep(c, from, ok, "plan_write", read)
    BY <1>1 DEF SetPlan
  <2> HIDE DEF read, ok
  <2> QED BY <1>0, <2>2, <2>4, <2>5, ReadSerial
<1>2. CASE ApplySet(c)
  <2>1. Ready("apply_set", local[c])
    BY <1>2, WhereItIs DEF ApplySet, SetPlan, ReadStep, Step
  <2> DEFINE then == IF local[c].to = "HUMAN_APPROVED" THEN local[c].then ELSE "idle"
  <2>2. local[c].to \in PlanStatus /\ then \in {"idle", "execute_stop"}
    BY <2>1 DEF Ready, PlanStatus
  <2>3. then \in PC /\ then # "execute_live"
    BY <2>2 DEF PC
  <2>4. SetPlan(c, "apply_set", local[c].to, then)
    BY <1>2 DEF ApplySet
  <2> HIDE DEF then
  <2> QED BY <1>1, <2>2, <2>3, <2>4
<1>3. CASE ExecuteExecuted(c)
  <2>1. SetPlan(c, "execute_executed", "EXECUTED", "execute_live") /\ pc[c] = "execute_executed"
    BY <1>3 DEF ExecuteExecuted, SetPlan, ReadStep, Step
  <2>2. Uninterrupted => Served # {}
    BY <2>1 DEF SerialInv, Whole
  <2>3. "EXECUTED" \in PlanStatus /\ "execute_live" \in PC
    BY DEF PlanStatus, PC
  <2> QED BY <1>1, <2>1, <2>2, <2>3
<1> QED BY <1>2, <1>3

LEMMA RollbackReadSerial ==
  ASSUME SerialInv, IInv', OneAtATime, NEW c \in Calls, NEW d \in Deployments, RollbackRead(c, d) PROVE SerialInv'
<1> DEFINE read == [Nothing EXCEPT !.row = d, !.plan = deployments[d].plan]
<1>1. read \in Local /\ read.row = d
  BY Constants DEF SerialInv, IInv, TypeOK, Nothing, Local
<1>2. "rollback_row" \in PC /\ "idle" \in PC \ {"product_write", "memo_product", "rollback_pause"}
  BY DEF PC
<1>3. ReadStep(c, "idle", TRUE, "rollback_row", read) /\ d \in Live
  BY DEF RollbackRead, Live
<1> HIDE DEF read
<1>4. Alone("rollback_row", read) /\ Whole("rollback_row", read)
  BY <1>1, <1>3 DEF Alone, Whole, Launching, Executing
<1> QED BY <1>1, <1>2, <1>3, <1>4, ReadSerial

-----------------------------------------------------------------------------
(* The steps that write.                                                   *)

LEMMA ProductWriteSerial ==
  ASSUME SerialInv, IInv', OneAtATime, NEW c \in Calls, ProductWrite(c) PROVE SerialInv'
<1>1. /\ Step(c, "product_write", local[c].then, local[c])
      /\ product' = local[c].to
      /\ UNCHANGED <<memos, deployments, stops>>
  BY DEF ProductWrite
<1>2. /\ local[c] \in Local /\ Ready("product_write", local[c]) /\ Alone("product_write", local[c])
      /\ Uninterrupted => Whole("product_write", local[c])
  BY <1>1, WhereItIs DEF Step
<1> PICK l \in Local : l = local[c]
  BY <1>2
<1>3. l.then \in {"idle", "launch_strategist", "execute_deploy"} /\ l.then \in PC
  BY <1>2 DEF Ready, PC
<1>4. Live' = Live /\ Served' = Served /\ Rejected' = Rejected /\ StopActive' = StopActive
  BY <1>1 DEF Live, Served, RolledBackBy, Rejected, StopActive
<1>5. l.then # "idle" => Alone(l.then, l)'
  BY <1>1, <1>2, <1>3, <1>4 DEF Alone, Launching, Executing
<1>6. DeployedOnce' /\ MemosOK'
  BY <1>1, <1>2, <1>4 DEF DeployedOnce, MemosOK, SerialInv, Alone, Deployed
<1>7. Uninterrupted => (l.then # "idle" => Whole(l.then, l)')
  BY <1>2, <1>3, <1>4 DEF Alone, Whole, Launching, Open
<1>8. Uninterrupted =>
        /\ ~(Rejected' /\ product' \in Open)
        /\ product' = "LIVE" => Served' # {}
        /\ \A r \in Deployments : deployments'[r].of # Null =>
             deployments'[r].status = "ROLLED_BACK" /\ deployments'[r].of \in Live'
  BY <1>1, <1>2, <1>4 DEF Whole, SerialInv, RollbacksOK
<1>9. Step(c, "product_write", l.then, l)
  BY <1>1
<1> QED BY <1>3, <1>5, <1>6, <1>7, <1>8, <1>9, StepSerial

LEMMA PlanWritesSerial ==
  ASSUME SerialInv, IInv', OneAtATime, NEW c \in Calls, PlanWrite(c) \/ LaunchPlan(c) PROVE SerialInv'
<1>1. CASE PlanWrite(c)
  <2>1. Step(c, "plan_write", local[c].then, local[c]) /\ UNCHANGED <<product, memos, deployments, stops>>
    BY <1>1 DEF PlanWrite
  <2>2. /\ local[c] \in Local /\ Ready("plan_write", local[c])
        /\ Uninterrupted => Whole("plan_write", local[c])
    BY <2>1, WhereItIs DEF Step
  <2>3. local[c].then \in {"idle", "execute_stop", "execute_live"} /\ local[c].then \in PC
    BY <2>2 DEF Ready, PC
  <2>4. Alone(local[c].then, local[c]) /\ (Uninterrupted => Whole(local[c].then, local[c]))
    BY <2>2, <2>3 DEF Alone, Whole, Launching, Executing
  <2>5. ~Failing("plan_write", local[c]) /\ ~Pausing("plan_write", local[c])
    BY DEF Failing, Pausing
  <2> QED BY <2>1, <2>2, <2>3, <2>4, <2>5, QuietStep
<1>2. CASE LaunchPlan(c)
  <2> PICK p \in Plans :
        /\ Step(c, "launch_plan", "launch_memo", [Nothing EXCEPT !.plan = p])
        /\ UNCHANGED <<product, memos, deployments, stops>>
    BY <1>2 DEF LaunchPlan
  <2> DEFINE read == [Nothing EXCEPT !.plan = p]
  <2>1. read \in Local /\ "launch_memo" \in PC
    BY Constants DEF Nothing, Local, PC
  <2>2. Step(c, "launch_plan", "launch_memo", read) /\ pc[c] = "launch_plan"
    BY DEF Step
  <2> HIDE DEF read
  <2>3. Alone("launch_plan", local[c]) /\ (Uninterrupted => Whole("launch_plan", local[c]))
    BY <2>2, WhereItIs
  <2>4. Alone("launch_memo", read) /\ (Uninterrupted => Whole("launch_memo", read))
    BY <2>3 DEF Alone, Whole, Launching, Executing
  <2>5. ~Failing("launch_plan", local[c]) /\ ~Pausing("launch_plan", local[c])
    BY DEF Failing, Pausing
  <2> QED BY <2>1, <2>2, <2>4, <2>5, QuietStep
<1> QED BY <1>1, <1>2

LEMMA MemoWritesSerial ==
  ASSUME SerialInv, IInv', OneAtATime, NEW c \in Calls, LaunchMemo(c) \/ MemoWrite(c) PROVE SerialInv'
<1>0. UNCHANGED <<product, deployments, stops>>
  BY DEF LaunchMemo, MemoWrite
<1>1. Live' = Live /\ Served' = Served /\ StopActive' = StopActive
  BY <1>0 DEF Live, Served, RolledBackBy, StopActive
<1>2. DeployedOnce'
  BY <1>0, <1>1 DEF DeployedOnce, SerialInv
<1>3. Uninterrupted => \A r \in Deployments : deployments'[r].of # Null =>
        deployments'[r].status = "ROLLED_BACK" /\ deployments'[r].of \in Live'
  BY <1>0, <1>1 DEF SerialInv, RollbacksOK
<1>4. \A d \in Calls : d = c
  BY DEF OneAtATime
<1>5. ASSUME pc[c] \in {"launch_memo", "memo_write"}
      PROVE  /\ product # "READY_FOR_DEPLOYMENT"
             /\ Uninterrupted => (product = "LIVE" => Served' # {})
             /\ Uninterrupted => ~(Rejected /\ product \in Open)
  <2>1. product # "READY_FOR_DEPLOYMENT"
    BY <1>5 DEF SerialInv, Alone, Launching
  <2>2. ~Failing(pc[c], local[c]) /\ ~Pausing(pc[c], local[c])
    BY <1>5 DEF Failing, Pausing
  <2> QED BY <1>1, <1>4, <2>1, <2>2 DEF SerialInv, RejectionsOK, RollbacksOK
<1>6. CASE LaunchMemo(c)
  <2>1. Step(c, "launch_memo", "launch_done", Nothing) /\ memos' = [memos EXCEPT ![local[c].plan] = "undecided"]
    BY <1>6 DEF LaunchMemo
  <2>2. pc[c] = "launch_memo" /\ "launch_done" \in PC
    BY <2>1 DEF Step, PC
  <2>3. Rejected' => Rejected
    BY <2>1 DEF Rejected, SerialInv, IInv, TypeOK
  <2>4. Alone("launch_memo", local[c]) /\ (Uninterrupted => Whole("launch_memo", local[c]))
    BY <2>2, WhereItIs
  <2>5. Alone("launch_done", Nothing)' /\ (Uninterrupted => Whole("launch_done", Nothing)')
    BY <1>0, <2>3, <2>4 DEF Alone, Whole, Launching, Executing
  <2>6. MemosOK'
    BY <1>0, <1>5, <2>2 DEF MemosOK
  <2> QED BY <1>0, <1>2, <1>3, <1>5, <2>1, <2>2, <2>3, <2>5, <2>6, Constants, StepSerial
<1>7. CASE MemoWrite(c)
  <2> PICK l : l = local[c]
    OBVIOUS
  <2> PICK to : to = IF l.decision \in {"REJECT", "REQUEST_CHANGES"} THEN "memo_product" ELSE "idle"
    OBVIOUS
  <2>1. Step(c, "memo_write", to, l) /\ memos' = [memos EXCEPT ![l.plan] = l.decision]
    BY <1>7 DEF MemoWrite
  <2>2. pc[c] = "memo_write" /\ to \in PC /\ l \in Local
    BY <2>1, WhereItIs DEF Step, PC
  <2>3. Rejected' => Rejected \/ l.decision = "REJECT"
    BY <2>1 DEF Rejected, SerialInv, IInv, TypeOK
  <2>4. l.decision = "REJECT" => to # "idle" /\ Failing(to, l)
    BY DEF Failing
  <2>5. to \in {"idle", "memo_product"}
    OBVIOUS
  <2>6. to # "idle" => Alone(to, l)' /\ Whole(to, l)'
    BY <1>0, <1>5, <2>2, <2>5 DEF Alone, Whole, Launching, Executing
  <2>7. MemosOK'
    BY <1>0, <1>5, <2>2 DEF MemosOK
  <2> QED BY <1>0, <1>2, <1>3, <1>5, <2>1, <2>2, <2>3, <2>4, <2>6, <2>7, StepSerial
<1> QED BY <1>6, <1>7

LEMMA ApprovalWritesSerial ==
  ASSUME SerialInv, IInv', OneAtATime, NEW c \in Calls,
         RequestCreate(c) \/ RequestAttach(c) \/ DecideWrite(c) \/ SweepExpire(c)
  PROVE  SerialInv'
<1>0. {"idle", "request_create", "request_attach", "decide_write", "apply_approval", "sweep"} \subseteq Plain
  BY DEF Plain, PC, Launching
<1>1. local[c] \in Local
  BY DEF SerialInv, IInv, TypeOK
<1>2. UNCHANGED <<product, memos, deployments, stops>>
  BY DEF RequestCreate, RequestAttach, DecideWrite, SweepExpire
<1>3. \E from, to \in Plain, read \in Local : Step(c, from, to, read)
  <2>1. CASE RequestCreate(c)
    <3> PICK a \in Approvals : Step(c, "request_create", "request_attach", [local[c] EXCEPT !.approval = a])
      BY <2>1 DEF RequestCreate
    <3>1. [local[c] EXCEPT !.approval = a] \in Local
      BY <1>1 DEF Local
    <3> QED BY <1>0, <3>1
  <2>2. CASE RequestAttach(c)
    BY <1>0, <2>2, Constants DEF RequestAttach, Return
  <2>3. CASE DecideWrite(c)
    <3> DEFINE to == IF Autonomous THEN "apply_approval" ELSE "idle"
               read == [Nothing EXCEPT !.approval = local[c].approval, !.then = "execute_stop"]
    <3>1. Step(c, "decide_write", to, read)
      BY <2>3 DEF DecideWrite
    <3>2. read \in Local
      BY <1>1, Constants, ZenonT(60) DEF Nothing, Local, PC
    <3>3. to \in Plain
      BY <1>0
    <3> HIDE DEF to, read
    <3> QED BY <1>0, <3>1, <3>2, <3>3
  <2>4. CASE SweepExpire(c)
    <3> PICK a \in local[c].swept :
          Step(c, "sweep", IF local[c].swept = {a} THEN "idle" ELSE "sweep",
               [local[c] EXCEPT !.swept = local[c].swept \ {a}])
      BY <1>1, <2>4 DEF SweepExpire, Local
    <3> DEFINE to == IF local[c].swept = {a} THEN "idle" ELSE "sweep"
               read == [local[c] EXCEPT !.swept = local[c].swept \ {a}]
    <3>1. Step(c, "sweep", to, read)
      OBVIOUS
    <3>2. read \in Local
      BY <1>1 DEF Local
    <3>3. to \in Plain
      BY <1>0
    <3> HIDE DEF to, read
    <3> QED BY <1>0, <3>1, <3>2, <3>3
  <2> QED BY <2>1, <2>2, <2>3, <2>4
<1>4. Plain \subseteq PC
  BY DEF Plain
<1> QED BY <1>2, <1>3, <1>4, PlainStep

LEMMA StopWritesSerial ==
  ASSUME SerialInv, IInv', OneAtATime, NEW c \in Calls, StopCreate(c) \/ StopResume(c) PROVE SerialInv'
<1>1. PICK from \in {"stop_create", "stop_resume"} : Step(c, from, "idle", Nothing)
  BY DEF StopCreate, StopResume, Return
<1>2. UNCHANGED <<product, memos, deployments>>
  BY DEF StopCreate, StopResume
<1>3. Live' = Live /\ Served' = Served /\ Rejected' = Rejected
  BY <1>2 DEF Live, Served, RolledBackBy, Rejected
<1>4. DeployedOnce' /\ MemosOK'
  BY <1>2, <1>3 DEF DeployedOnce, MemosOK, SerialInv
<1>5. ~Failing(pc[c], local[c]) /\ ~Pausing(pc[c], local[c]) /\ \A d \in Calls : d = c
  BY <1>1 DEF Step, Failing, Pausing, OneAtATime
<1>6. Uninterrupted =>
        /\ ~(Rejected' /\ product' \in Open)
        /\ product' = "LIVE" => Served' # {}
        /\ \A r \in Deployments : deployments'[r].of # Null =>
             deployments'[r].status = "ROLLED_BACK" /\ deployments'[r].of \in Live'
  BY <1>2, <1>3, <1>5 DEF SerialInv, RejectionsOK, RollbacksOK
<1>7. "idle" \in PC
  BY DEF PC
<1> QED BY <1>1, <1>4, <1>6, <1>7, Constants, StepSerial

LEMMA ExecuteDeploySerial ==
  ASSUME SerialInv, IInv', OneAtATime, NEW c \in Calls, ExecuteDeploy(c) PROVE SerialInv'
<1>1. pc[c] = "execute_deploy"
  BY DEF ExecuteDeploy, Step
<1>2. /\ local[c] \in Local /\ product = "DEPLOYING" /\ Live = {}
      /\ Uninterrupted => ~Rejected
  BY <1>1, WhereItIs DEF Alone, Whole
<1> PICK l \in Local : l = local[c]
  BY <1>2
<1> PICK d \in Deployments : \E result \in {"LIVE", "FAILED"} :
      /\ IsNext(deployments, d)
      /\ Step(c, "execute_deploy", IF result = "LIVE" THEN "execute_executed" ELSE "execute_revert", l)
      /\ deployments' = [deployments EXCEPT ![d] =
           [status |-> result, plan |-> l.plan, of |-> Null, process |-> crashes,
            approval |-> l.approval, by |-> l.reviewer]]
      /\ UNCHANGED <<product, memos, stops>>
  BY DEF ExecuteDeploy
<1> PICK result \in {"LIVE", "FAILED"} :
      /\ IsNext(deployments, d)
      /\ Step(c, "execute_deploy", IF result = "LIVE" THEN "execute_executed" ELSE "execute_revert", l)
      /\ deployments' = [deployments EXCEPT ![d] =
           [status |-> result, plan |-> l.plan, of |-> Null, process |-> crashes,
            approval |-> l.approval, by |-> l.reviewer]]
      /\ UNCHANGED <<product, memos, stops>>
  OBVIOUS
<1> PICK to \in PC : to = IF result = "LIVE" THEN "execute_executed" ELSE "execute_revert"
  BY DEF PC
<1>3. /\ Step(c, "execute_deploy", to, l) /\ UNCHANGED <<product, memos, stops>>
      /\ to \in {"execute_executed", "execute_revert"}
  OBVIOUS
<1>4. /\ deployments'[d].status = result /\ deployments'[d].of = Null
      /\ \A e \in Deployments \ {d} : deployments'[e] = deployments[e]
  BY DEF SerialInv, IInv, TypeOK
<1>5. /\ result = "LIVE" => Live' = {d} /\ to = "execute_executed"
      /\ result = "FAILED" => Live' = {} /\ to = "execute_revert"
  BY <1>2, <1>4 DEF Live
<1>6. \A e \in Deployments : Null # e
  BY DEF Null, Deployments
<1>7. Uninterrupted => \A r \in Deployments : deployments'[r].of = Null
  BY <1>2, <1>4 DEF SerialInv, RollbacksOK
<1>8. Uninterrupted => (to = "execute_executed" => Served' # {})
  <2> SUFFICES ASSUME Uninterrupted, to = "execute_executed" PROVE d \in Served'
    OBVIOUS
  <2>1. ~ \E r \in Deployments : deployments'[r].of = d
    BY <1>6, <1>7
  <2> QED BY <1>4, <1>5, <2>1 DEF Served, RolledBackBy
<1>9. Rejected' = Rejected
  BY <1>3 DEF Rejected
<1>10. Alone(to, l)' /\ (Uninterrupted => Whole(to, l)')
  BY <1>2, <1>3, <1>5, <1>8, <1>9 DEF Alone, Whole, Executing, Launching
<1>11. DeployedOnce' /\ MemosOK'
  BY <1>2, <1>3, <1>5 DEF DeployedOnce, MemosOK, Deployed
<1>12. ~(product' \in Open) /\ product' # "LIVE"
  BY <1>2, <1>3 DEF Open
<1> QED BY <1>3, <1>7, <1>10, <1>11, <1>12, StepSerial

LEMMA RollbackRowSerial ==
  ASSUME SerialInv, IInv', OneAtATime, NEW c \in Calls, RollbackRow(c) PROVE SerialInv'
<1>1. pc[c] = "rollback_row"
  BY DEF RollbackRow, Step
<1>2. /\ local[c] \in Local /\ local[c].row \in Deployments
      /\ Uninterrupted => local[c].row \in Live
  BY <1>1, WhereItIs DEF Ready, Whole
<1> PICK l \in Local : l = local[c]
  BY <1>2
<1> PICK known \in BOOLEAN : known = (deployments[l.row].process = crashes)
  OBVIOUS
<1> PICK to \in PC : to = IF known THEN "rollback_pause" ELSE "idle"
  BY DEF PC
<1> PICK status : status = IF known THEN "ROLLED_BACK" ELSE "FAILED"
  OBVIOUS
<1> PICK row : row = [status |-> status, plan |-> l.plan, of |-> l.row,
                      process |-> crashes, approval |-> Null, by |-> NoOne]
  OBVIOUS
<1> PICK r \in Deployments :
      /\ IsNext(deployments, r)
      /\ Step(c, "rollback_row", to, l)
      /\ deployments' = [deployments EXCEPT ![r] = row]
      /\ UNCHANGED <<product, memos, stops>>
  BY DEF RollbackRow
<1>3. Step(c, "rollback_row", to, l) /\ UNCHANGED <<product, memos, stops>>
  OBVIOUS
<1>4. /\ deployments[r].status = "ABSENT" /\ deployments'[r] = row
      /\ \A e \in Deployments \ {r} : deployments'[e] = deployments[e]
  BY DEF IsNext, SerialInv, IInv, TypeOK
<1>5. Live' = Live
  BY <1>4 DEF Live
<1>6. Rejected' = Rejected /\ StopActive' = StopActive
  BY <1>3 DEF Rejected, StopActive
<1>7. DeployedOnce' /\ MemosOK'
  BY <1>3, <1>5 DEF DeployedOnce, MemosOK, SerialInv
<1>8. Uninterrupted => known
  <2> SUFFICES ASSUME Uninterrupted PROVE deployments[l.row].process = crashes
    OBVIOUS
  <2>1. deployments[l.row].process \in 0 .. 0 /\ crashes \in 0 .. 0
    BY <1>2 DEF SerialInv, IInv, TypeOK, Uninterrupted
  <2> QED BY <2>1
<1>9. Uninterrupted => \A e \in Deployments : deployments'[e].of # Null =>
        deployments'[e].status = "ROLLED_BACK" /\ deployments'[e].of \in Live'
  <2> SUFFICES ASSUME Uninterrupted, NEW e \in Deployments, deployments'[e].of # Null
               PROVE  deployments'[e].status = "ROLLED_BACK" /\ deployments'[e].of \in Live
    BY <1>5
  <2>1. CASE e = r
    BY <1>2, <1>4, <1>8, <2>1
  <2>2. CASE e # r
    BY <1>4, <2>2 DEF SerialInv, RollbacksOK
  <2> QED BY <2>1, <2>2
<1>10. to \in {"idle", "rollback_pause"} /\ (known => to # "idle" /\ Pausing(to, l))
  BY DEF Pausing
<1>11. Alone(to, l)' /\ Whole(to, l)'
  BY <1>10 DEF Alone, Whole, Launching, Executing
<1>12. \A d \in Calls : d = c
  BY DEF OneAtATime
<1>13. Uninterrupted => ~(Rejected' /\ product' \in Open)
  BY <1>1, <1>3, <1>6, <1>12 DEF SerialInv, RejectionsOK, Failing
<1> QED BY <1>3, <1>7, <1>8, <1>9, <1>10, <1>11, <1>13, StepSerial

LEMMA EnvironmentSerial ==
  ASSUME SerialInv, IInv', Crash \/ (\E a \in Approvals : Lapse(a)) PROVE SerialInv'
<1>1. UNCHANGED <<product, memos, deployments, stops>>
  BY DEF Crash, Lapse, tables
<1>2. Live' = Live /\ Served' = Served /\ Rejected' = Rejected /\ StopActive' = StopActive
  BY <1>1 DEF Live, Served, RolledBackBy, Rejected, StopActive
<1>3. DeployedOnce' /\ MemosOK'
  BY <1>1, <1>2 DEF DeployedOnce, MemosOK, SerialInv
<1>4. CASE Crash
  <2>1. ~Uninterrupted
    BY <1>4, BoundsAssumption DEF Crash, Uninterrupted, SerialInv, IInv, TypeOK
  <2>2. \A c \in Calls : Alone(pc[c], local[c])'
    BY <1>4 DEF Crash, Alone, Launching, Executing
  <2> QED BY <1>3, <2>1, <2>2 DEF SerialInv, Uninterrupted
<1>5. CASE UNCHANGED <<pc, local>>
  <2>1. \A c \in Calls : Alone(pc[c], local[c])'
    BY <1>1, <1>2, <1>5 DEF SerialInv, Alone, Executing
  <2>2. Uninterrupted => (\A c \in Calls : Whole(pc[c], local[c])')
    BY <1>1, <1>2, <1>5 DEF SerialInv, Whole
  <2>3. Uninterrupted => RejectionsOK' /\ RollbacksOK'
    BY <1>1, <1>2, <1>5 DEF SerialInv, RejectionsOK, RollbacksOK, Failing, Pausing
  <2> QED BY <1>3, <2>1, <2>2, <2>3 DEF SerialInv, Uninterrupted
<1> QED BY <1>4, <1>5 DEF Lapse

-----------------------------------------------------------------------------
LEMMA InitSerial == Init => SerialInv
<1> SUFFICES ASSUME Init PROVE SerialInv
  OBVIOUS
<1>1. IInv
  BY InitIInv
<1>2. Live = {} /\ ~Rejected
  BY DEF Init, Live, Rejected, AbsentDeployment
<1>3. \A c \in Calls : Alone(pc[c], local[c]) /\ Whole(pc[c], local[c])
  BY DEF Init, Alone, Whole, Launching, Executing
<1>4. DeployedOnce /\ MemosOK /\ RejectionsOK /\ RollbacksOK
  BY <1>2 DEF Init, DeployedOnce, MemosOK, RejectionsOK, RollbacksOK, AbsentDeployment
<1> QED BY <1>1, <1>3, <1>4 DEF SerialInv

LEMMA NextSerial == SerialInv /\ OneAtATime /\ [Next]_vars => SerialInv'
<1> SUFFICES ASSUME SerialInv, OneAtATime, [Next]_vars PROVE SerialInv'
  OBVIOUS
<1>1. IInv'
  BY NextIInv DEF SerialInv
<1>2. CASE UNCHANGED vars
  <2>1. UNCHANGED <<product, memos, deployments, stops, pc, local>>
    BY <1>2 DEF vars, tables
  <2>2. Live' = Live /\ Served' = Served /\ Rejected' = Rejected /\ StopActive' = StopActive
    BY <2>1 DEF Live, Served, RolledBackBy, Rejected, StopActive
  <2>3. \A c \in Calls : Alone(pc[c], local[c])'
    BY <2>1, <2>2 DEF SerialInv, Alone, Executing
  <2>4. Uninterrupted => (\A c \in Calls : Whole(pc[c], local[c])')
    BY <2>1, <2>2 DEF SerialInv, Whole
  <2>5. Uninterrupted => RejectionsOK' /\ RollbacksOK'
    BY <2>1, <2>2 DEF SerialInv, RejectionsOK, RollbacksOK, Failing, Pausing
  <2>6. DeployedOnce' /\ MemosOK'
    BY <2>1, <2>2 DEF DeployedOnce, MemosOK, SerialInv
  <2> QED BY <1>1, <2>3, <2>4, <2>5, <2>6 DEF SerialInv, Uninterrupted
<1>3. ASSUME NEW c \in Calls, Begin(c) PROVE SerialInv'
  BY <1>1, <1>3, LaunchReadsSerial, ExecuteMovesSerial, PlainReadsSerial, ExecuteReadsSerial, MemoReadsSerial,
     RollbackReadSerial DEF Begin
<1>4. ASSUME NEW c \in Calls, Continue(c) PROVE SerialInv'
  BY <1>1, <1>4, ProductWriteSerial, PlanWritesSerial, LaunchReadsSerial, MemoWritesSerial, MemoReadsSerial,
     ApprovalWritesSerial, PlainReadsSerial, PlanMovesSerial, ExecuteReadsSerial, ExecuteMovesSerial,
     ExecuteDeploySerial, RollbackRowSerial, StopWritesSerial DEF Continue
<1> QED BY <1>1, <1>2, <1>3, <1>4, EnvironmentSerial DEF Next

LEMMA SerialInvariance == Spec /\ OneAtATime => []SerialInv
<1>1. ASSUME OneAtATime PROVE Spec => []SerialInv
  <2>1. SerialInv /\ [Next]_vars => SerialInv'
    BY <1>1, NextSerial
  <2> QED BY InitSerial, <2>1, PTL DEF Spec
<1> QED BY <1>1

-----------------------------------------------------------------------------
(* Only the deployment of EXECUTE makes a row LIVE.                        *)
LEMMA DeployersDeploy ==
  ASSUME SerialInv, [Next]_vars, \A c \in Calls : ~ExecuteDeploy(c), NEW p \in Plans
  PROVE  DeploymentsOf(p)' \subseteq DeploymentsOf(p)
<1>1. CASE UNCHANGED deployments
  BY <1>1 DEF DeploymentsOf
<1>2. ASSUME NEW c \in Calls, RollbackRow(c) PROVE DeploymentsOf(p)' \subseteq DeploymentsOf(p)
  <2> PICK status \in {"ROLLED_BACK", "FAILED"} :
        status = IF deployments[local[c].row].process = crashes THEN "ROLLED_BACK" ELSE "FAILED"
    OBVIOUS
  <2> PICK row : row = [status |-> status, plan |-> local[c].plan, of |-> local[c].row,
                        process |-> crashes, approval |-> Null, by |-> NoOne]
    OBVIOUS
  <2> PICK r \in Deployments : deployments' = [deployments EXCEPT ![r] = row]
    BY <1>2 DEF RollbackRow
  <2>1. deployments'[r] = row /\ \A e \in Deployments \ {r} : deployments'[e] = deployments[e]
    BY DEF SerialInv, IInv, TypeOK
  <2> QED BY <2>1 DEF DeploymentsOf
<1>3. CASE UNCHANGED vars
  BY <1>1, <1>3 DEF vars, tables
<1>4. ASSUME NEW c \in Calls, Begin(c) PROVE UNCHANGED deployments
  BY <1>4 DEF Begin, LaunchBegin, PauseProduct, ActivateRead, ResumeRead, SweepList, RequestRead, ExecuteBegin,
              MemoRead, ApplyBegin, ApplyRead, DecideRead, RollbackRead, SetProduct, ReadStep, tables
<1>5. ASSUME NEW c \in Calls, Continue(c), ~RollbackRow(c) PROVE UNCHANGED deployments
  <2>1. CASE ProductWrite(c) \/ PlanWrite(c) \/ LaunchPlan(c) \/ LaunchMemo(c) \/ MemoWrite(c) \/ RequestCreate(c)
               \/ RequestAttach(c) \/ DecideWrite(c) \/ StopCreate(c) \/ StopResume(c) \/ SweepExpire(c)
    BY <2>1 DEF ProductWrite, PlanWrite, LaunchPlan, LaunchMemo, MemoWrite, RequestCreate, RequestAttach, DecideWrite,
                StopCreate, StopResume, SweepExpire
  <2>2. CASE LaunchStrategist(c) \/ LaunchDone(c) \/ LaunchFail(c) \/ MemoProduct(c) \/ ApplyApproval(c)
               \/ ApplyPlan(c) \/ ApplySet(c) \/ ExecuteStop(c) \/ ExecutePlan(c) \/ ExecuteApproval(c)
               \/ ExecuteFresh(c) \/ ExecuteProduct(c) \/ ExecuteExecuted(c) \/ ExecuteLive(c) \/ ExecuteRevert(c)
               \/ RollbackPause(c)
    BY <2>2 DEF LaunchStrategist, LaunchDone, LaunchFail, MemoProduct, ApplyApproval, ApplyRead, ApplyPlan, ApplySet,
                ExecuteStop, ExecutePlan, ExecuteApproval, ExecuteFresh, ExecuteProduct, ExecuteExecuted, ExecuteLive,
                ExecuteRevert, RollbackPause, SetProduct, SetPlan, ReadStep, tables
  <2> QED BY <1>5, <2>1, <2>2 DEF Continue
<1>6. CASE Crash \/ (\E a \in Approvals : Lapse(a))
  BY <1>1, <1>6 DEF Crash, Lapse, tables
<1> QED BY <1>1, <1>2, <1>3, <1>4, <1>5, <1>6 DEF Next

-----------------------------------------------------------------------------
(* One call at a time, and whatever restarts cut it in two, a plan goes    *)
(* live once: the product that has been DEPLOYING never leaves the part of *)
(* its lifecycle from which no plan is executed.                           *)
THEOREM PlansGoLiveOnce == OneAtATime /\ Spec => []PlansAreExecutedOnce
<1>1. SerialInv => PlansAreExecutedOnce
  <2> SUFFICES ASSUME SerialInv, NEW p \in Plans PROVE Cardinality(DeploymentsOf(p)) <= 1
    BY DEF PlansAreExecutedOnce
  <2>1. CASE DeploymentsOf(p) = {}
    BY <2>1, FS_EmptySet
  <2>2. ASSUME NEW d \in DeploymentsOf(p) PROVE Cardinality(DeploymentsOf(p)) <= 1
    <3>1. DeploymentsOf(p) = {d}
      BY <2>2 DEF DeploymentsOf, SerialInv, DeployedOnce, Live
    <3> QED BY <3>1, FS_Singleton
  <2> QED BY <2>1, <2>2
<1> QED BY <1>1, SerialInvariance, PTL

(* One call at a time, nothing goes live while an emergency stop is        *)
(* active, whether a human or the orchestrator runs EXECUTE.               *)
THEOREM StopsHoldDeployment == OneAtATime /\ Spec => NothingGoesLiveWhileStopped
<1>1. SerialInv /\ [Next]_vars => [StopActive => \A p \in Plans : DeploymentsOf(p)' \subseteq DeploymentsOf(p)]_vars
  <2> SUFFICES ASSUME SerialInv, [Next]_vars, StopActive
               PROVE  \A p \in Plans : DeploymentsOf(p)' \subseteq DeploymentsOf(p)
    OBVIOUS
  <2>1. ASSUME NEW c \in Calls PROVE ~ExecuteDeploy(c)
    BY DEF ExecuteDeploy, Step, SerialInv, Alone, Executing
  <2> QED BY <2>1, DeployersDeploy
<1> QED BY <1>1, SerialInvariance, PTL DEF Spec, NothingGoesLiveWhileStopped

(* One call at a time and without restarts, a product whose launch a human *)
(* has rejected is not deployed, by no plan and no earlier approval.       *)
THEOREM RejectionsHold == OneAtATime /\ Uninterrupted /\ Spec => RejectedLaunchesAreNotDeployed
<1>1. ASSUME Uninterrupted
      PROVE  SerialInv /\ [Next]_vars =>
               [(\E p \in Plans : memos[p] = "REJECT") => \A p \in Plans : DeploymentsOf(p)' \subseteq DeploymentsOf(p)]_vars
  <2> SUFFICES ASSUME SerialInv, [Next]_vars, Rejected
               PROVE  \A p \in Plans : DeploymentsOf(p)' \subseteq DeploymentsOf(p)
    BY DEF Rejected
  <2>1. ASSUME NEW c \in Calls PROVE ~ExecuteDeploy(c)
    BY <1>1 DEF ExecuteDeploy, Step, SerialInv, Whole
  <2> QED BY <2>1, DeployersDeploy
<1>2. ASSUME Uninterrupted PROVE OneAtATime /\ Spec => RejectedLaunchesAreNotDeployed
  BY <1>1, <1>2, SerialInvariance, PTL DEF Spec, RejectedLaunchesAreNotDeployed
<1> QED BY <1>2

(* One call at a time and without restarts, what is rolled back is no      *)
(* longer LIVE: the product that still is has a deployment to serve it.    *)
THEOREM RollbacksWork == OneAtATime /\ Uninterrupted /\ Spec => []RollbacksTakeEffect
<1>1. ASSUME Uninterrupted PROVE SerialInv => RollbacksTakeEffect
  <2> SUFFICES ASSUME SerialInv, \A c \in Calls : pc[c] = "idle"
               PROVE  /\ product = "LIVE" => Served # {}
                      /\ \A d \in Deployments : RolledBackBy(d) # {} =>
                           \E r \in RolledBackBy(d) : deployments[r].status = "ROLLED_BACK"
    BY DEF RollbacksTakeEffect
  <2>1. \A d \in Deployments : Null # d
    BY DEF Null, Deployments
  <2> QED BY <1>1, <2>1 DEF SerialInv, RollbacksOK, Pausing, RolledBackBy
<1>2. ASSUME Uninterrupted PROVE OneAtATime /\ Spec => []RollbacksTakeEffect
  BY <1>1, <1>2, SerialInvariance, PTL
<1> QED BY <1>2
=============================================================================
