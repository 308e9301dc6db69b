--------------------------- MODULE ProductFactory ---------------------------
(***************************************************************************)
(* The SaaS factory for one product: the human's approval to build, the    *)
(* pipeline that specifies, designs, decomposes, implements, reviews,      *)
(* tests and scans, the recommendation, the review and the memo it ends    *)
(* in, and the human's decision on the memo.                               *)
(*                                                                         *)
(* A build is one call. A call gives way before every agent run, at every  *)
(* write, and wherever a status is read in one statement and written in    *)
(* the next. A run may fail, and its start may be refused: the first is an *)
(* outcome the pipeline handles, the second ends the call where it stands. *)
(***************************************************************************)
EXTENDS Integers, Sequences, FiniteSets

CONSTANTS
  Calls,                              \* requests that may be in flight
  MAX_TASK_ATTEMPTS,                  \* the code's bound on attempts
  Uses                                \* the ways the component is used, one for each behaviour

VARIABLES
  use,        \* [ops, load, builds, restarts, faults, vary]: what may be called, how many calls at a time, bounds, stages whose answers vary
  db,         \* the tables, see FactoryInit
  calls,      \* call -> where it is
  disk,       \* the workspace: file -> content
  verdicts    \* history: [memo, verdict] for each decision a human recorded

vars == <<use, db, calls, disk, verdicts>>

Use == [ops : SUBSET STRING, load : Nat, builds : Nat, restarts : Nat, faults : Nat, vary : SUBSET STRING]

(* What is assumed of the constants.                                       *)
FactoryConstants == IsFiniteSet(Calls) /\ MAX_TASK_ATTEMPTS \in Nat \ {0} /\ \A u \in Uses : u \in Use

PRODUCT_STATUS_TRANSITIONS ==
  [s \in {"none", "PROPOSED", "APPROVED", "SPECIFYING", "ARCHITECTING", "BUILDING", "REVIEWING", "TESTING",
          "SECURITY_REVIEW", "HUMAN_REVIEW", "READY_FOR_DEPLOYMENT", "REJECTED", "FAILED"} |->
     CASE s = "PROPOSED"        -> {"APPROVED", "REJECTED"}
       [] s = "APPROVED"        -> {"SPECIFYING", "FAILED"}
       [] s = "SPECIFYING"      -> {"ARCHITECTING", "FAILED"}
       [] s = "ARCHITECTING"    -> {"BUILDING", "FAILED"}
       [] s = "BUILDING"        -> {"REVIEWING", "FAILED"}
       [] s = "REVIEWING"       -> {"TESTING", "BUILDING", "FAILED"}
       [] s = "TESTING"         -> {"SECURITY_REVIEW", "BUILDING", "FAILED"}
       [] s = "SECURITY_REVIEW" -> {"HUMAN_REVIEW", "BUILDING", "FAILED"}
       [] s = "HUMAN_REVIEW"    -> {"READY_FOR_DEPLOYMENT", "REJECTED", "ARCHITECTING", "BUILDING", "FAILED"}
       [] OTHER                 -> {}]   \* the launch is DeploymentGate's

ENGINEERING_TASK_STATUS_TRANSITIONS ==
  [s \in {"PENDING", "IN_PROGRESS", "COMPLETED", "FAILED", "CANCELLED"} |->
     CASE s \in {"PENDING", "FAILED"} -> {"IN_PROGRESS", "CANCELLED"}
       [] s = "IN_PROGRESS"           -> {"COMPLETED", "FAILED"}
       [] OTHER                       -> {}]

Idle == [at |-> "idle", to |-> "none", spec |-> 0, arch |-> 0, i |-> 1, n |-> 1, rec |-> 0, chair |-> 0, files |-> {}]
May(op, c) ==
  /\ op \in use.ops /\ calls[c].at = "idle"
  /\ Cardinality({d \in Calls : calls[d].at # "idle"}) < use.load
GoTo(c, call) == calls' = [calls EXCEPT ![c] = call]
Return(c) == GoTo(c, Idle)
SetTo(call, status) == [call EXCEPT !.at = "status", !.to = status, !.i = 1]

(* The rows as they are created.                                           *)
NewProductSpec(grounds, features) == [grounds |-> grounds, features |-> features]
NewMvpArchitecture(spec, entities) == [spec |-> spec, entities |-> entities, ux |-> FALSE]
NewEngineeringTask(arch, owns, after) ==
  [arch |-> arch, owns |-> owns, after |-> after, status |-> "PENDING", attempts |-> 0, files |-> {},
   codeReview |-> "none", qa |-> "none", security |-> "none", tested |-> "none"]
NewProductReviewMemo(arch, rec, chair, counts) == [arch |-> arch, rec |-> rec, chair |-> chair, counts |-> counts, human |-> "none"]

FactoryInit ==
  /\ use \in Uses
  /\ db = [product |-> [status |-> "none", workspace |-> FALSE, costed |-> FALSE],
           specs   |-> <<>>,
           archs   |-> <<>>,
           tasks   |-> <<>>,    \* with the latest review of each kind
           recs    |-> <<>>,
           chairs  |-> <<>>,
           memos   |-> <<>>]
  /\ calls = [c \in Calls |-> Idle]
  /\ disk = [f \in {"store", "storeTest", "routes", "routesTest", "index"} |-> "none"]
  /\ verdicts = {}

ClaimsOfOpportunity == {"segment", "problem"}

-----------------------------------------------------------------------------
(* productService and workspaceService.                                    *)

CreateProduct(c) ==
  /\ May("create", c)
  /\ db.product.status = "none"        \* the opportunity's id is unique
  /\ db' = [db EXCEPT !.product.status = "PROPOSED"]
  /\ UNCHANGED <<use, calls, disk, verdicts>>

Approve(c) ==
  /\ May("approve", c)
  /\ "APPROVED" \in PRODUCT_STATUS_TRANSITIONS[db.product.status]
  /\ GoTo(c, [Idle EXCEPT !.at = "approve"])
  /\ UNCHANGED <<use, db, disk, verdicts>>

ApproveWrite(c) ==
  /\ calls[c].at = "approve"
  /\ db' = [db EXCEPT !.product.status = "APPROVED"]
  /\ Return(c)
  /\ UNCHANGED <<use, disk, verdicts>>

StatusRead(c) ==
  /\ calls[c].at = "status"
  /\ IF calls[c].to \in PRODUCT_STATUS_TRANSITIONS[db.product.status]
     THEN GoTo(c, [calls[c] EXCEPT !.at = "statusWrite"])
     ELSE Return(c)
  /\ UNCHANGED <<use, db, disk, verdicts>>

(* Where the build goes on; a decision, or a failed build, ends here.      *)
Stage ==
  [s \in {"SPECIFYING", "ARCHITECTING", "BUILDING", "REVIEWING", "TESTING", "SECURITY_REVIEW"} |->
     CASE s = "SPECIFYING"   -> "specify"   [] s = "ARCHITECTING" -> "design" [] s = "BUILDING" -> "provision"
       [] s = "REVIEWING"    -> "review"    [] s = "TESTING"      -> "qa"     [] OTHER -> "secure"]

StatusWrite(c) ==
  LET call == calls[c]
  IN  /\ call.at = "statusWrite"
      /\ db' = [db EXCEPT !.product.status = call.to]
      /\ IF call.n > 0 /\ call.to \in DOMAIN Stage THEN GoTo(c, [call EXCEPT !.at = Stage[call.to]]) ELSE Return(c)
      /\ UNCHANGED <<use, disk, verdicts>>

Build(c) ==
  /\ May("build", c)
  /\ db.product.status = "APPROVED" /\ use.builds > 0
  /\ use' = [use EXCEPT !.builds = @ - 1]
  /\ GoTo(c, SetTo(Idle, "SPECIFYING"))
  /\ UNCHANGED <<db, disk, verdicts>>

-----------------------------------------------------------------------------
(* productStrategistService, mvpArchitectService and uxAgentService: the   *)
(* fixture's answer, and others the schema admits where the use varies it. *)

CLAIM_IMPORTANCE_WEIGHT == [CRITICAL |-> 100, HIGH |-> 70, MEDIUM |-> 40, LOW |-> 20]

(* Scores in hundredths, weights too: the threshold is on 10000ths.        *)
computeFeaturePriority(f) ==
  LET score == 30 * f.customer + 25 * CLAIM_IMPORTANCE_WEIGHT[f.importance] + 20 * f.learning - 15 * f.cost - 10 * f.risk
  IN  CASE f.learning >= 60 /\ f.customer <= 40 -> "EXPERIMENT_ONLY"
        [] score >= 6000 /\ f.cost <= 50        -> "BUILD_NOW"
        [] score >= 4000                        -> "BUILD_LATER"
        [] OTHER                                -> "DEFER"

Candidate(claim, importance, customer) ==
  [claim |-> claim, importance |-> importance, customer |-> customer, learning |-> 80, cost |-> 30, risk |-> 20]
DevStrategistFixture == [grounds |-> ClaimsOfOpportunity, features |-> {Candidate("segment", "CRITICAL", 80)}]
StrategistAnswers ==
  {DevStrategistFixture} \cup
    IF "specify" \in use.vary
    THEN {[grounds |-> {"problem", "invented"}, features |-> {Candidate("invented", "HIGH", 80), Candidate("problem", "LOW", 30)}],
          [grounds |-> {"invented"}, features |-> {}]}
    ELSE {}

(* An answer left without a real claim is refused: the run fails.          *)
RunProductStrategist(c, answer) ==
  LET grounds == answer.grounds \cap ClaimsOfOpportunity
      features == {[claim |-> f.claim, priority |-> computeFeaturePriority(f)] : f \in {g \in answer.features : g.claim \in ClaimsOfOpportunity}}
  IN  /\ calls[c].at = "specify"
      /\ IF db.product.status \notin {"APPROVED", "SPECIFYING"} THEN Return(c) /\ UNCHANGED db
         ELSE IF grounds = {} THEN GoTo(c, SetTo(calls[c], "FAILED")) /\ UNCHANGED db
         ELSE /\ db' = [db EXCEPT !.specs = Append(@, NewProductSpec(grounds, features))]
              /\ GoTo(c, [SetTo(calls[c], "ARCHITECTING") EXCEPT !.spec = Len(db.specs) + 1])
      /\ UNCHANGED <<use, disk, verdicts>>

ArchitectAnswers == {1} \cup IF "design" \in use.vary THEN {0} ELSE {}   \* core entities

RunMvpArchitect(c, entities) ==
  /\ calls[c].at = "design"
  /\ db' = [db EXCEPT !.archs = Append(@, NewMvpArchitecture(calls[c].spec, entities))]
  /\ GoTo(c, [calls[c] EXCEPT !.at = "ux", !.arch = Len(db.archs) + 1])
  /\ UNCHANGED <<use, disk, verdicts>>

RunUxAgent(c) ==
  /\ calls[c].at = "ux"
  /\ IF db.archs[calls[c].arch].ux THEN Return(c) /\ UNCHANGED db
     ELSE /\ db' = [db EXCEPT !.archs[calls[c].arch].ux = TRUE]
          /\ GoTo(c, SetTo(calls[c], "BUILDING"))
  /\ UNCHANGED <<use, disk, verdicts>>

Provision(c) ==
  /\ calls[c].at = "provision"
  /\ IF db.product.workspace THEN Return(c) ELSE GoTo(c, [calls[c] EXCEPT !.at = "scaffold"])
  /\ UNCHANGED <<use, db, disk, verdicts>>

Scaffold(c) ==
  /\ calls[c].at = "scaffold"
  /\ disk' = [disk EXCEPT !["index"] = "scaffold"]
  /\ db' = [db EXCEPT !.product.workspace = TRUE]
  /\ GoTo(c, [calls[c] EXCEPT !.at = "decompose"])
  /\ UNCHANGED <<use, verdicts>>

-----------------------------------------------------------------------------
(* engineeringTaskService and engineeringAgentService.                     *)

TasksOf(arch) == {t \in DOMAIN db.tasks : db.tasks[t].arch = arch}
TheTask(call) == CHOOSE t \in TasksOf(call.arch) : Cardinality({u \in TasksOf(call.arch) : u <= t}) = call.i

(* The store, then the interface that depends on it.                       *)
DecomposeFromArchitecture(c) ==
  LET arch == calls[c].arch
      n == Len(db.tasks)
  IN  /\ calls[c].at = "decompose"
      /\ IF TasksOf(arch) # {} \/ db.archs[arch].entities = 0 THEN Return(c) /\ UNCHANGED db
         ELSE /\ db' = [db EXCEPT !.tasks = @ \o <<NewEngineeringTask(arch, {"store", "storeTest"}, 0),
                                                   NewEngineeringTask(arch, {"routes", "index", "routesTest"}, n + 1)>>]
              /\ GoTo(c, [calls[c] EXCEPT !.at = "engineer"])
      /\ UNCHANGED <<use, disk, verdicts>>

(* An answer: the files with their content (scanned clean, flawed, or not  *)
(* compiling), whether it mounts a router, whether its imports resolve.    *)
Answer(files, content, mount) == [files |-> files, content |-> content, mount |-> mount, resolves |-> TRUE]
OwnFiles(task) == task.owns \ {"index"}
DevEngineeringFixture(task) == Answer(OwnFiles(task), "clean", "index" \in task.owns)
EngineeringAnswers(task) ==
  {DevEngineeringFixture(task)} \cup
    IF "engineer" \in use.vary
    THEN {Answer(OwnFiles(task), "flawed", "index" \in task.owns), Answer(OwnFiles(task), "broken", "index" \in task.owns),
          Answer(task.owns \cap {"store", "routes"}, "clean", "index" \in task.owns),
          Answer({"store", "routes"}, "flawed", "index" \in task.owns),
          Answer(OwnFiles(task), "clean", "index" \notin task.owns)}
    ELSE {}

validateEngineeringOutput(task, answer) ==
  /\ answer.files \subseteq task.owns
  /\ answer.mount <=> "index" \in task.owns
  /\ answer.resolves

EngineeringAgentStart(c) ==
  LET t == TheTask(calls[c])
      task == db.tasks[t]
  IN  /\ calls[c].at = "engineer"
      /\ IF /\ "IN_PROGRESS" \in ENGINEERING_TASK_STATUS_TRANSITIONS[task.status]
            /\ task.after # 0 => db.tasks[task.after].status = "COMPLETED"
            /\ db.product.workspace
         THEN db' = [db EXCEPT !.tasks[t].status = "IN_PROGRESS"] /\ GoTo(c, [calls[c] EXCEPT !.at = "engineering"])
         ELSE Return(c) /\ UNCHANGED db
      /\ UNCHANGED <<use, disk, verdicts>>

(* Mutation of Attempted: the bounds are compared one too late.            *)
Attempted_OneMore(c, t) ==
  LET attempts == db.tasks[t].attempts + 1
      call == calls[c]
  IN  /\ db' = [db EXCEPT !.tasks[t].status = "FAILED", !.tasks[t].attempts = attempts]
      /\ GoTo(c, IF call.n <= MAX_TASK_ATTEMPTS /\ attempts <= MAX_TASK_ATTEMPTS
                 THEN [call EXCEPT !.at = "engineer", !.n = @ + 1, !.files = {}] ELSE SetTo(call, "FAILED"))

(* recordAttempt after a failed run: the attempts of the loop and those of *)
(* the row both bound the retries.                                         *)
Attempted(c, t) ==
  LET attempts == db.tasks[t].attempts + 1
      call == calls[c]
  IN  /\ db' = [db EXCEPT !.tasks[t].status = "FAILED", !.tasks[t].attempts = attempts]
      /\ GoTo(c, IF call.n < MAX_TASK_ATTEMPTS /\ attempts < MAX_TASK_ATTEMPTS
                 THEN [call EXCEPT !.at = "engineer", !.n = @ + 1, !.files = {}] ELSE SetTo(call, "FAILED"))

(* The files are written; index.ts gets the mount spliced in, once.        *)
EngineeringAgentWrite(c, answer) ==
  LET t == TheTask(calls[c])
  IN  /\ calls[c].at = "engineering"
      /\ IF validateEngineeringOutput(db.tasks[t], answer)
         THEN /\ disk' = [f \in DOMAIN disk |-> IF f \in answer.files THEN answer.content
                                                ELSE IF f = "index" /\ answer.mount THEN "mounted" ELSE disk[f]]
              /\ GoTo(c, [calls[c] EXCEPT !.at = "typecheck", !.files = answer.files \cup IF answer.mount THEN {"index"} ELSE {}])
              /\ UNCHANGED db
         ELSE Attempted(c, t) /\ UNCHANGED disk
      /\ UNCHANGED <<use, verdicts>>

(* Mutation of NextTask: the loop stops one task short.                    *)
NextTask_Short(call, after) == IF call.i + 1 < Cardinality(TasksOf(call.arch)) THEN [call EXCEPT !.i = @ + 1, !.n = 1] ELSE after

(* The last task done, the build goes on to its reviews.                   *)
NextTask(call, after) == IF call.i < Cardinality(TasksOf(call.arch)) THEN [call EXCEPT !.i = @ + 1, !.n = 1] ELSE after

(* tsc compiles the whole workspace; recordImplementation keeps the files. *)
EngineeringAgentTypecheck(c) ==
  LET t == TheTask(calls[c])
  IN  /\ calls[c].at = "typecheck"
      /\ IF \E f \in DOMAIN disk : disk[f] = "broken" THEN Attempted(c, t)
         ELSE /\ db' = [db EXCEPT !.tasks[t].files = calls[c].files]
              /\ GoTo(c, [calls[c] EXCEPT !.at = "complete", !.files = {}])
      /\ UNCHANGED <<use, disk, verdicts>>

(* The status of the task is a second write, and the next task follows it. *)
EngineeringAgentComplete(c) ==
  /\ calls[c].at = "complete"
  /\ db' = [db EXCEPT !.tasks[TheTask(calls[c])].status = "COMPLETED"]
  /\ GoTo(c, NextTask([calls[c] EXCEPT !.at = "engineer"], SetTo(calls[c], "REVIEWING")))
  /\ UNCHANGED <<use, disk, verdicts>>

-----------------------------------------------------------------------------
(* codeReviewAgentService, qaAgentService and securityReviewAgentService:  *)
(* one run for each task, each a row, none a condition of going on.        *)

Flawed(t) == \E f \in db.tasks[t].files : disk[f] = "flawed"
Reviewable(t) == db.tasks[t].status = "COMPLETED" /\ db.tasks[t].files # {}

(* Findings about files the task did not change are dropped.               *)
DevCodeReviewFixture(t) == IF Flawed(t) THEN db.tasks[t].files ELSE {}
CodeReviewAnswers(t) == {DevCodeReviewFixture(t)} \cup IF "review" \in use.vary THEN {{}, {"store"}} ELSE {}
hasBlockingFinding(t, blockers) == blockers \cap db.tasks[t].files # {}

RunCodeReview(c, blockers) ==
  LET t == TheTask(calls[c])
  IN  /\ calls[c].at = "review"
      /\ IF Reviewable(t)
         THEN /\ db' = [db EXCEPT !.tasks[t].codeReview = IF hasBlockingFinding(t, blockers) THEN "BLOCKING" ELSE "clean"]
              /\ GoTo(c, NextTask(calls[c], SetTo(calls[c], "TESTING")))
         ELSE Return(c) /\ UNCHANGED db
      /\ UNCHANGED <<use, disk, verdicts>>

DevQaFixture(t) == IF {"storeTest", "routesTest"} \cap db.tasks[t].files # {} THEN "PASS" ELSE "FAIL"
QaAnswers(t) == {DevQaFixture(t)} \cup IF "qa" \in use.vary THEN {"PASS", "PASS_WITH_GAPS"} ELSE {}

RunQa(c, verdict) ==
  LET t == TheTask(calls[c])
  IN  /\ calls[c].at = "qa"
      /\ IF Reviewable(t)
         THEN /\ db' = [db EXCEPT !.tasks[t].qa = verdict]
              /\ GoTo(c, NextTask(calls[c], [calls[c] EXCEPT !.at = "integrate", !.i = 1]))
         ELSE Return(c) /\ UNCHANGED db
      /\ UNCHANGED <<use, disk, verdicts>>

(* The tests of the workspace pass or not; every task records it.          *)
RunIntegrationTest(c, passed) ==
  /\ calls[c].at = "integrate"
  /\ passed \/ "qa" \in use.vary
  /\ db' = [db EXCEPT !.tasks = [t \in DOMAIN db.tasks |->
                                   IF db.tasks[t].arch = calls[c].arch
                                   THEN [db.tasks[t] EXCEPT !.tested = IF passed THEN "passed" ELSE "failed"]
                                   ELSE db.tasks[t]]]
  /\ GoTo(c, SetTo(calls[c], "SECURITY_REVIEW"))
  /\ UNCHANGED <<use, disk, verdicts>>

SecurityAnswers(t) == {IF Flawed(t) THEN "FAIL" ELSE "PASS"} \cup IF "secure" \in use.vary THEN {"PASS", "PASS_WITH_WARNINGS"} ELSE {}

(* Mutation of RunSecurityReview: the model's verdict outweighs the scan.  *)
RunSecurityReview_Trusting(c, verdict) ==
  LET t == TheTask(calls[c])
  IN  /\ calls[c].at = "secure"
      /\ IF Reviewable(t)
         THEN /\ db' = [db EXCEPT !.tasks[t].security = verdict]
              /\ GoTo(c, NextTask(calls[c], [calls[c] EXCEPT !.at = "estimate", !.i = 1]))
         ELSE Return(c) /\ UNCHANGED db
      /\ UNCHANGED <<use, disk, verdicts>>

(* What the scan finds is a failure, whatever the model says of it.        *)
RunSecurityReview(c, verdict) ==
  LET t == TheTask(calls[c])
  IN  /\ calls[c].at = "secure"
      /\ IF Reviewable(t)
         THEN /\ db' = [db EXCEPT !.tasks[t].security = IF Flawed(t) THEN "FAIL" ELSE verdict]
              /\ GoTo(c, NextTask(calls[c], [calls[c] EXCEPT !.at = "estimate", !.i = 1]))
         ELSE Return(c) /\ UNCHANGED db
      /\ UNCHANGED <<use, disk, verdicts>>

-----------------------------------------------------------------------------
(* A run that ends without an answer, and a start that is refused.         *)

Runs == {"specify", "design", "ux", "engineering", "typecheck", "review", "qa", "integrate", "secure", "recommend"}
Fault == use.faults > 0 /\ use' = [use EXCEPT !.faults = @ - 1]

RunFails(c) ==
  LET call == calls[c]
  IN  /\ Fault
      /\ call.at \in Runs
      /\ CASE call.at \in {"specify", "design", "ux", "recommend"} -> GoTo(c, SetTo(call, "FAILED")) /\ UNCHANGED db
           [] call.at \in {"engineering", "typecheck"} -> Attempted(c, TheTask(call))
           [] call.at = "review" -> GoTo(c, NextTask(call, SetTo(call, "TESTING"))) /\ UNCHANGED db
           [] call.at = "qa"     -> GoTo(c, NextTask(call, [call EXCEPT !.at = "integrate", !.i = 1])) /\ UNCHANGED db
           [] call.at = "secure" -> GoTo(c, NextTask(call, [call EXCEPT !.at = "estimate", !.i = 1])) /\ UNCHANGED db
           [] call.at = "integrate" ->
                /\ db' = [db EXCEPT !.tasks = [t \in DOMAIN db.tasks |->
                            IF db.tasks[t].arch = call.arch THEN [db.tasks[t] EXCEPT !.tested = "failed"] ELSE db.tasks[t]]]
                /\ GoTo(c, SetTo(call, "SECURITY_REVIEW"))
      /\ UNCHANGED <<disk, verdicts>>

StartRefused(c) ==
  /\ Fault
  /\ calls[c].at \in (Runs \cup {"chair"}) \ {"typecheck"}
  /\ Return(c)
  /\ UNCHANGED <<db, disk, verdicts>>

-----------------------------------------------------------------------------
(* The estimate, the recommendation, the review and the memo.              *)

computeCostEstimate(tasks, dependencies) == [development |-> 15 * tasks, operating |-> 5 + 2 * dependencies]

SetEstimates(c) ==
  /\ calls[c].at = "estimate"
  /\ db' = [db EXCEPT !.product.costed = TRUE]
  /\ GoTo(c, [calls[c] EXCEPT !.at = "recommend"])
  /\ UNCHANGED <<use, disk, verdicts>>

(* What the reviews of every task of the product add up to.                *)
Outcome ==
  LET Where(column, value) == Cardinality({t \in DOMAIN db.tasks : db.tasks[t][column] = value})
  IN  [tasks |-> Len(db.tasks), completed |-> Where("status", "COMPLETED"), blocking |-> Where("codeReview", "BLOCKING"),
       qa |-> Where("qa", "FAIL"), security |-> Where("security", "FAIL")]

LatestSpec == db.specs[Len(db.specs)]
DevProductBuildFixture(o) ==
  CASE o.security > 0             -> "STOP"
    [] o.completed < o.tasks      -> "CUT_SCOPE"
    [] o.blocking > 0 \/ o.qa > 0 -> "REQUEST_HUMAN_REVIEW"
    [] OTHER                      -> "BUILD"
BuildAnswers ==
  {[action |-> DevProductBuildFixture(Outcome), cited |-> LatestSpec.grounds]} \cup
    IF "recommend" \in use.vary THEN {[action |-> "BUILD", cited |-> {"problem", "invented"}], [action |-> "BUILD", cited |-> {"invented"}]} ELSE {}

recommendProductBuildAction(c, answer) ==
  LET cited == answer.cited \cap LatestSpec.grounds
  IN  /\ calls[c].at = "recommend"
      /\ IF cited = {} THEN GoTo(c, SetTo(calls[c], "FAILED")) /\ UNCHANGED db
         ELSE /\ db' = [db EXCEPT !.recs = Append(@, [action |-> answer.action, cited |-> cited])]
              /\ GoTo(c, [calls[c] EXCEPT !.at = "chair", !.rec = Len(db.recs) + 1])
      /\ UNCHANGED <<use, disk, verdicts>>

DevProductChairmanFixture(o) ==
  LET realProblem == o.blocking > 0 \/ o.security > 0 \/ o.qa > 0 \/ o.completed < o.tasks
  IN  CASE ~(LatestSpec.grounds \subseteq ClaimsOfOpportunity) \/ o.security > 0 -> "REJECT"
        [] realProblem                          -> "REQUEST_CHANGES"
        [] Cardinality(LatestSpec.grounds) < 2  -> "REQUEST_MORE_EVIDENCE"
        [] OTHER                                -> "APPROVE"
ProductReviews == {DevProductChairmanFixture(Outcome)} \cup IF "recommend" \in use.vary THEN {"APPROVE"} ELSE {}

reviewProduct(c, decision) ==
  /\ calls[c].at = "chair"
  /\ db' = [db EXCEPT !.chairs = Append(@, decision)]
  /\ GoTo(c, [calls[c] EXCEPT !.at = "memo", !.chair = Len(db.chairs) + 1])
  /\ UNCHANGED <<use, disk, verdicts>>

CompileMemo(c) ==
  LET call == calls[c]
  IN  /\ call.at = "memo"
      /\ db' = [db EXCEPT !.memos = Append(@, NewProductReviewMemo(call.arch, call.rec, call.chair, Outcome))]
      /\ GoTo(c, SetTo(call, "HUMAN_REVIEW"))
      /\ UNCHANGED <<use, disk, verdicts>>

(* productReviewMemoService.recordHumanDecision: a memo is decided once,   *)
(* then the product is moved, in a second write.                           *)
DecisionStatus == [APPROVE |-> "READY_FOR_DEPLOYMENT", REJECT |-> "REJECTED", REQUEST_CHANGES |-> "BUILDING", DEFER |-> "none"]

RecordHumanDecision(c, m, verdict) ==
  /\ May("decide", c)
  /\ db.memos[m].human = "none"
  /\ GoTo(c, [Idle EXCEPT !.at = "decide", !.rec = m, !.to = verdict])
  /\ UNCHANGED <<use, db, disk, verdicts>>

DecisionWrite(c) ==
  LET call == calls[c]
  IN  /\ call.at = "decide"
      /\ db' = [db EXCEPT !.memos[call.rec].human = call.to]
      /\ verdicts' = verdicts \cup {[memo |-> call.rec, verdict |-> call.to]}
      /\ IF DecisionStatus[call.to] = "none" THEN Return(c)
         ELSE GoTo(c, [SetTo(call, DecisionStatus[call.to]) EXCEPT !.n = 0, !.rec = 0])
      /\ UNCHANGED <<use, disk>>

(* A crash: the calls are gone, the tables and the workspace stay.         *)
Restart ==
  /\ use.restarts > 0 /\ \E c \in Calls : calls[c].at # "idle"
  /\ use' = [use EXCEPT !.restarts = @ - 1]
  /\ calls' = [c \in Calls |-> Idle]
  /\ UNCHANGED <<db, disk, verdicts>>

FactoryNext ==
  \/ \E c \in Calls :
       \/ CreateProduct(c) \/ Approve(c) \/ ApproveWrite(c) \/ StatusRead(c) \/ StatusWrite(c) \/ Build(c)
       \/ \E answer \in StrategistAnswers : RunProductStrategist(c, answer)
       \/ \E entities \in ArchitectAnswers : RunMvpArchitect(c, entities)
       \/ RunUxAgent(c) \/ Provision(c) \/ Scaffold(c) \/ DecomposeFromArchitecture(c) \/ EngineeringAgentStart(c)
       \/ calls[c].at = "engineering" /\ \E answer \in EngineeringAnswers(db.tasks[TheTask(calls[c])]) : EngineeringAgentWrite(c, answer)
       \/ EngineeringAgentTypecheck(c) \/ EngineeringAgentComplete(c)
       \/ calls[c].at = "review" /\ \E blockers \in CodeReviewAnswers(TheTask(calls[c])) : RunCodeReview(c, blockers)
       \/ calls[c].at = "qa" /\ \E verdict \in QaAnswers(TheTask(calls[c])) : RunQa(c, verdict)
       \/ \E passed \in BOOLEAN : RunIntegrationTest(c, passed)
       \/ calls[c].at = "secure" /\ \E verdict \in SecurityAnswers(TheTask(calls[c])) : RunSecurityReview(c, verdict)
       \/ RunFails(c) \/ StartRefused(c) \/ SetEstimates(c)
       \/ calls[c].at = "recommend" /\ \E answer \in BuildAnswers : recommendProductBuildAction(c, answer)
       \/ calls[c].at = "chair" /\ \E decision \in ProductReviews : reviewProduct(c, decision)
       \/ CompileMemo(c)
       \/ \E m \in DOMAIN db.memos, verdict \in DOMAIN DecisionStatus : RecordHumanDecision(c, m, verdict)
       \/ DecisionWrite(c)
  \/ Restart

-----------------------------------------------------------------------------
(* The rows and the calls have their types.                                *)
FactoryTypeOK ==
  /\ db.product.status \in DOMAIN PRODUCT_STATUS_TRANSITIONS
  /\ \A t \in DOMAIN db.tasks : db.tasks[t].status \in DOMAIN ENGINEERING_TASK_STATUS_TRANSITIONS /\ db.tasks[t].attempts \in 0 .. MAX_TASK_ATTEMPTS
  /\ \A m \in DOMAIN db.memos : db.memos[m].arch \in DOMAIN db.archs /\ db.memos[m].human \in DOMAIN DecisionStatus \cup {"none"}
  /\ \A c \in Calls : calls[c].i \in 1 .. 2 /\ calls[c].n \in 0 .. MAX_TASK_ATTEMPTS

(* A product is ready for deployment only if a human approved a memo whose *)
(* whole build was carried through: a thesis on real claims, a design with *)
(* its screens, every task implemented and tested, a recommendation that   *)
(* cites the thesis's claims, and a review. productFactoryService.build,   *)
(* recordHumanDecision.                                                    *)
ReadyProductsWereBuilt ==
  db.product.status = "READY_FOR_DEPLOYMENT" =>
    \E v \in verdicts :
      LET m == db.memos[v.memo]
          arch == db.archs[m.arch]
          grounds == db.specs[arch.spec].grounds
      IN  /\ v.verdict = "APPROVE"
          /\ grounds # {} /\ grounds \subseteq ClaimsOfOpportunity
          /\ arch.ux
          /\ TasksOf(m.arch) # {}
          /\ \A t \in TasksOf(m.arch) : db.tasks[t].status = "COMPLETED" /\ db.tasks[t].tested # "none"
          /\ db.recs[m.rec].cited \subseteq ClaimsOfOpportunity
          /\ m.chair \in DOMAIN db.chairs

(* What the scan can see in the code of a task that was scanned, and what  *)
(* blocked it in review, the human reads in the memo: as long as one build *)
(* runs at a time, nothing changes between the scan and the memo.          *)
(* securityReviewAgentService, productReviewMemoService.compile.           *)
KnownProblemsReachTheHuman ==
  \A m \in DOMAIN db.memos : \A t \in TasksOf(db.memos[m].arch) :
    /\ use.load = 1 /\ db.tasks[t].security # "none" /\ Flawed(t) => db.memos[m].counts.security > 0
    /\ db.tasks[t].codeReview = "BLOCKING" => db.memos[m].counts.blocking > 0
    /\ db.tasks[t].qa = "FAIL" => db.memos[m].counts.qa > 0
=============================================================================
