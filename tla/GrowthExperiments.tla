------------------------- MODULE GrowthExperiments -------------------------
(***************************************************************************)
(* Experiments on a live product: an agent proposes one for the claim that *)
(* is worth most to settle, a human decides whether it may run, it is      *)
(* started, and what was observed ends it.                                 *)
(*                                                                         *)
(* A call gives way at every write, and wherever a status is read in one   *)
(* statement and written in the next. A call that throws ends, and what it *)
(* wrote stays; a restart ends every call.                                 *)
(***************************************************************************)
EXTENDS Integers, Sequences, FiniteSets

CONSTANTS
  Calls,         \* requests that may be in flight
  MaxRequests,   \* bound: rows
  Uses           \* the ways the component is used, one for each behaviour

VARIABLES
  use,      \* [ops, load, crashes, restarts, mishaps, faults, rows, auto, claims, measured]: what may be called, how many calls at a time, ...
  db,       \* the tables, see GrowthInit
  calls,    \* call -> where it is
  runs      \* history: [exp, approval] for each time an experiment was started

vars == <<use, db, calls, runs>>

GROWTH_EXPERIMENT_TRANSITIONS ==
  [s \in {"DRAFT", "ANALYZED", "AWAITING_APPROVAL", "APPROVED", "RUNNING", "COMPLETED", "REJECTED", "CANCELLED", "FAILED"} |->
     CASE s = "DRAFT"             -> {"ANALYZED", "CANCELLED"}
       [] s = "ANALYZED"          -> {"AWAITING_APPROVAL", "CANCELLED"}
       [] s = "AWAITING_APPROVAL" -> {"APPROVED", "REJECTED", "CANCELLED"}
       [] s = "APPROVED"          -> {"RUNNING", "CANCELLED"}
       [] s = "RUNNING"           -> {"COMPLETED", "FAILED", "CANCELLED"}
       [] s = "COMPLETED"         -> {"ANALYZED"}
       [] OTHER                   -> {}]
MIN_EXPERIMENT_SAMPLE == 30

Observed == [baseline : Int, value : Int, sample : Int]
Use ==
  [ops : SUBSET STRING, load : Nat, crashes : Nat, restarts : Nat, mishaps : Nat, faults : Nat, rows : Nat, auto : BOOLEAN,
   claims : Seq([importance : STRING, status : STRING]), measured : SUBSET Observed]

(* What is assumed of the constants.                                       *)
GrowthConstants == IsFiniteSet(Calls) /\ \A u \in Uses : u \in Use /\ u.crashes = u.restarts /\ u.faults = u.mishaps

Idle == [at |-> "idle", op |-> "none", e |-> 0, a |-> 0, to |-> "none", auto |-> FALSE, saw |-> [baseline |-> 0, value |-> 0, sample |-> 0]]
Begin(op, c) ==
  /\ op \in use.ops /\ calls[c].at = "idle"
  /\ Cardinality({d \in Calls : calls[d].at # "idle"}) < use.load
GoTo(c, call) == calls' = [calls EXCEPT ![c] = call]
Return(c) == GoTo(c, Idle)

(* The rows as they are created.                                           *)
NewExperiment(claim) == [status |-> "DRAFT", claim |-> claim, approval |-> 0]
NewRequest(e) == [exp |-> e, status |-> "PENDING", lapsed |-> FALSE]
NewResult(e, confidence, decision) == [exp |-> e, confidence |-> confidence, decision |-> decision]

GrowthInit ==
  /\ use \in Uses
  /\ db = [experiments |-> <<>>, approvals |-> <<>>, results |-> <<>>, halted |-> FALSE]
  /\ calls = [c \in Calls |-> Idle]
  /\ runs = <<>>

-----------------------------------------------------------------------------
(* growthExperimentService.setStatus, inside the call that needs it.       *)

StatusRead(c) ==
  LET call == calls[c]
  IN  /\ call.at = "statusRead"
      /\ IF call.to \in GROWTH_EXPERIMENT_TRANSITIONS[db.experiments[call.e].status]
         THEN GoTo(c, [call EXCEPT !.at = "statusWrite"]) ELSE Return(c)
      /\ UNCHANGED <<use, db, runs>>

StatusWrite(c) ==
  LET call == calls[c]
  IN  /\ call.at = "statusWrite"
      /\ db' = [db EXCEPT !.experiments[call.e].status = call.to]
      /\ CASE call.op = "request" -> GoTo(c, [call EXCEPT !.at = "ask"])
           [] call.op = "apply" /\ call.auto /\ call.to = "APPROVED" -> GoTo(c, [call EXCEPT !.at = "run"])
           [] OTHER -> Return(c)
      /\ UNCHANGED <<use, runs>>

(* experimentAnalystService.run: the first of the claims whose settlement  *)
(* is worth most, in hundredths.                                           *)
ExpectedInformationGain(claim) ==
  LET importance == CASE claim.importance = "CRITICAL" -> 50 [] claim.importance = "HIGH" -> 35
                      [] claim.importance = "MEDIUM" -> 20 [] OTHER -> 10
      uncertainty == CASE claim.status \in {"UNVERIFIED", "INSUFFICIENT_EVIDENCE"} -> 30
                       [] claim.status \in {"WEAK", "CONFLICTED"} -> 21 [] OTHER -> 9
  IN  importance + uncertainty - 6

TargetClaim ==
  LET gain(i) == ExpectedInformationGain(use.claims[i])
  IN  CHOOSE i \in DOMAIN use.claims :
        \A j \in DOMAIN use.claims : gain(j) <= gain(i) /\ (gain(j) = gain(i) => i <= j)

Propose(c) ==
  /\ Begin("propose", c)
  /\ use.claims # <<>> /\ Len(db.experiments) < use.rows
  /\ db' = [db EXCEPT !.experiments = Append(@, NewExperiment(TargetClaim))]
  /\ GoTo(c, [Idle EXCEPT !.at = "statusRead", !.op = "propose", !.e = Len(db.experiments) + 1, !.to = "ANALYZED"])
  /\ UNCHANGED <<use, runs>>

-----------------------------------------------------------------------------
(* growthExperimentService.requestApproval: the status is moved first, and *)
(* the request may then be refused because it names no agent there is.     *)

RequestApproval(c, e) ==
  /\ Begin("request", c)
  /\ db.experiments[e].status = "ANALYZED"
  /\ GoTo(c, [Idle EXCEPT !.at = "statusRead", !.op = "request", !.e = e, !.to = "AWAITING_APPROVAL"])
  /\ UNCHANGED <<use, db, runs>>

Ask(c) ==
  /\ calls[c].at = "ask" /\ Len(db.approvals) < MaxRequests
  /\ db' = [db EXCEPT !.approvals = Append(@, NewRequest(calls[c].e))]
  /\ GoTo(c, [calls[c] EXCEPT !.at = "bind", !.a = Len(db.approvals) + 1])
  /\ UNCHANGED <<use, runs>>

AskNobody(c) ==
  /\ calls[c].at = "ask" /\ use.faults > 0
  /\ use' = [use EXCEPT !.faults = @ - 1]
  /\ Return(c)
  /\ UNCHANGED <<db, runs>>

SetApprovalRequest(c) ==
  /\ calls[c].at = "bind"
  /\ db' = [db EXCEPT !.experiments[calls[c].e].approval = calls[c].a]
  /\ Return(c)
  /\ UNCHANGED <<use, runs>>

(* The human's verdict; the orchestrator, if it is registered, goes on in  *)
(* the same call. A request nobody answers expires.                        *)
Decide(c, a, verdict) ==
  /\ Begin("decide", c)
  /\ db.approvals[a].status = "PENDING"
  /\ db' = [db EXCEPT !.approvals[a].status = verdict]
  /\ IF use.auto THEN GoTo(c, [Idle EXCEPT !.at = "apply", !.op = "apply", !.a = a, !.auto = TRUE]) ELSE Return(c)
  /\ UNCHANGED <<use, runs>>

Expire(a) ==
  /\ "lapse" \in use.ops /\ db.approvals[a].status = "PENDING"
  /\ db' = [db EXCEPT !.approvals[a].status = "EXPIRED"]
  /\ UNCHANGED <<use, calls, runs>>

Lapse(a) ==
  /\ "lapse" \in use.ops /\ db.approvals[a].status = "APPROVED" /\ ~db.approvals[a].lapsed
  /\ db' = [db EXCEPT !.approvals[a].lapsed = TRUE]
  /\ UNCHANGED <<use, calls, runs>>

-----------------------------------------------------------------------------
(* growthExperimentService.applyDecision.                                  *)

ApplyDecision(c, a) ==
  /\ Begin("apply", c)
  /\ db.approvals[a].status \in {"APPROVED", "REJECTED"}
  /\ GoTo(c, [Idle EXCEPT !.at = "apply", !.op = "apply", !.a = a])
  /\ UNCHANGED <<use, db, runs>>

ApplyRead(c) ==
  LET call == calls[c]
      e == db.approvals[call.a].exp
      status == db.experiments[e].status
  IN  /\ call.at = "apply"
      /\ CASE status \notin {"APPROVED", "REJECTED", "RUNNING", "COMPLETED"} ->
                GoTo(c, [call EXCEPT !.at = "statusRead", !.e = e, !.to = db.approvals[call.a].status])
           [] status = "APPROVED" /\ call.auto -> GoTo(c, [call EXCEPT !.at = "run", !.e = e])
           [] OTHER -> Return(c)
      /\ UNCHANGED <<use, db, runs>>

-----------------------------------------------------------------------------
(* growthExperimentExecutionService.                                       *)

ApproveToRun(c, e) ==
  /\ Begin("run", c)
  /\ GoTo(c, [Idle EXCEPT !.at = "run", !.op = "run", !.e = e])
  /\ UNCHANGED <<use, db, runs>>

StopCheck(c) ==
  /\ calls[c].at = "run"
  /\ IF db.halted THEN Return(c) ELSE GoTo(c, [calls[c] EXCEPT !.at = "check"])
  /\ UNCHANGED <<use, db, runs>>

(* Mutation of Startable: the status of the experiment is taken to say it. *)
Startable_ByStatus(e) == db.experiments[e].status = "APPROVED" /\ db.experiments[e].approval # 0

(* The experiment is approved, by the request it is bound to, which is its *)
(* own and still fresh: no operation edits what the snapshot covers.       *)
Startable(e) ==
  LET a == db.experiments[e].approval
  IN  /\ db.experiments[e].status = "APPROVED" /\ a # 0
      /\ db.approvals[a].status = "APPROVED" /\ db.approvals[a].exp = e /\ ~db.approvals[a].lapsed

StartCheck(c) ==
  LET e == calls[c].e
  IN  /\ calls[c].at = "check"
      /\ IF Startable(e)
         THEN GoTo(c, [calls[c] EXCEPT !.at = "start", !.a = db.experiments[e].approval]) ELSE Return(c)
      /\ UNCHANGED <<use, db, runs>>

MarkStarted(c) ==
  /\ calls[c].at = "start"
  /\ db' = [db EXCEPT !.experiments[calls[c].e].status = "RUNNING"]
  /\ runs' = Append(runs, [exp |-> calls[c].e, approval |-> calls[c].a])
  /\ Return(c)
  /\ UNCHANGED use

(* Mutation of CompleteExperiment: what was measured is recorded whether   *)
(* or not the experiment runs.                                             *)
CompleteExperiment_Anytime(c, e, saw) ==
  /\ Begin("complete", c) /\ saw \in use.measured
  /\ GoTo(c, [Idle EXCEPT !.at = "result", !.op = "complete", !.e = e, !.saw = saw])
  /\ UNCHANGED <<use, db, runs>>

CompleteExperiment(c, e, saw) ==
  /\ Begin("complete", c) /\ saw \in use.measured
  /\ db.experiments[e].status = "RUNNING"
  /\ GoTo(c, [Idle EXCEPT !.at = "result", !.op = "complete", !.e = e, !.saw = saw])
  /\ UNCHANGED <<use, db, runs>>

Distance(x, y) == IF x >= y THEN x - y ELSE y - x
Confidence(saw) ==
  CASE saw.sample < MIN_EXPERIMENT_SAMPLE -> "LOW_CONFIDENCE"
    [] saw.baseline # 0 /\ 100 * Distance(saw.value, saw.baseline) >= 15 * Distance(saw.baseline, 0) -> "HIGH_CONFIDENCE"
    [] OTHER -> "MODERATE"
ResultDecision(saw) ==
  CASE Confidence(saw) = "LOW_CONFIDENCE"                -> "INCONCLUSIVE"
    [] saw.baseline # 0 /\ saw.value > saw.baseline -> "POSITIVE"
    [] OTHER                                             -> "NEGATIVE"

CreateResult(c) ==
  LET call == calls[c]
  IN  /\ call.at = "result"
      /\ db' = [db EXCEPT !.results = Append(@, NewResult(call.e, Confidence(call.saw), ResultDecision(call.saw)))]
      /\ GoTo(c, [call EXCEPT !.at = "end"])
      /\ UNCHANGED <<use, runs>>

MarkEnded(c) ==
  /\ calls[c].at = "end"
  /\ db' = [db EXCEPT !.experiments[calls[c].e].status = "COMPLETED"]
  /\ Return(c)
  /\ UNCHANGED <<use, runs>>

-----------------------------------------------------------------------------
Halt == "halt" \in use.ops /\ db' = [db EXCEPT !.halted = ~@] /\ UNCHANGED <<use, calls, runs>>

Restart ==
  /\ use.crashes > 0
  /\ use' = [use EXCEPT !.crashes = @ - 1]
  /\ calls' = [c \in Calls |-> Idle]
  /\ UNCHANGED <<db, runs>>

Step(c) ==
  \/ StatusRead(c) \/ StatusWrite(c) \/ Ask(c) \/ AskNobody(c) \/ SetApprovalRequest(c)
  \/ ApplyRead(c) \/ StopCheck(c) \/ StartCheck(c) \/ MarkStarted(c) \/ CreateResult(c) \/ MarkEnded(c)

Request(c) ==
  \/ Propose(c)
  \/ \E e \in DOMAIN db.experiments : RequestApproval(c, e) \/ ApproveToRun(c, e)
  \/ \E a \in DOMAIN db.approvals : ApplyDecision(c, a) \/ \E verdict \in {"APPROVED", "REJECTED"} : Decide(c, a, verdict)
  \/ \E e \in DOMAIN db.experiments, saw \in use.measured : CompleteExperiment(c, e, saw)

GrowthNext ==
  \/ \E c \in Calls : Step(c) \/ Request(c)
  \/ \E a \in DOMAIN db.approvals : Expire(a) \/ Lapse(a)
  \/ Halt \/ Restart

-----------------------------------------------------------------------------
(* Properties.                                                             *)

GrowthTypeOK ==
  /\ \A e \in DOMAIN db.experiments :
       /\ db.experiments[e].status \in DOMAIN GROWTH_EXPERIMENT_TRANSITIONS
       /\ db.experiments[e].claim \in DOMAIN use.claims /\ db.experiments[e].approval \in {0} \cup DOMAIN db.approvals
  /\ \A a \in DOMAIN db.approvals :
       /\ db.approvals[a].exp \in DOMAIN db.experiments
       /\ db.approvals[a].status \in {"PENDING", "APPROVED", "REJECTED", "EXPIRED"}
  /\ \A i \in DOMAIN runs : runs[i].exp \in DOMAIN db.experiments /\ runs[i].approval \in DOMAIN db.approvals

RunsOf(e) == {i \in DOMAIN runs : runs[i].exp = e}
ResultsOf(e) == {i \in DOMAIN db.results : db.results[i].exp = e}

(* An experiment runs only because a human approved a request for that     *)
(* experiment, whichever of several racing requests it is bound to; and of *)
(* calls made one after the other none runs an experiment a second time,   *)
(* or one a human rejected.                                                *)
ExperimentsWereApproved ==
  /\ \A i \in DOMAIN runs :
       db.approvals[runs[i].approval].exp = runs[i].exp /\ db.approvals[runs[i].approval].status = "APPROVED"
  /\ \A e \in DOMAIN db.experiments : db.experiments[e].status \in {"RUNNING", "COMPLETED"} => RunsOf(e) # {}
  /\ use.load = 1 =>
       \A e \in DOMAIN db.experiments :
         /\ Cardinality(RunsOf(e)) <= 1
         /\ RunsOf(e) # {} => \A a \in DOMAIN db.approvals : db.approvals[a].exp = e => db.approvals[a].status # "REJECTED"

(* What an experiment taught was measured on an experiment that ran, a     *)
(* completed one has its result, and calls made one after the other, in a  *)
(* process that is not restarted, leave one result each; what waits for a  *)
(* human was put to a human, unless the request was refused or lost.       *)
ExperimentsAreMeasured ==
  /\ \A i \in DOMAIN db.results : RunsOf(db.results[i].exp) # {}
  /\ \A e \in DOMAIN db.experiments : db.experiments[e].status = "COMPLETED" => ResultsOf(e) # {}
  /\ use.load = 1 /\ use.restarts = use.crashes =>
       \A e \in DOMAIN db.experiments : Cardinality(ResultsOf(e)) <= 1
  /\ use.restarts = use.crashes /\ use.mishaps = use.faults =>
       \A e \in DOMAIN db.experiments : db.experiments[e].status = "AWAITING_APPROVAL" =>
         \/ \E a \in DOMAIN db.approvals : db.approvals[a].exp = e
         \/ \E c \in Calls : calls[c].at = "ask" /\ calls[c].e = e
=============================================================================
