-------------------------- MODULE DecisionPipeline --------------------------
(***************************************************************************)
(* How one opportunity is decided: evidence and what customers said is     *)
(* attached to it, its claims are extracted and validated, confidence and  *)
(* gaps follow the reports, the CEO recommends, the Chairman reviews, a    *)
(* memo is compiled, and a human's decision is applied and recorded.       *)
(*                                                                         *)
(* A decision cycle and the validation of one claim are calls that give    *)
(* way before every run of an agent, at every write, and wherever a row is *)
(* looked up in one statement and written in the next. Scores are in       *)
(* hundredths.                                                             *)
(***************************************************************************)
EXTENDS Integers, Sequences, FiniteSets

CONSTANTS
  Calls,      \* requests that may be in flight
  Uses        \* the ways the component is used, one for each behaviour

VARIABLES
  use,        \* [ops, load, starts, crashes, restarts, faults, vary, types, items, found, budget, extracted, recs]
  db,         \* the tables, see DecisionInit
  calls,      \* call -> where it is
  kills       \* history: [by, approval] for each time the opportunity was set KILLED

vars == <<use, db, calls, kills>>

CLAIM_TYPE_IMPORTANCE ==
  [CUSTOMER_PROBLEM |-> "CRITICAL", WILLINGNESS_TO_PAY |-> "CRITICAL", CUSTOMER_SEGMENT |-> "HIGH", TIMING |-> "LOW"]
CLAIM_IMPORTANCE_WEIGHT == [CRITICAL |-> 100, HIGH |-> 70, MEDIUM |-> 40, LOW |-> 20]
ClaimStatuses == {"UNVERIFIED", "SUPPORTED", "WEAK", "CONTRADICTED", "CONFLICTED", "INSUFFICIENT_EVIDENCE"}
CYCLE_STATUS_TRANSITIONS ==
  [s \in {"SCHEDULED", "RUNNING", "AWAITING_HUMAN", "STOPPED", "COMPLETED"} |->
     CASE s = "SCHEDULED" -> {"RUNNING", "AWAITING_HUMAN"}
       [] s = "RUNNING"   -> {"STOPPED", "COMPLETED"}
       [] OTHER           -> {}]      \* those a decision cycle takes
OPPORTUNITY_STATUS_TRANSITIONS ==
  [s \in {"DISCOVERED", "RESEARCHING", "VALIDATING", "VALIDATED", "APPROVED", "REJECTED", "KILLED", "ARCHIVED"} |->
     CASE s = "DISCOVERED"             -> {"RESEARCHING", "KILLED", "ARCHIVED"}
       [] s = "RESEARCHING"            -> {"VALIDATING", "KILLED", "ARCHIVED"}
       [] s = "VALIDATING"             -> {"VALIDATED", "REJECTED", "KILLED", "ARCHIVED"}
       [] s = "VALIDATED"              -> {"APPROVED", "REJECTED", "KILLED", "ARCHIVED"}
       [] s = "APPROVED"               -> {"KILLED", "ARCHIVED"}
       [] s \in {"REJECTED", "KILLED"} -> {"ARCHIVED"}
       [] OTHER                        -> {}]

Item == [source : STRING, org : STRING, tone : STRING, said : STRING, conf : Nat]
Use ==
  [ops : SUBSET STRING, load : Nat, starts : Nat, crashes : Nat, restarts : Nat, faults : Nat, vary : SUBSET STRING,
   items : SUBSET Item, types : Seq(DOMAIN CLAIM_TYPE_IMPORTANCE), found : SUBSET Item,
   extracted : BOOLEAN, recs : Seq([action : STRING, cited : SUBSET Nat]),
   budget : [claims : Nat, searches : Nat, models : Nat, research : Nat]]

(* What is assumed of the constants.                                       *)
DecisionConstants == IsFiniteSet(Calls) /\ \A u \in Uses : u \in Use /\ u.crashes = u.restarts

Idle ==
  [at |-> "idle", cycle |-> 0, todo |-> {}, claim |-> 0, pool |-> {}, row |-> 0, status |-> "none", conf |-> 0,
   done |-> 0, searches |-> 0, models |-> 0, valid |-> FALSE, stopped |-> FALSE, rec |-> 0, review |-> 0, memo |-> 0]
Begin(op, c) ==
  /\ op \in use.ops /\ calls[c].at = "idle" /\ use.starts > 0
  /\ Cardinality({d \in Calls : calls[d].at # "idle"}) < use.load
  /\ use' = [use EXCEPT !.starts = @ - 1]
GoTo(c, call) == calls' = [calls EXCEPT ![c] = call]
Return(c) == GoTo(c, Idle)

(* The rows as they are created. "said" is what the customer really said;  *)
(* "signal" is what the customer-evidence row that wraps it says.          *)
NewEvidence(item) ==
  [source |-> item.source, org |-> item.org, tone |-> item.tone, said |-> item.said, conf |-> item.conf, signal |-> "none"]
NewClaim(type) == [type |-> type, status |-> "UNVERIFIED", conf |-> IF type \in {"CUSTOMER_PROBLEM", "CUSTOMER_SEGMENT"} THEN 30 ELSE 0]
NewValidationReport(claim, status, supporting, contradicting) ==
  [claim |-> claim, status |-> status, supporting |-> supporting, contradicting |-> contradicting]
NewDecisionCycle(status) == [status |-> status, claims |-> 0, searches |-> 0, models |-> 0]
NewCeoRecommendation(action, cited) == [action |-> action, cited |-> cited]
NewInvestmentMemo(rec, review, findings) == [rec |-> rec, review |-> review, findings |-> findings]
NewDecisionRecord(approval, decision, rec, review, memo) ==
  [approval |-> approval, decision |-> decision, rec |-> rec, review |-> review, memo |-> memo]

DecisionInit ==
  /\ use \in Uses
  /\ db = [opp       |-> [status |-> "DISCOVERED", level |-> "LEVEL_0", score |-> 0, conf |-> 0, next |-> 0],
           scores    |-> <<>>,
           evidence  |-> <<>>,
           claims    |-> IF use.extracted THEN [i \in DOMAIN use.types |-> NewClaim(use.types[i])] ELSE <<>>,
           reports   |-> <<>>,
           gaps      |-> <<>>,
           items     |-> <<>>,
           cycles    |-> <<>>,
           recs      |-> use.recs,
           reviews   |-> <<>>,
           memos     |-> <<>>,
           approvals |-> <<>>,
           records   |-> <<>>]
  /\ calls = [c \in Calls |-> Idle]
  /\ kills = {}

Latest(rows, Row(_)) == LET hits == {r \in DOMAIN rows : Row(rows[r])} IN IF hits = {} THEN 0 ELSE CHOOSE r \in hits : \A q \in hits : q <= r
LatestReport(claim) == Latest(db.reports, LAMBDA r : r.claim = claim)

-----------------------------------------------------------------------------
(* Evidence, and what customers said: the evidence row is attached, and    *)
(* then wrapped with its signal.                                           *)

AttachEvidence(c, item) ==
  /\ Begin("evidence", c)
  /\ db' = [db EXCEPT !.evidence = Append(@, NewEvidence(item))]
  /\ IF item.source = "CUSTOMER" THEN GoTo(c, [Idle EXCEPT !.at = "wrap", !.row = Len(db.evidence) + 1]) ELSE UNCHANGED calls
  /\ UNCHANGED kills

CreateCustomerEvidence(c) ==
  LET e == calls[c].row
  IN  /\ calls[c].at = "wrap"
      /\ db' = [db EXCEPT !.evidence[e].signal = db.evidence[e].said]
      /\ Return(c)
      /\ UNCHANGED <<use, kills>>

CUSTOMER_SIGNAL_ELIGIBLE_CLAIM_TYPES ==
  [INTEREST |-> {"CUSTOMER_PROBLEM"}, PAIN |-> {"CUSTOMER_PROBLEM"}, WTP |-> {"WILLINGNESS_TO_PAY"}, URGENCY |-> {"TIMING"},
   CURRENT_SPENDING |-> {"WILLINGNESS_TO_PAY"}, PURCHASE_AUTHORITY |-> {"CUSTOMER_SEGMENT"}]
(* An objection bears on the claim type it is recorded to be about: the    *)
(* objections here are about paying.                                       *)
relatedClaimType == "WILLINGNESS_TO_PAY"
isSignalEligibleForClaim(signal, claimType) ==
  CASE signal = "none"      -> TRUE      \* not a customer's
    [] signal = "OBJECTION" -> claimType = relatedClaimType
    [] OTHER                -> claimType \in CUSTOMER_SIGNAL_ELIGIBLE_CLAIM_TYPES[signal]

-----------------------------------------------------------------------------
(* A claim is validated: evidenceValidatorService, claimConfidenceService, *)
(* evidenceGapService.                                                     *)

ValidateClaim(c, claim) ==
  /\ Begin("validate", c)
  /\ GoTo(c, [Idle EXCEPT !.at = "pool", !.claim = claim])
  /\ UNCHANGED <<db, kills>>

(* The evidence of the opportunity and what the searches allowed find. The *)
(* caller of a single validation allows some too, and the run fails past   *)
(* its second.                                                             *)
SearchesAllowed(call) ==
  LET left == use.budget.searches - call.searches
  IN  IF left < 0 THEN 0 ELSE IF left > 2 THEN 2 ELSE left

ReadPool(c, found) ==
  LET call == calls[c]
      searches == SearchesAllowed(call)
  IN  /\ call.at = "pool"
      /\ Len(found) <= searches
      /\ db' = [db EXCEPT !.evidence = @ \o [i \in DOMAIN found |-> NewEvidence(found[i])]]
      /\ GoTo(c, [call EXCEPT !.at = "answer", !.searches = @ + searches, !.pool = 1 .. Len(db.evidence) + Len(found)])
      /\ UNCHANGED <<use, kills>>

(* Mutation of Eligible: the signal is left to the prompt.                 *)
Eligible_Prompted(call) == call.pool

(* Evidence a customer's signal does not bear on this claim leaves.        *)
Eligible(call) == {e \in call.pool : isSignalEligibleForClaim(db.evidence[e].signal, db.claims[call.claim].type)}

DevValidatorFixture(pool) ==
  LET supporting == {e \in pool : db.evidence[e].tone = "for"}
      contradicting == {e \in pool : db.evidence[e].tone = "against"}
      status == CASE supporting = {} /\ contradicting = {} -> "INSUFFICIENT_EVIDENCE"
                  [] supporting = {}                       -> "CONTRADICTED"
                  [] contradicting # {}                    -> "CONFLICTED"
                  [] OTHER                                 -> "SUPPORTED"
  IN  [status |-> status, supporting |-> supporting, contradicting |-> contradicting]
Invented == 99
ValidatorAnswers(pool) ==
  {DevValidatorFixture(pool)} \cup
    IF "validate" \in use.vary
    THEN {[status |-> "SUPPORTED", supporting |-> pool \cup {Invented}, contradicting |-> {}],
          [status |-> "WEAK", supporting |-> {}, contradicting |-> {Invented}]}
    ELSE {}

(* A cycle goes on with its next claim; a single validation ends here.     *)
OnToNextClaim(call) == [call EXCEPT !.at = "next", !.todo = @ \ {call.claim}, !.claim = 0, !.pool = {}, !.row = 0, !.status = "none", !.conf = 0]

WriteReport(c, answer) ==
  LET call == calls[c]
      pool == Eligible(call)
  IN  /\ call.at = "answer"
      /\ answer \in ValidatorAnswers(pool)
      /\ db' = [db EXCEPT !.reports = Append(@, NewValidationReport(call.claim, answer.status, answer.supporting \cap pool,
                                                                    answer.contradicting \cap pool))]
      /\ GoTo(c, [call EXCEPT !.at = "recalculate", !.pool = {}, !.done = @ + 1, !.models = @ + 1])
      /\ UNCHANGED <<use, kills>>

(* Items of one organization are known not to be independent of each       *)
(* other, and that too is the level KNOWN.                                 *)
classifyIndependence(items) ==
  LET orgs == {db.evidence[e].org : e \in items}
  IN  CASE Cardinality(items) < 2                                    -> "UNKNOWN"
        [] "none" \notin orgs                                        -> "KNOWN"
        [] Cardinality(orgs \ {"none"}) >= 2 \/ orgs # {"none"}      -> "LIKELY"   \* two organizations, or two sources
        [] OTHER                                                     -> "UNKNOWN"
INDEPENDENCE_CREDIT == [KNOWN |-> 100, LIKELY |-> 60, UNKNOWN |-> 20]
STATUS_TARGET ==
  [SUPPORTED |-> 90, WEAK |-> 40, CONTRADICTED |-> 10, CONFLICTED |-> 50, INSUFFICIENT_EVIDENCE |-> -1, UNVERIFIED |-> -1]
AtMost3(n) == IF n > 3 THEN 3 ELSE n

(* Supporting items are of MEDIUM reliability, half specific, fresh.       *)
recalculateClaimConfidence(prior, report) ==
  LET target == STATUS_TARGET[report.status]
      n == Cardinality(report.supporting)
      quality == IF n = 0 THEN 0 ELSE 30 * 60 + 20 * 50 + 15 * 100
      strength == (quality + 15 * INDEPENDENCE_CREDIT[classifyIndependence(report.supporting)] + (20 * 100 * AtMost3(n)) \div 3) \div 100
      confidence == (target * (100 + strength)) \div 200 - (20 * AtMost3(Cardinality(report.contradicting))) \div 3
  IN  IF target < 0 THEN prior ELSE IF confidence < 0 THEN 0 ELSE confidence

recalculateFromLatestReport(c) ==
  LET call == calls[c]
      report == db.reports[LatestReport(call.claim)]
  IN  /\ call.at = "recalculate"
      /\ GoTo(c, [call EXCEPT !.at = "setStatus", !.status = report.status,
                              !.conf = recalculateClaimConfidence(db.claims[call.claim].conf, report)])
      /\ UNCHANGED <<use, db, kills>>

SetStatus(c) ==
  LET call == calls[c]
  IN  /\ call.at = "setStatus"
      /\ db' = [db EXCEPT !.claims[call.claim].status = call.status, !.claims[call.claim].conf = call.conf]
      /\ GoTo(c, [call EXCEPT !.at = "findGap"])
      /\ UNCHANGED <<use, kills>>

UNCERTAINTY_FACTOR ==
  [UNVERIFIED |-> 100, INSUFFICIENT_EVIDENCE |-> 100, WEAK |-> 70, CONFLICTED |-> 70, SUPPORTED |-> 30, CONTRADICTED |-> 30]
computeExpectedInformationGain(importance, status) ==
  50 * CLAIM_IMPORTANCE_WEIGHT[importance] + 30 * UNCERTAINTY_FACTOR[status] - 20 * 30
CLAIM_GAP_STATUS ==
  [UNVERIFIED |-> "UNKNOWN", INSUFFICIENT_EVIDENCE |-> "UNKNOWN", WEAK |-> "ASSUMPTION", CONFLICTED |-> "ASSUMPTION",
   SUPPORTED |-> "KNOWN", CONTRADICTED |-> "KNOWN"]

FindGap(c) ==
  LET call == calls[c]
  IN  /\ call.at = "findGap"
      /\ GoTo(c, [call EXCEPT !.at = "writeGap", !.row = Latest(db.gaps, LAMBDA g : g.claim = call.claim)])
      /\ UNCHANGED <<use, db, kills>>

Top(gaps) == CHOOSE g \in DOMAIN gaps : \A h \in DOMAIN gaps : gaps[h].impact < gaps[g].impact \/ (gaps[h].impact = gaps[g].impact /\ g <= h)

(* Mutation of WriteGap: the gap is created anew at every validation.      *)
WriteGap_Append(c) ==
  LET call == calls[c]
      gap == [claim |-> call.claim, status |-> CLAIM_GAP_STATUS[call.status],
              impact |-> computeExpectedInformationGain(CLAIM_TYPE_IMPORTANCE[db.claims[call.claim].type], call.status)]
  IN  /\ call.at = "writeGap"
      /\ db' = [db EXCEPT !.gaps = Append(@, gap)]
      /\ IF call.cycle = 0 THEN Return(c) ELSE GoTo(c, [OnToNextClaim(call) EXCEPT !.valid = TRUE])
      /\ UNCHANGED <<use, kills>>

(* One gap per claim, refreshed in place; the biggest of them all is the   *)
(* opportunity's next question.                                            *)
WriteGap(c) ==
  LET call == calls[c]
      gap == [claim |-> call.claim, status |-> CLAIM_GAP_STATUS[call.status],
              impact |-> computeExpectedInformationGain(CLAIM_TYPE_IMPORTANCE[db.claims[call.claim].type], call.status)]
      gaps == IF call.row # 0 THEN [db.gaps EXCEPT ![call.row] = gap] ELSE Append(db.gaps, gap)
  IN  /\ call.at = "writeGap"
      /\ db' = [db EXCEPT !.gaps = gaps, !.opp.next = gaps[Top(gaps)].claim]
      /\ IF call.cycle = 0 THEN Return(c) ELSE GoTo(c, [OnToNextClaim(call) EXCEPT !.valid = TRUE])
      /\ UNCHANGED <<use, kills>>

-----------------------------------------------------------------------------
(* decisionCycleService.run.                                               *)

RunCycle(c, granted) ==
  /\ Begin("cycle", c)
  /\ granted \/ "grant" \in use.vary
  /\ IF granted \/ use.budget.searches = 0
     THEN /\ db' = [db EXCEPT !.cycles = Append(@, NewDecisionCycle("RUNNING"))]
          /\ GoTo(c, [Idle EXCEPT !.at = "extract", !.cycle = Len(db.cycles) + 1])
     ELSE db' = [db EXCEPT !.cycles = Append(@, NewDecisionCycle("AWAITING_HUMAN"))] /\ UNCHANGED calls
  /\ UNCHANGED kills

(* Claims that exist are taken as they are; otherwise one of each type is  *)
(* created, one after the other.                                           *)
extractForOpportunity(c) ==
  LET call == calls[c]
  IN  /\ call.at = "extract"
      /\ GoTo(c, IF db.claims # <<>> THEN [call EXCEPT !.at = "next", !.todo = DOMAIN db.claims] ELSE [call EXCEPT !.at = "create"])
      /\ UNCHANGED <<use, db, kills>>

CreateClaim(c) ==
  LET call == calls[c]
      todo == call.todo \cup {Len(db.claims) + 1}
  IN  /\ call.at = "create"
      /\ db' = [db EXCEPT !.claims = Append(@, NewClaim(use.types[Cardinality(todo)]))]
      /\ GoTo(c, [call EXCEPT !.todo = todo, !.at = IF Cardinality(todo) = Len(use.types) THEN "next" ELSE "create"])
      /\ UNCHANGED <<use, kills>>

(* Mutation of withinBudget: the claims done are not counted.              *)
withinBudget_Endless(call) == call.searches <= use.budget.searches /\ call.models <= use.budget.models + 1

withinBudget(call) ==
  /\ call.done <= use.budget.claims
  /\ call.searches <= use.budget.searches
  /\ call.models <= use.budget.models

(* The claims by importance, in the order of their rows.                   *)
First(todo) ==
  LET weight(i) == CLAIM_IMPORTANCE_WEIGHT[CLAIM_TYPE_IMPORTANCE[db.claims[i].type]]
  IN  CHOOSE i \in todo : \A j \in todo : weight(j) < weight(i) \/ (weight(j) = weight(i) /\ i <= j)

NextClaim(c, onTime) ==
  LET call == calls[c]
      go == withinBudget(call) /\ onTime
  IN  /\ call.at = "next" /\ call.todo # {}
      /\ onTime \/ "slow" \in use.vary
      /\ GoTo(c, IF go THEN [call EXCEPT !.at = "pool", !.claim = First(call.todo)]
                 ELSE [call EXCEPT !.at = "aggregate", !.todo = {}, !.stopped = TRUE])
      /\ UNCHANGED <<use, db, kills>>

Validated(c) ==
  /\ calls[c].at = "next" /\ calls[c].todo = {}
  /\ GoTo(c, [calls[c] EXCEPT !.at = "aggregate"])
  /\ UNCHANGED <<use, db, kills>>

SumOf(f) == LET sum[n \in 0 .. Len(f)] == IF n = 0 THEN 0 ELSE f[n] + sum[n - 1] IN sum[Len(f)]
computeAggregateConfidence ==
  LET weights == [i \in DOMAIN db.claims |-> CLAIM_IMPORTANCE_WEIGHT[CLAIM_TYPE_IMPORTANCE[db.claims[i].type]]]
  IN  SumOf([i \in DOMAIN db.claims |-> weights[i] * db.claims[i].conf]) \div SumOf(weights)

KillRisk == IF db.scores = <<>> THEN 0 ELSE db.scores[Len(db.scores)].kill

recalculateOpportunityConfidence(c) ==
  LET call == calls[c]
      score == IF db.scores = <<>> THEN 0 ELSE db.scores[Len(db.scores)].score
  IN  /\ call.at = "aggregate"
      /\ IF ~call.valid THEN UNCHANGED db
         ELSE db' = [db EXCEPT !.scores = Append(@, [score |-> score, conf |-> computeAggregateConfidence, kill |-> KillRisk]),
                               !.opp.conf = computeAggregateConfidence]
      /\ GoTo(c, [call EXCEPT !.at = IF call.stopped THEN "finish" ELSE IF use.budget.research > 0 THEN "findItems" ELSE "ceo"])
      /\ UNCHANGED <<use, kills>>

(* Every gap without an active item in the research queue gets one.        *)
FindItems(c) ==
  /\ calls[c].at = "findItems"
  /\ GoTo(c, [calls[c] EXCEPT !.at = "writeItems", !.todo = DOMAIN db.gaps \ {db.items[i].gap : i \in DOMAIN db.items}])
  /\ UNCHANGED <<use, db, kills>>

populateForOpportunity(c) ==
  LET todo == calls[c].todo
      nth == [n \in 1 .. Cardinality(todo) |-> CHOOSE g \in todo : Cardinality({h \in todo : h <= g}) = n]
  IN  /\ calls[c].at = "writeItems"
      /\ db' = [db EXCEPT !.items = @ \o [n \in DOMAIN nth |-> [gap |-> nth[n], status |-> "PENDING"]]]
      /\ GoTo(c, [calls[c] EXCEPT !.at = "ceo", !.todo = {}])
      /\ UNCHANGED <<use, kills>>

Important(statuses) ==
  {i \in DOMAIN db.claims : CLAIM_TYPE_IMPORTANCE[db.claims[i].type] \in {"CRITICAL", "HIGH"} /\ db.claims[i].status \in statuses}
LeastConfident == CHOOSE i \in DOMAIN db.claims : \A j \in DOMAIN db.claims : db.claims[i].conf <= db.claims[j].conf

DevCeoFixture ==
  LET supported == Important({"SUPPORTED"})
  IN  CASE Important({"CONTRADICTED"}) # {} -> NewCeoRecommendation("KILL", Important({"CONTRADICTED"}))
        [] db.opp.score >= 50 /\ db.opp.conf >= 50 /\ KillRisk < 60
             -> NewCeoRecommendation("PREPARE_REVIEW", IF supported # {} THEN supported ELSE {LeastConfident})
        [] db.gaps # <<>>   -> NewCeoRecommendation("INVESTIGATE", {db.gaps[Top(db.gaps)].claim})
        [] KillRisk >= 60   -> NewCeoRecommendation("DEPRIORITIZE", {LeastConfident})
        [] OTHER            -> NewCeoRecommendation("HUMAN_REVIEW", {LeastConfident})
CeoAnswers == {DevCeoFixture} \cup IF "ceo" \in use.vary THEN {NewCeoRecommendation("KILL", {Invented}), NewCeoRecommendation("HUMAN_REVIEW", {1})} ELSE {}

RunCeo(c, answer) ==
  LET call == calls[c]
  IN  /\ call.at = "ceo" /\ call.models < use.budget.models
      /\ db' = [db EXCEPT !.recs = Append(@, answer)]
      /\ GoTo(c, [call EXCEPT !.at = "finish", !.models = @ + 1])
      /\ UNCHANGED <<use, kills>>

SkipCeo(c) ==
  /\ calls[c].at = "ceo" /\ calls[c].models >= use.budget.models
  /\ GoTo(c, [calls[c] EXCEPT !.at = "finish"])
  /\ UNCHANGED <<use, db, kills>>

FinishCycle(c) ==
  LET call == calls[c]
      to == IF call.stopped THEN "STOPPED" ELSE "COMPLETED"
  IN  /\ call.at = "finish"
      /\ to \in CYCLE_STATUS_TRANSITIONS[db.cycles[call.cycle].status]
      /\ db' = [db EXCEPT !.cycles[call.cycle] = [status |-> to, claims |-> call.done, searches |-> call.searches, models |-> call.models]]
      /\ Return(c)
      /\ UNCHANGED <<use, kills>>

(* A run that ends without an answer counts the calls it made until then:  *)
(* it may fail in its searches, at the model, or with the answer it got. A *)
(* start that is refused ends the call, and leaves its cycle as it stands. *)
Fault == use.faults > 0 /\ use' = [use EXCEPT !.faults = @ - 1]

RunFails(c) ==
  LET call == calls[c]
      Passed(searches, asked) == [OnToNextClaim(call) EXCEPT !.done = @ + 1, !.searches = @ + searches, !.models = @ + asked]
  IN  /\ Fault
      /\ \/ call.at \in {"pool", "answer"} /\ call.cycle = 0 /\ Return(c)
         \/ call.at = "pool" /\ call.cycle # 0 /\ \E searches \in 0 .. SearchesAllowed(call) : GoTo(c, Passed(searches, 0))
         \/ call.at = "answer" /\ call.cycle # 0 /\ \E asked \in 0 .. 1 : GoTo(c, Passed(0, asked))
         \/ /\ call.at = "ceo" /\ call.models < use.budget.models
            /\ \E asked \in 0 .. 1 : GoTo(c, [call EXCEPT !.at = "finish", !.models = @ + asked])
      /\ UNCHANGED <<db, kills>>

StartRefused(c) ==
  /\ Fault
  /\ calls[c].at = "pool" \/ (calls[c].at = "ceo" /\ calls[c].models < use.budget.models)
  /\ Return(c)
  /\ UNCHANGED <<db, kills>>


-----------------------------------------------------------------------------
(* opportunityService: scores, the validation level, the status.           *)

Score(c, score) ==
  /\ Begin("score", c)
  /\ db' = [db EXCEPT !.scores = Append(@, score)]
  /\ GoTo(c, [Idle EXCEPT !.at = "scored", !.row = score.score, !.conf = score.conf])
  /\ UNCHANGED kills

ScoreWrite(c) ==
  /\ calls[c].at = "scored"
  /\ db' = [db EXCEPT !.opp.score = calls[c].row, !.opp.conf = calls[c].conf]
  /\ Return(c)
  /\ UNCHANGED <<use, kills>>

VALIDATION_LEVEL_REQUIREMENTS ==
  [LEVEL_1 |-> [count |-> 1, conf |-> 0, customer |-> FALSE, human |-> FALSE, chairman |-> FALSE],
   LEVEL_4 |-> [count |-> 2, conf |-> 50, customer |-> TRUE, human |-> TRUE, chairman |-> FALSE],
   LEVEL_5 |-> [count |-> 3, conf |-> 60, customer |-> TRUE, human |-> TRUE, chairman |-> TRUE]]
AverageConfidence == IF db.evidence = <<>> THEN 0 ELSE SumOf([e \in DOMAIN db.evidence |-> db.evidence[e].conf]) \div Len(db.evidence)
checkValidationLevelRequirement(requirement) ==
  /\ Len(db.evidence) >= requirement.count
  /\ AverageConfidence >= requirement.conf
  /\ requirement.customer => \E e \in DOMAIN db.evidence : db.evidence[e].source = "CUSTOMER"

SetValidationLevel(c, level, human) ==
  LET requirement == VALIDATION_LEVEL_REQUIREMENTS[level]
  IN  /\ Begin("level", c)
      /\ requirement.human => human
      /\ checkValidationLevelRequirement(requirement)
      /\ requirement.chairman => db.reviews # <<>> /\ db.reviews[Len(db.reviews)] = "APPROVE"
      /\ db' = [db EXCEPT !.opp.level = level]
      /\ UNCHANGED <<calls, kills>>

Transition(c, to) ==
  /\ Begin("move", c)
  /\ to \in OPPORTUNITY_STATUS_TRANSITIONS[db.opp.status]
  /\ GoTo(c, [Idle EXCEPT !.at = "move", !.status = to])
  /\ UNCHANGED <<db, kills>>

(* The row takes the status whatever it holds by now.                      *)
TransitionWrite(c) ==
  /\ calls[c].at = "move"
  /\ db' = [db EXCEPT !.opp.status = calls[c].status]
  /\ kills' = IF calls[c].status = "KILLED" THEN kills \cup {[by |-> "hand", approval |-> 0]} ELSE kills
  /\ Return(c)
  /\ UNCHANGED use

-----------------------------------------------------------------------------
(* The CEO's second question, the Chairman's review and the memo.          *)

DevCustomerDiscoveryFixture ==
  LET segment == {i \in DOMAIN db.claims : db.claims[i].type = "CUSTOMER_SEGMENT" /\ db.claims[i].status \in {"CONTRADICTED", "WEAK"}}
  IN  CASE segment # {}     -> NewCeoRecommendation("REFINE_ICP", segment)
        [] db.gaps # <<>>   -> NewCeoRecommendation("RUN_CUSTOMER_DISCOVERY", {db.gaps[Top(db.gaps)].claim})
        [] OTHER            -> NewCeoRecommendation("REQUEST_HUMAN_REVIEW", {LeastConfident})

recommendCustomerDiscoveryAction(c) ==
  /\ Begin("discovery", c)
  /\ db.claims # <<>>
  /\ db' = [db EXCEPT !.recs = Append(@, DevCustomerDiscoveryFixture)]
  /\ UNCHANGED <<calls, kills>>

DevChairmanFixture ==
  CASE Important({"CONTRADICTED", "CONFLICTED"}) # {}      -> "REJECT"
    [] Len(db.evidence) < 2 \/ AverageConfidence < 40      -> "REQUEST_MORE_EVIDENCE"
    [] KillRisk >= 60                                      -> "REJECT"
    [] db.opp.score >= 60 /\ db.opp.conf >= 50             -> "APPROVE"
    [] OTHER                                               -> "REQUEST_MORE_EVIDENCE"

ReviewOpportunity(c) ==
  /\ Begin("review", c)
  /\ GoTo(c, [Idle EXCEPT !.at = "review", !.status = DevChairmanFixture])
  /\ UNCHANGED <<db, kills>>

ReviewWrite(c) ==
  /\ calls[c].at = "review"
  /\ db' = [db EXCEPT !.reviews = Append(@, calls[c].status)]
  /\ Return(c)
  /\ UNCHANGED <<use, kills>>

CompileMemo(c, rec, review) ==
  /\ Begin("memo", c)
  /\ db' = [db EXCEPT !.memos = Append(@, NewInvestmentMemo(rec, review, [i \in DOMAIN db.claims |-> db.claims[i].status]))]
  /\ UNCHANGED <<calls, kills>>

-----------------------------------------------------------------------------
(* decisionRecordService, around the approval engine.                      *)

APPROVAL_ACTION_FOR_CEO_ACTION ==
  [KILL |-> "KILL_OPPORTUNITY", PREPARE_REVIEW |-> "REVIEW_INVESTMENT_MEMO", HUMAN_REVIEW |-> "REVIEW_OPPORTUNITY"]

AskForApproval(action) == db' = [db EXCEPT !.approvals = Append(@, [action |-> action, status |-> "PENDING"])]

(* Other recommendations need no approval: nothing happens.                *)
requestApprovalForRecommendation(c, rec) ==
  /\ Begin("request", c)
  /\ db.recs[rec].action \in DOMAIN APPROVAL_ACTION_FOR_CEO_ACTION
  /\ AskForApproval(APPROVAL_ACTION_FOR_CEO_ACTION[db.recs[rec].action])
  /\ UNCHANGED <<calls, kills>>

(* POST /opportunities/:id/request-approval takes any action.              *)
RequestApproval(c, action) == Begin("ask", c) /\ AskForApproval(action) /\ UNCHANGED <<calls, kills>>

Decide(c, a, verdict) ==
  /\ Begin("decide", c)
  /\ db.approvals[a].status = "PENDING"
  /\ db' = [db EXCEPT !.approvals[a].status = verdict]
  /\ UNCHANGED <<calls, kills>>

(* Mutation of IsKill: an approved review of the memo kills as well.       *)
IsKill_Any(approval) == approval.status = "APPROVED"

IsKill(approval) == approval.status = "APPROVED" /\ approval.action = "KILL_OPPORTUNITY"

(* A decision that has its record is answered with it. Otherwise the       *)
(* latest recommendation, review and memo are the ones it is recorded on.  *)
applyHumanDecision(c, a) ==
  /\ Begin("apply", c)
  /\ db.approvals[a].status \in {"APPROVED", "REJECTED"}
  /\ \A r \in DOMAIN db.records : db.records[r].approval # a
  /\ GoTo(c, [Idle EXCEPT !.at = IF IsKill(db.approvals[a]) THEN "kill" ELSE "record", !.row = a,
                          !.rec = Len(db.recs), !.review = Len(db.reviews), !.memo = Len(db.memos)])
  /\ UNCHANGED <<db, kills>>

ApplyKill(c) ==
  /\ calls[c].at = "kill"
  /\ IF "KILLED" \in OPPORTUNITY_STATUS_TRANSITIONS[db.opp.status] THEN GoTo(c, [calls[c] EXCEPT !.at = "killWrite"]) ELSE Return(c)
  /\ UNCHANGED <<use, db, kills>>

ApplyKillWrite(c) ==
  /\ calls[c].at = "killWrite"
  /\ db' = [db EXCEPT !.opp.status = "KILLED"]
  /\ kills' = kills \cup {[by |-> "decision", approval |-> calls[c].row]}
  /\ GoTo(c, [calls[c] EXCEPT !.at = "record"])
  /\ UNCHANGED use

ApplyRecord(c) ==
  LET call == calls[c]
  IN  /\ call.at = "record"
      /\ db' = [db EXCEPT !.records = Append(@, NewDecisionRecord(call.row, db.approvals[call.row].status, call.rec, call.review, call.memo))]
      /\ Return(c)
      /\ UNCHANGED <<use, kills>>

(* A crash: the calls are gone.                                            *)
Restart ==
  /\ use.restarts > 0 /\ \E c \in Calls : calls[c].at # "idle"
  /\ use' = [use EXCEPT !.restarts = @ - 1]
  /\ calls' = [c \in Calls |-> Idle]
  /\ UNCHANGED <<db, kills>>

SeqsUpTo(S, n) == UNION {[1 .. m -> S] : m \in 0 .. n}

DecisionNext ==
  \/ \E c \in Calls :
       \/ \E item \in use.items : AttachEvidence(c, item)
       \/ CreateCustomerEvidence(c)
       \/ \E claim \in DOMAIN db.claims : ValidateClaim(c, claim)
       \/ \E found \in SeqsUpTo(use.found, SearchesAllowed(calls[c])) : ReadPool(c, found)
       \/ calls[c].at = "answer" /\ \E answer \in ValidatorAnswers(Eligible(calls[c])) : WriteReport(c, answer)
       \/ recalculateFromLatestReport(c) \/ SetStatus(c) \/ FindGap(c) \/ WriteGap(c)
       \/ \E granted \in BOOLEAN : RunCycle(c, granted)
       \/ extractForOpportunity(c) \/ CreateClaim(c)
       \/ \E onTime \in BOOLEAN : NextClaim(c, onTime)
       \/ Validated(c) \/ recalculateOpportunityConfidence(c) \/ FindItems(c) \/ populateForOpportunity(c)
       \/ calls[c].at = "ceo" /\ \E answer \in CeoAnswers : RunCeo(c, answer)
       \/ SkipCeo(c) \/ FinishCycle(c) \/ RunFails(c) \/ StartRefused(c)
       \/ \E score \in {[score |-> 70, conf |-> 60, kill |-> 0], [score |-> 40, conf |-> 60, kill |-> 70]} : Score(c, score)
       \/ ScoreWrite(c)
       \/ \E level \in DOMAIN VALIDATION_LEVEL_REQUIREMENTS, human \in BOOLEAN : SetValidationLevel(c, level, human)
       \/ \E to \in DOMAIN OPPORTUNITY_STATUS_TRANSITIONS : Transition(c, to)
       \/ TransitionWrite(c) \/ recommendCustomerDiscoveryAction(c) \/ ReviewOpportunity(c) \/ ReviewWrite(c)
       \/ \E rec \in DOMAIN db.recs, review \in DOMAIN db.reviews : CompileMemo(c, rec, review)
       \/ \E rec \in DOMAIN db.recs : requestApprovalForRecommendation(c, rec)
       \/ \E action \in {"KILL_OPPORTUNITY", "ADVANCE_OPPORTUNITY"} : RequestApproval(c, action)
       \/ \E a \in DOMAIN db.approvals, verdict \in {"APPROVED", "REJECTED", "DEFERRED"} : Decide(c, a, verdict)
       \/ \E a \in DOMAIN db.approvals : applyHumanDecision(c, a)
       \/ ApplyKill(c) \/ ApplyKillWrite(c) \/ ApplyRecord(c)
  \/ Restart

-----------------------------------------------------------------------------
(* The rows and the calls have their types, and rows name rows.            *)
DecisionTypeOK ==
  /\ db.opp.status \in DOMAIN OPPORTUNITY_STATUS_TRANSITIONS
  /\ \A i \in DOMAIN db.claims : db.claims[i].status \in ClaimStatuses /\ db.claims[i].conf \in 0 .. 100
  /\ \A r \in DOMAIN db.reports : db.reports[r].claim \in DOMAIN db.claims /\ db.reports[r].supporting \subseteq DOMAIN db.evidence
  /\ \A g \in DOMAIN db.gaps : db.gaps[g].claim \in DOMAIN db.claims /\ db.gaps[g].impact \in 0 .. 10000
  /\ \A i \in DOMAIN db.cycles : db.cycles[i].status \in DOMAIN CYCLE_STATUS_TRANSITIONS
  /\ \A r \in DOMAIN db.records : db.records[r].decision \in {"APPROVED", "REJECTED"} /\ db.records[r].rec \in 0 .. Len(db.recs)

(* When no two calls run at the same time and none crashes, no customer's  *)
(* word supports the claim that they will pay unless it is about paying:   *)
(* "I would like it" is not "I pay for it". Elsewhere evidence stands for  *)
(* a moment without the signal that says so. evidenceValidatorService.run, *)
(* isSignalEligibleForClaim.                                               *)
InterestIsNotPayment ==
  use.load = 1 /\ use.crashes = 0 =>
    \A r \in DOMAIN db.reports :
      db.claims[db.reports[r].claim].type = "WILLINGNESS_TO_PAY" =>
        \A e \in db.reports[r].supporting : db.evidence[e].said \in {"none", "WTP", "CURRENT_SPENDING", "OBJECTION"}

(* A claim has a status only because one of its reports gave it. When no   *)
(* two calls run at the same time, once a claim's validation is over the   *)
(* status is its latest report's, its one gap agrees, and the gap waits in *)
(* the research queue at most once. recalculateFromLatestReport,           *)
(* evidenceGapService.recalculateForClaim, populateForOpportunity.         *)
ClaimsFollowTheirReports ==
  /\ \A i \in DOMAIN db.claims : db.claims[i].status # "UNVERIFIED" =>
       \E r \in DOMAIN db.reports : db.reports[r].claim = i /\ db.reports[r].status = db.claims[i].status
  /\ use.load = 1 =>
       /\ \A g, h \in DOMAIN db.gaps : db.gaps[g].claim = db.gaps[h].claim => g = h
       /\ \A i, j \in DOMAIN db.items : db.items[i].gap = db.items[j].gap => i = j
       /\ \A i, j \in DOMAIN db.claims : db.claims[i].type = db.claims[j].type => i = j
       /\ \A i \in DOMAIN db.claims :
            LatestReport(i) # 0 /\ db.reports[LatestReport(i)].status # db.claims[i].status /\ use.crashes = 0 =>
              \E c \in Calls : calls[c].claim = i
       /\ \A g \in DOMAIN db.gaps :
            db.gaps[g].status # CLAIM_GAP_STATUS[db.claims[db.gaps[g].claim].status] /\ use.crashes = 0 =>
              \E c \in Calls : calls[c].claim = db.gaps[g].claim

(* A cycle stays within its budget of claims, searches and model calls: it *)
(* checks after a claim, so each of the three may be passed by one claim's *)
(* work and by no more. decisionCycleService.run.                          *)
CyclesKeepTheirBudget ==
  \A i \in DOMAIN db.cycles :
    /\ db.cycles[i].claims <= use.budget.claims + 1
    /\ db.cycles[i].searches <= use.budget.searches
    /\ db.cycles[i].models <= use.budget.models + 1

(* A decision kills an opportunity only when a human approved just that;   *)
(* what is recorded of a decision is what the human decided. When no two   *)
(* calls run at the same time and none crashes, a decision is recorded at  *)
(* most once, a kill decided has its record, and what was killed stays so. *)
(* decisionRecordService.applyHumanDecision.                               *)
KillsWereDecided ==
  /\ \A k \in kills : k.by = "decision" =>
       db.approvals[k.approval].status = "APPROVED" /\ db.approvals[k.approval].action = "KILL_OPPORTUNITY"
  /\ \A r \in DOMAIN db.records : db.records[r].decision = db.approvals[db.records[r].approval].status
  /\ use.load = 1 /\ use.crashes = 0 =>
       /\ \A r, q \in DOMAIN db.records : db.records[r].approval = db.records[q].approval => r = q
       /\ kills # {} => db.opp.status \in {"KILLED", "ARCHIVED"}
       /\ \A k \in kills : k.by = "decision" =>
            \/ \E r \in DOMAIN db.records : db.records[r].approval = k.approval
            \/ \E c \in Calls : calls[c].at = "record" /\ calls[c].row = k.approval
=============================================================================
