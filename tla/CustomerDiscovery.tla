-------------------------- MODULE CustomerDiscovery --------------------------
(***************************************************************************)
(* What is learnt from talking to customers: interactions a human records, *)
(* findings that become evidence when they were observed, the ladder that  *)
(* says how far an opportunity is validated, the ideal customer profile    *)
(* with the claims it is wired to, the discovery experiment that finds     *)
(* prospects and stops at a request to a human, and the discovery memo.    *)
(*                                                                         *)
(* A call gives way before every run of an agent, at every write, and      *)
(* wherever rows are read in one statement and used after another. What an *)
(* agent of the experiment does within one run is one step here (its own   *)
(* steps are those of Outreach). A restart ends every call.                *)
(***************************************************************************)
EXTENDS Integers, Sequences, FiniteSets
LOCAL Ext == INSTANCE SequencesExt

CONSTANTS
  Calls,      \* requests that may be in flight
  Uses        \* the ways the component is used, one for each behaviour

VARIABLES
  use,        \* [ops, load, starts, crashes, restarts, mishaps, faults, vary, told, talks, unfound, target, prospects, agents]
  db,         \* the tables, see DiscoveryInit
  calls,      \* call -> where it is
  said        \* history: <<organization, outcome>> for each outcome a human set, and the claims that were ever contradicted

vars == <<use, db, calls, said>>

PROSPECT_STATUSES ==
  {"DISCOVERED", "QUALIFIED", "REJECTED", "APPROVED_FOR_DRAFT", "DRAFT_READY", "AWAITING_HUMAN_APPROVAL", "APPROVED_TO_CONTACT",
   "CONTACTED", "RESPONDED", "NO_RESPONSE", "DO_NOT_CONTACT", "COMPLETED"}
CUSTOMER_DISCOVERY_INTERACTION_OUTCOMES ==
  {"PROBLEM_CONFIRMED", "PROBLEM_NOT_PRESENT", "ALREADY_SOLVED_ADEQUATELY", "INCONCLUSIVE"}
FINDING_FIELD_TO_SIGNAL_TYPE ==
  [PROBLEM_CONFIRMED |-> "PAIN", WORKFLOW |-> "WORKFLOW", FREQUENCY |-> "FREQUENCY", VOLUME |-> "VOLUME", TIME_COST |-> "TIME_COST",
   CURRENT_WORKAROUND |-> "CURRENT_WORKAROUND", CURRENT_TOOL |-> "CURRENT_WORKAROUND", EXISTING_SPEND |-> "CURRENT_SPENDING",
   CONSEQUENCE |-> "CONSEQUENCE", PREVIOUS_AUTOMATION_ATTEMPTS |-> "AUTOMATION_ATTEMPT", PRIORITY_URGENCY |-> "URGENCY",
   WILLINGNESS_TO_PAY |-> "WTP"]                                        \* and CUSTOMER_LANGUAGE has none
ICP_TESTABLE_FIELDS ==
  [role |-> "CUSTOMER_SEGMENT", problemExposure |-> "CUSTOMER_PROBLEM", likelyFrequency |-> "FREQUENCY"]
CUSTOMER_DISCOVERY_HUMAN_DECISIONS == {"APPROVE", "REJECT", "MORE_RESEARCH", "REFINE_ICP", "STOP"}
MAX_RESEARCH_ITERATIONS == 5
Roles == <<"ICP Analyst", "Prospect Researcher", "Prospect Qualification", "Message Drafter">>
ProspectRow(names) == [org : names, status : PROSPECT_STATUSES]

(* What is assumed of the constants: nothing went wrong yet, and an agent  *)
(* that is registered already is registered once.                          *)
DiscoveryConstants ==
  /\ IsFiniteSet(Calls)
  /\ \A u \in Uses :
       /\ {"load", "crashes", "restarts", "faults", "mishaps", "unfound", "target", "prospects", "agents"} \subseteq DOMAIN u
       /\ u.load \in Nat /\ u.restarts \in Nat /\ u.crashes = u.restarts
       /\ u.mishaps \in Nat /\ u.faults = u.mishaps
       /\ IsFiniteSet(u.unfound) /\ u.target \in Nat
       /\ u.prospects \in Seq(ProspectRow({u.prospects[p].org : p \in DOMAIN u.prospects}))
       /\ u.agents \in Seq({Roles[n] : n \in DOMAIN Roles})
       /\ \A a, b \in DOMAIN u.agents : u.agents[a] = u.agents[b] => a = b

NoProfile == [field \in DOMAIN ICP_TESTABLE_FIELDS |-> [value |-> "none", cites |-> {}]]
Idle ==
  [at |-> "idle", op |-> "none", i |-> 0, f |-> 0, e |-> 0, seen |-> <<>>, todo |-> <<>>, read |-> {}, profile |-> NoProfile,
   known |-> 0, found |-> {}, left |-> {}, rounds |-> 0, m |-> 0, decision |-> "none"]
May(op) ==      \* a request of one step, or the first of several
  /\ op \in use.ops /\ use.starts > 0
  /\ Cardinality({d \in Calls : calls[d].at # "idle"}) < use.load
  /\ use' = [use EXCEPT !.starts = @ - 1]
Begin(op, c) == calls[c].at = "idle" /\ May(op)
GoTo(c, call) == calls' = [calls EXCEPT ![c] = call]
Return(c) == GoTo(c, Idle)
Fault == use.faults > 0 /\ use' = [use EXCEPT !.faults = @ - 1]

(* The rows as they are created.                                           *)
NewProspect(org) == [org |-> org, status |-> "DISCOVERED"]
NewInteraction(p, reality) == [prospect |-> p, reality |-> reality, outcome |-> "none"]
NewFinding(i, field, provenance) == [interaction |-> i, field |-> field, provenance |-> provenance, promoted |-> 0]
NewEvidence(i, reality) == [interaction |-> i, reality |-> reality, attached |-> FALSE, signal |-> "none"]
NewClaim(type, value, profile, field) ==
  [type |-> type, value |-> value, status |-> "UNVERIFIED", profile |-> profile, field |-> field]
NewMemo == [decision |-> "none", validated |-> FALSE]

DiscoveryInit ==
  /\ use \in Uses
  /\ db = [prospects |-> use.prospects, interactions |-> use.talks, findings |-> <<>>, evidence |-> <<>>,
           profiles |-> <<>>, claims |-> <<>>, agents |-> use.agents, granted |-> use.agents # <<>>,
           experiment |-> "ACTIVE", messages |-> <<>>, memos |-> <<>>]
  /\ calls = [c \in Calls |-> Idle]
  /\ said = {<<use.prospects[talk.prospect].org, talk.outcome>> : talk \in {use.talks[i] : i \in DOMAIN use.talks}}

-----------------------------------------------------------------------------
(* customerDiscoveryInteractionService: a human records a talk and, at any *)
(* time and as often as it pleases, its outcome.                           *)

Record(p, reality) ==
  /\ May("record")
  /\ db' = [db EXCEPT !.interactions = Append(@, NewInteraction(p, reality))]
  /\ UNCHANGED <<calls, said>>

Organization(i) == db.prospects[db.interactions[i].prospect].org

SetOutcome(i, outcome) ==
  /\ May("outcome")
  /\ db' = [db EXCEPT !.interactions[i].outcome = outcome]
  /\ said' = said \cup {<<Organization(i), outcome>>}
  /\ UNCHANGED calls

(* Mutation of Promotable: what the analyst inferred is evidence as well.  *)
Promotable_Inferred(field, provenance) == provenance # "UNKNOWN" /\ field \in DOMAIN FINDING_FIELD_TO_SIGNAL_TYPE

Promotable(field, provenance) == provenance = "OBSERVED" /\ field \in DOMAIN FINDING_FIELD_TO_SIGNAL_TYPE

(* A strength that is not one is found out when the finding is written.    *)
AttachFinding(c, i, field, provenance, strength) ==
  /\ Begin("find", c)
  /\ db' = [db EXCEPT !.findings = Append(@, NewFinding(i, field, provenance))]
  /\ IF Promotable(field, provenance) /\ strength = "known"
     THEN GoTo(c, [Idle EXCEPT !.at = "collect", !.i = i, !.f = Len(db.findings) + 1]) ELSE UNCHANGED calls
  /\ UNCHANGED said

(* Mutation of CollectEvidence: evidence is taken to be real.              *)
CollectEvidence_Real(c) ==
  /\ calls[c].at = "collect"
  /\ db' = [db EXCEPT !.evidence = Append(@, NewEvidence(calls[c].i, "REAL"))]
  /\ GoTo(c, [calls[c] EXCEPT !.at = "attach", !.e = Len(db.evidence) + 1])
  /\ UNCHANGED <<use, said>>

CollectEvidence(c) ==
  /\ calls[c].at = "collect"
  /\ db' = [db EXCEPT !.evidence = Append(@, NewEvidence(calls[c].i, db.interactions[calls[c].i].reality))]
  /\ GoTo(c, [calls[c] EXCEPT !.at = "attach", !.e = Len(db.evidence) + 1])
  /\ UNCHANGED <<use, said>>

AttachEvidence(c) ==
  /\ calls[c].at = "attach"
  /\ db' = [db EXCEPT !.evidence[calls[c].e].attached = TRUE]
  /\ GoTo(c, [calls[c] EXCEPT !.at = "wrap"])
  /\ UNCHANGED <<use, said>>

CreateCustomerEvidence(c) ==
  /\ calls[c].at = "wrap"
  /\ db' = [db EXCEPT !.evidence[calls[c].e].signal = FINDING_FIELD_TO_SIGNAL_TYPE[db.findings[calls[c].f].field]]
  /\ GoTo(c, [calls[c] EXCEPT !.at = "promote"])
  /\ UNCHANGED <<use, said>>

MarkPromoted(c) ==
  /\ calls[c].at = "promote"
  /\ db' = [db EXCEPT !.findings[calls[c].f].promoted = calls[c].e]
  /\ Return(c)
  /\ UNCHANGED <<use, said>>

-----------------------------------------------------------------------------
(* customerValidationService.evaluate: the interactions are listed, then   *)
(* the findings of one after the other, and the ladder is climbed.         *)

Evaluate(c) ==
  /\ Begin("evaluate", c)
  /\ GoTo(c, [Idle EXCEPT !.at = "gather", !.seen = db.interactions, !.todo = [i \in DOMAIN db.interactions |-> i]])
  /\ UNCHANGED <<db, said>>

FindingsOf(i) == {f \in DOMAIN db.findings : db.findings[f].interaction = i}

ListForInteraction(c) ==
  LET call == calls[c]
  IN  /\ call.at = "gather"
      /\ GoTo(c, IF call.todo = <<>> THEN [call EXCEPT !.at = "answer"]
                 ELSE [call EXCEPT !.todo = Tail(@), !.read = @ \cup FindingsOf(Head(call.todo))])
      /\ UNCHANGED <<use, db, said>>

Observed(read, i, fields) ==
  \E f \in read : db.findings[f].interaction = i /\ db.findings[f].provenance = "OBSERVED" /\ db.findings[f].field \in fields

(* Ranks of WTP_LEVELS: VERY_STRONG, STRONG, MEDIUM, WEAK, NONE.           *)
classifyWtp(read, i) ==
  CASE Observed(read, i, {"WILLINGNESS_TO_PAY"})                         -> 4
    [] Observed(read, i, {"EXISTING_SPEND", "TIME_COST", "CONSEQUENCE"}) -> 3
    [] Observed(read, i, {"FREQUENCY", "VOLUME"})                        -> 2
    [] Observed(read, i, {"PROBLEM_CONFIRMED"})                          -> 1
    [] OTHER                                                             -> 0
Strong == 3

(* Distinct organizations of interactions; an unnamed one is no business.  *)
Businesses(seen, interactions) == {db.prospects[seen[i].prospect].org : i \in interactions} \ {"none"}

(* Mutation of Told: talks are counted, not businesses.                    *)
Told_Messages(seen, read) ==
  LET confirmed == {i \in DOMAIN seen : seen[i].outcome = "PROBLEM_CONFIRMED" /\ db.prospects[seen[i].prospect].org # "none"}
  IN  [confirming |-> confirmed,
       absent     |-> Businesses(seen, {i \in DOMAIN seen : seen[i].outcome \in {"PROBLEM_NOT_PRESENT", "ALREADY_SOLVED_ADEQUATELY"}}),
       pain       |-> \E i \in confirmed : Observed(read, i, {"FREQUENCY", "VOLUME", "TIME_COST"}),
       wtp        |-> {classifyWtp(read, i) : i \in confirmed}]

Told(seen, read) ==
  LET confirmed == {i \in DOMAIN seen : seen[i].outcome = "PROBLEM_CONFIRMED" /\ db.prospects[seen[i].prospect].org # "none"}
  IN  [confirming |-> Businesses(seen, confirmed),
       absent     |-> Businesses(seen, {i \in DOMAIN seen : seen[i].outcome \in {"PROBLEM_NOT_PRESENT", "ALREADY_SOLVED_ADEQUATELY"}}),
       pain       |-> \E i \in confirmed : Observed(read, i, {"FREQUENCY", "VOLUME", "TIME_COST"}),
       wtp        |-> {classifyWtp(read, i) : i \in confirmed}]

evaluateCustomerValidation(told) ==
  CASE Cardinality(told.absent) >= 2                               -> "REJECTED"
    [] told.confirming = {}                                        -> "UNVALIDATED"
    [] Cardinality(told.confirming) < 2 \/ ~told.pain              -> "INTERESTING"
    [] \E w \in told.wtp : w >= Strong                             -> "BUILD_CANDIDATE"
    [] OTHER                                                       -> "STRONG"

Answer(c) == calls[c].at = "answer" /\ Return(c) /\ UNCHANGED <<use, db, said>>

-----------------------------------------------------------------------------
(* icpAnalystService and icpClaimService: a profile generated from the     *)
(* claims, and then a claim for each testable field that is not the very   *)
(* claim it cites.                                                         *)

FirstClaim(type) ==
  LET hits == {k \in DOMAIN db.claims : db.claims[k].type = type /\ db.claims[k].status # "CONTRADICTED"}
  IN  {k \in hits : \A j \in hits : k <= j}

buildDevIcpFixture ==
  [field \in DOMAIN ICP_TESTABLE_FIELDS |->
     LET cites == FirstClaim(ICP_TESTABLE_FIELDS[field])
     IN  [value |-> IF cites = {} THEN "assumed" ELSE db.claims[CHOOSE k \in cites : TRUE].value, cites |-> cites]]

(* A live model may put what it likes in a field and cite what it likes.   *)
Generations ==
  {buildDevIcpFixture} \cup
  {[buildDevIcpFixture EXCEPT !.role = [value |-> value, cites |-> cites]] :
     value \in (IF "icp" \in use.vary THEN {"assumed", "invented"} ELSE {}), cites \in SUBSET DOMAIN db.claims}

RunIcpAnalyst(c) ==
  /\ Begin("icp", c)
  /\ \E profile \in Generations : GoTo(c, [Idle EXCEPT !.at = "profile", !.op = "icp", !.profile = profile])
  /\ UNCHANGED <<db, said>>

CreateProfile(c) ==
  /\ calls[c].at = "profile"
  /\ db' = [db EXCEPT !.profiles = Append(@, calls[c].profile)]
  /\ GoTo(c, [calls[c] EXCEPT !.at = "wireRead", !.i = Len(db.profiles) + 1])
  /\ UNCHANGED <<use, said>>

WireRead(c) ==
  /\ calls[c].at = "wireRead"
  /\ GoTo(c, [calls[c] EXCEPT !.at = "wire", !.known = Len(db.claims), !.todo = <<"role", "problemExposure", "likelyFrequency">>])
  /\ UNCHANGED <<use, db, said>>

(* Mutation of Stated: a citation counts only if the claim is evidenced.   *)
Stated_Supported(call, field) ==
  LET cites == call.profile[field].cites \cap 1 .. call.known
  IN  {k \in cites : db.claims[k].value = call.profile[field].value /\ db.claims[k].status = "SUPPORTED"}

(* The claim that says the same, word for word: the only one it cites.     *)
Stated(call, field) ==
  LET cites == call.profile[field].cites
  IN  {k \in cites \cap 1 .. call.known : Cardinality(cites) = 1 /\ db.claims[k].value = call.profile[field].value}

WiredBefore(call, field) == \E k \in 1 .. call.known : db.claims[k].profile = call.i /\ db.claims[k].field = field

WireField(c) ==
  LET call == calls[c]
      field == Head(call.todo)
  IN  /\ call.at = "wire" /\ call.todo # <<>>
      /\ IF WiredBefore(call, field) \/ Stated(call, field) # {} THEN UNCHANGED db
         ELSE db' = [db EXCEPT !.claims = Append(@, NewClaim(ICP_TESTABLE_FIELDS[field], call.profile[field].value, call.i, field))]
      /\ GoTo(c, [call EXCEPT !.todo = Tail(@)])
      /\ UNCHANGED <<use, said>>

WireEnd(c) ==
  /\ calls[c].at = "wire" /\ calls[c].todo = <<>>
  /\ IF calls[c].op = "run" THEN GoTo(c, [Idle EXCEPT !.at = "research", !.op = "run"]) ELSE Return(c)
  /\ UNCHANGED <<use, db, said>>

(* What the validation of claims makes of one.                             *)
ValidateClaim(k, status) ==
  /\ May("validate")
  /\ db' = [db EXCEPT !.claims[k].status = status]
  /\ said' = IF status = "CONTRADICTED" THEN said \cup {<<"claim", k>>} ELSE said
  /\ UNCHANGED calls

-----------------------------------------------------------------------------
(* discoveryExperimentService.run, under an experiment a human opened: the *)
(* agents and the profile it needs, and then research, qualification,      *)
(* drafts and requests for approval.                                       *)

RunExperiment(c) ==
  /\ Begin("run", c)
  /\ db.experiment = "ACTIVE"
  /\ GoTo(c, [Idle EXCEPT !.at = "agents", !.op = "run", !.todo = Roles])
  /\ UNCHANGED <<db, said>>

Registered(role) == \E a \in DOMAIN db.agents : db.agents[a] = role

FindAgent(c) ==
  LET call == calls[c]
  IN  /\ call.at = "agents"
      /\ GoTo(c, IF call.todo = <<>> THEN [call EXCEPT !.at = IF db.granted THEN "findProfile" ELSE "grant"]
                 ELSE IF Registered(Head(call.todo)) THEN [call EXCEPT !.todo = Tail(@)]
                 ELSE [call EXCEPT !.at = "createAgent"])
      /\ UNCHANGED <<use, db, said>>

CreateAgent(c) ==
  /\ calls[c].at = "createAgent"
  /\ db' = [db EXCEPT !.agents = Append(@, Head(calls[c].todo))]
  /\ GoTo(c, [calls[c] EXCEPT !.at = "agents", !.todo = Tail(@)])
  /\ UNCHANGED <<use, said>>

GrantReadWeb(c) ==
  /\ calls[c].at = "grant"
  /\ db' = [db EXCEPT !.granted = TRUE]
  /\ GoTo(c, [calls[c] EXCEPT !.at = "findProfile"])
  /\ UNCHANGED <<use, said>>

FindProfile(c) ==
  /\ calls[c].at = "findProfile"
  /\ \/ db.profiles # <<>> /\ GoTo(c, [calls[c] EXCEPT !.at = "research"])
     \/ db.profiles = <<>> /\ \E profile \in Generations : GoTo(c, [calls[c] EXCEPT !.at = "profile", !.profile = profile])
  /\ UNCHANGED <<use, db, said>>

(* Mutation of MoreResearch: one round more once the target is reached.    *)
MoreResearch_Past(call) == call.rounds < MAX_RESEARCH_ITERATIONS /\ Cardinality(call.found) <= use.target

MoreResearch(call) == call.rounds < MAX_RESEARCH_ITERATIONS /\ Cardinality(call.found) < use.target

(* A round finds businesses no round found before, or it is the last.      *)
ResearchFinds(c) ==
  LET call == calls[c]
  IN  /\ call.at = "research" /\ MoreResearch(call)
      /\ \E orgs \in (SUBSET use.unfound) \ {{}} :
           /\ db' = [db EXCEPT !.prospects = @ \o [n \in 1 .. Cardinality(orgs) |-> NewProspect(Ext!SetToSeq(orgs)[n])]]
           /\ use' = [use EXCEPT !.unfound = @ \ orgs]
           /\ GoTo(c, [call EXCEPT !.found = @ \cup {Len(db.prospects) + n : n \in 1 .. Cardinality(orgs)}, !.rounds = @ + 1])
      /\ UNCHANGED said

ResearchEnds(c) ==
  LET call == calls[c]
  IN  /\ call.at = "research"
      /\ \/ (~MoreResearch(call) \/ use.unfound = {}) /\ UNCHANGED use
         \/ MoreResearch(call) /\ use.unfound # {} /\ Fault
      /\ GoTo(c, [call EXCEPT !.at = "qualify", !.left = call.found])
      /\ UNCHANGED <<db, said>>

(* The prospects of a run are taken up in any order. A run of the          *)
(* qualifier that fails leaves its prospect DISCOVERED.                    *)
QualifyProspect(c, p, verdict) ==
  LET call == calls[c]
  IN  /\ call.at = "qualify" /\ p \in call.left
      /\ IF db.prospects[p].status = "DISCOVERED" /\ verdict # "FAILED"
         THEN db' = [db EXCEPT !.prospects[p].status = verdict] ELSE UNCHANGED db
      /\ IF verdict = "FAILED" THEN Fault ELSE UNCHANGED use
      /\ GoTo(c, [call EXCEPT !.left = @ \ {p}])
      /\ UNCHANGED said

(* The prospects are read again, and the qualified ones drafted for.       *)
RefreshProspects(c) ==
  LET call == calls[c]
  IN  /\ call.at = "qualify" /\ call.left = {}
      /\ GoTo(c, [call EXCEPT !.at = "draft", !.left = {p \in call.found : db.prospects[p].status = "QUALIFIED"}])
      /\ UNCHANGED <<use, db, said>>

NextCandidate(call, p) == [call EXCEPT !.at = "draft", !.left = @ \ {p}, !.m = 0]

(* The drafter refuses, fails or drafts; the first two are only reported.  *)
DraftMessage(c, p) ==
  LET call == calls[c]
  IN  /\ call.at = "draft" /\ p \in call.left
      /\ \/ /\ db.experiment = "ACTIVE" /\ db.prospects[p].status = "QUALIFIED"
            /\ db' = [db EXCEPT !.messages = Append(@, [prospect |-> p, requests |-> 0]), !.prospects[p].status = "DRAFT_READY"]
            /\ GoTo(c, [call EXCEPT !.at = "request", !.m = Len(db.messages) + 1])
            /\ UNCHANGED use
         \/ /\ db.experiment # "ACTIVE" \/ db.prospects[p].status # "QUALIFIED"
            /\ GoTo(c, NextCandidate(call, p)) /\ UNCHANGED <<use, db>>
         \/ Fault /\ GoTo(c, NextCandidate(call, p)) /\ UNCHANGED db
      /\ UNCHANGED said

(* Mutation of RequestApproval: a request that fails is made once more.    *)
RequestApproval_Again(c) ==
  LET call == calls[c]
      p == db.messages[call.m].prospect
  IN  /\ call.at = "request"
      /\ \/ /\ db' = [db EXCEPT !.messages[call.m].requests = @ + 1, !.prospects[p].status = "AWAITING_HUMAN_APPROVAL"]
            /\ GoTo(c, NextCandidate(call, p)) /\ UNCHANGED use
         \/ Fault /\ db' = [db EXCEPT !.messages[call.m].requests = @ + 1] /\ UNCHANGED calls
      /\ UNCHANGED said

RequestApproval(c) ==
  LET call == calls[c]
      p == db.messages[call.m].prospect
  IN  /\ call.at = "request"
      /\ \/ /\ db' = [db EXCEPT !.messages[call.m].requests = @ + 1,
                                !.prospects[p].status = IF @ = "DRAFT_READY" THEN "AWAITING_HUMAN_APPROVAL" ELSE @]
            /\ GoTo(c, NextCandidate(call, p)) /\ UNCHANGED use
         \/ Fault /\ GoTo(c, NextCandidate(call, p)) /\ UNCHANGED db
      /\ UNCHANGED said

Report(c) ==
  /\ calls[c].at = "draft" /\ calls[c].left = {}
  /\ GoTo(c, [calls[c] EXCEPT !.at = "report"])
  /\ UNCHANGED <<use, db, said>>

ReportSent(c) == calls[c].at = "report" /\ Return(c) /\ UNCHANGED <<use, db, said>>

(* An agent that may not start, or whose answer is none, throws.           *)
AgentThrows(c) ==
  /\ \/ calls[c].at = "profile"
     \/ calls[c].at = "research" /\ MoreResearch(calls[c])
     \/ calls[c].at = "qualify" /\ calls[c].left # {}
  /\ Fault
  /\ Return(c)
  /\ UNCHANGED <<db, said>>

(* Meanwhile a human ends the experiment or asks to leave a prospect alone.*)
EndExperiment ==
  /\ May("end") /\ db.experiment = "ACTIVE"
  /\ db' = [db EXCEPT !.experiment = "STOPPED"]
  /\ UNCHANGED <<calls, said>>

MarkDoNotContact(p) ==
  /\ May("doNotContact")
  /\ db.prospects[p].status \notin {"REJECTED", "DO_NOT_CONTACT"}
  /\ db' = [db EXCEPT !.prospects[p].status = "DO_NOT_CONTACT"]
  /\ UNCHANGED <<calls, said>>

-----------------------------------------------------------------------------
(* customerDiscoveryMemoService: compiled, decided once by a human, and an *)
(* approval announced as the validation by customers.                      *)

CompileMemo ==
  /\ May("memo")
  /\ db' = [db EXCEPT !.memos = Append(@, NewMemo)]
  /\ UNCHANGED <<calls, said>>

DecideMemo(c, m, decision) ==
  /\ Begin("decide", c)
  /\ db.memos[m].decision = "none"
  /\ GoTo(c, [Idle EXCEPT !.at = "decide", !.m = m, !.decision = decision])
  /\ UNCHANGED <<db, said>>

(* Mutation of RecordHumanDecision: every decision is announced.           *)
RecordHumanDecision_Announced(c) ==
  /\ calls[c].at = "decide"
  /\ db' = [db EXCEPT !.memos[calls[c].m].decision = calls[c].decision]
  /\ GoTo(c, [calls[c] EXCEPT !.at = "announce"])
  /\ UNCHANGED <<use, said>>

RecordHumanDecision(c) ==
  LET call == calls[c]
  IN  /\ call.at = "decide"
      /\ db' = [db EXCEPT !.memos[call.m].decision = call.decision]
      /\ IF call.decision = "APPROVE" THEN GoTo(c, [call EXCEPT !.at = "announce"]) ELSE Return(c)
      /\ UNCHANGED <<use, said>>

AnnounceValidated(c) ==
  /\ calls[c].at = "announce"
  /\ db' = [db EXCEPT !.memos[calls[c].m].validated = TRUE]
  /\ Return(c)
  /\ UNCHANGED <<use, said>>

-----------------------------------------------------------------------------
Restart ==
  /\ use.crashes > 0
  /\ use' = [use EXCEPT !.crashes = @ - 1]
  /\ calls' = [c \in Calls |-> Idle]
  /\ UNCHANGED <<db, said>>

Step(c) ==
  \/ CollectEvidence(c) \/ AttachEvidence(c) \/ CreateCustomerEvidence(c) \/ MarkPromoted(c)
  \/ ListForInteraction(c) \/ Answer(c)
  \/ CreateProfile(c) \/ WireRead(c) \/ WireField(c) \/ WireEnd(c)
  \/ FindAgent(c) \/ CreateAgent(c) \/ GrantReadWeb(c) \/ FindProfile(c)
  \/ ResearchFinds(c) \/ ResearchEnds(c) \/ RefreshProspects(c)
  \/ \E p \in calls[c].left :
       DraftMessage(c, p) \/ \E verdict \in {"QUALIFIED", "REJECTED", "FAILED"} : QualifyProspect(c, p, verdict)
  \/ RequestApproval(c) \/ Report(c) \/ ReportSent(c) \/ AgentThrows(c)
  \/ RecordHumanDecision(c) \/ AnnounceValidated(c)

Request(c) ==
  \/ \E i \in DOMAIN db.interactions, what \in use.told :
       \E strength \in IF "strength" \in use.vary THEN {"known", "unknown"} ELSE {"known"} :
         AttachFinding(c, i, what.field, what.provenance, strength)
  \/ Evaluate(c) \/ RunIcpAnalyst(c) \/ RunExperiment(c)
  \/ \E m \in DOMAIN db.memos, decision \in CUSTOMER_DISCOVERY_HUMAN_DECISIONS : DecideMemo(c, m, decision)

CustomerDiscoveryNext ==
  \/ \E c \in Calls : Step(c) \/ Request(c)
  \/ \E p \in DOMAIN db.prospects :
       MarkDoNotContact(p) \/ \E reality \in {"REAL", "SIMULATED"} : Record(p, reality)
  \/ \E i \in DOMAIN db.interactions, outcome \in CUSTOMER_DISCOVERY_INTERACTION_OUTCOMES : SetOutcome(i, outcome)
  \/ \E k \in DOMAIN db.claims, status \in {"SUPPORTED", "CONTRADICTED"} : ValidateClaim(k, status)
  \/ CompileMemo \/ EndExperiment \/ Restart

-----------------------------------------------------------------------------
(* Properties.                                                             *)

DiscoveryTypeOK ==
  /\ \A f \in DOMAIN db.findings :
       db.findings[f].interaction \in DOMAIN db.interactions /\ db.findings[f].promoted \in {0} \cup DOMAIN db.evidence
  /\ \A i \in DOMAIN db.interactions :
       /\ db.interactions[i].prospect \in DOMAIN db.prospects
       /\ db.interactions[i].outcome \in {"none"} \cup CUSTOMER_DISCOVERY_INTERACTION_OUTCOMES
  /\ \A k \in DOMAIN db.claims : db.claims[k].profile \in DOMAIN db.profiles
  /\ \A m \in DOMAIN db.messages : db.messages[m].prospect \in DOMAIN db.prospects
  /\ \A m \in DOMAIN db.memos : db.memos[m].decision \in {"none"} \cup CUSTOMER_DISCOVERY_HUMAN_DECISIONS

(* Evidence taken from a talk was observed in it and says whether the talk *)
(* was real; and every finding that should be evidence is, or is about to  *)
(* be, unless a restart or a strength that is none came in between.        *)
EvidenceIsObserved ==
  LET promotable == {f \in DOMAIN db.findings : Promotable(db.findings[f].field, db.findings[f].provenance)}
  IN  /\ \A i \in DOMAIN db.interactions :
           LET taken == {e \in DOMAIN db.evidence : db.evidence[e].interaction = i}
           IN  /\ Cardinality(taken) <= Cardinality({f \in FindingsOf(i) : db.findings[f].provenance = "OBSERVED"})
               /\ \A e \in taken : db.evidence[e].reality = db.interactions[i].reality
      /\ \A f, g \in DOMAIN db.findings :
           db.findings[f].promoted # 0 /\ db.findings[f].promoted = db.findings[g].promoted => f = g
      /\ use.restarts = use.crashes /\ "strength" \notin use.vary =>
           \A f \in promotable :
             \/ \E c \in Calls : calls[c].f = f
             \/ \E e \in DOMAIN db.evidence :
                  /\ db.findings[f].promoted = e /\ db.evidence[e].attached
                  /\ db.evidence[e].interaction = db.findings[f].interaction
                  /\ db.evidence[e].signal = FINDING_FIELD_TO_SIGNAL_TYPE[db.findings[f].field]

(* What the ladder answers rests on what two different businesses said, as *)
(* a human recorded it, however calls race; of calls made one after the    *)
(* other, what two businesses say decides the answer.                      *)
ValidationIsBacked ==
  LET businesses(outcomes) == {org \in {db.prospects[p].org : p \in DOMAIN db.prospects} \ {"none"} :
                                 \E outcome \in outcomes : <<org, outcome>> \in said}
      now(outcomes) == Businesses(db.interactions, {i \in DOMAIN db.interactions : db.interactions[i].outcome \in outcomes})
      absent == {"PROBLEM_NOT_PRESENT", "ALREADY_SOLVED_ADEQUATELY"}
      confirmers(fields) == {i \in DOMAIN db.interactions :
                               Organization(i) \in businesses({"PROBLEM_CONFIRMED"}) /\ Observed(DOMAIN db.findings, i, fields)}
      answer(c) == evaluateCustomerValidation(Told(calls[c].seen, calls[c].read))
  IN  \A c \in {d \in Calls : calls[d].at = "answer"} :
        /\ answer(c) \in {"STRONG", "BUILD_CANDIDATE"} =>
             /\ \E x, y \in businesses({"PROBLEM_CONFIRMED"}) : x # y
             /\ confirmers({"FREQUENCY", "VOLUME", "TIME_COST"}) # {}
        /\ answer(c) = "BUILD_CANDIDATE" => confirmers({"WILLINGNESS_TO_PAY", "EXISTING_SPEND", "TIME_COST", "CONSEQUENCE"}) # {}
        /\ answer(c) = "REJECTED" => \E x, y \in businesses(absent) : x # y
        /\ use.load = 1 =>
             /\ answer(c) = "UNVALIDATED" => now({"PROBLEM_CONFIRMED"}) = {}
             /\ answer(c) # "REJECTED" => \A x, y \in now(absent) : x = y

(* A profile's testable fields are each a claim, wired to it or cited word *)
(* for word, unless a restart cut the wiring short; and profiles made one  *)
(* after the other from the claims there are do not claim the same again,  *)
(* unless it was contradicted.                                             *)
AssumptionsAreClaimedOnce ==
  LET wired(p, field) == {k \in DOMAIN db.claims : db.claims[k].profile = p /\ db.claims[k].field = field}
      wiring(p) == \E c \in Calls : calls[c].at \in {"wireRead", "wire"} /\ calls[c].i = p
  IN  /\ \A p \in DOMAIN db.profiles, field \in DOMAIN ICP_TESTABLE_FIELDS :
           LET stated == db.profiles[p][field]
           IN  /\ Cardinality(wired(p, field)) <= 1
               /\ use.restarts = use.crashes /\ ~wiring(p) =>
                    \E k \in wired(p, field) \cup stated.cites : db.claims[k].value = stated.value
      /\ use.load = 1 /\ "icp" \notin use.vary =>
           \A k, l \in DOMAIN db.claims :
             k < l /\ db.claims[k].type = db.claims[l].type /\ db.claims[k].value = db.claims[l].value => <<"claim", k>> \in said

(* An experiment's run asks a human once for each draft and drafts once    *)
(* for each prospect, whatever fails and whoever runs it again; it stops   *)
(* looking at its target; and if nothing failed and nobody ended it, every *)
(* prospect it found was put to a human, rejected, or is left alone.       *)
DiscoveryRunsStopAtTheHuman ==
  /\ \A m, n \in DOMAIN db.messages : db.messages[m].requests <= 1 /\ (db.messages[m].prospect = db.messages[n].prospect => m = n)
  /\ \A c \in Calls : calls[c].rounds <= use.target
  /\ \A c \in {d \in Calls : calls[d].at = "report"} :
       use.faults = use.mishaps /\ db.experiment = "ACTIVE" =>
         \A p \in calls[c].found :
           \/ db.prospects[p].status \in {"REJECTED", "DO_NOT_CONTACT"}
           \/ \E m \in DOMAIN db.messages : db.messages[m].prospect = p /\ db.messages[m].requests = 1
  /\ use.load = 1 => \A a, b \in DOMAIN db.agents : db.agents[a] = db.agents[b] => a = b

(* Of decisions made one after the other, customers are said to have       *)
(* validated just what was approved, unless a restart came in between.     *)
ApprovedMemosAreAnnounced ==
  use.load = 1 =>
    \A m \in DOMAIN db.memos :
      /\ db.memos[m].validated => db.memos[m].decision = "APPROVE"
      /\ db.memos[m].decision = "APPROVE" /\ use.restarts = use.crashes =>
           db.memos[m].validated \/ \E c \in Calls : calls[c].at = "announce" /\ calls[c].m = m
=============================================================================
