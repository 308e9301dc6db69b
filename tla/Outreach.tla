------------------------------ MODULE Outreach ------------------------------
(***************************************************************************)
(* Outreach, from a prospect that research finds to the analysed answer:   *)
(* the experiment a human opens, the qualification, the draft, the request *)
(* a human decides, the send through the provider, the record that the     *)
(* prospect was contacted, and the response.                               *)
(*                                                                         *)
(* A call is one request (or one event handler) on its way through its     *)
(* service. It gives way at every write and wherever a status is read in   *)
(* one statement and written in the next; the checks a service makes on    *)
(* its way to the first write are one step. A call that throws ends, and   *)
(* what it wrote stays. A restart ends every call and empties the memory   *)
(* of the provider and of the rate limiter.                                *)
(***************************************************************************)
EXTENDS Integers, Sequences, FiniteSets

CONSTANTS
  Calls,                     \* requests that may be in flight
  Experiments, Messages,     \* rows, 1 .. n
  MaxProspects, MaxApprovals, MaxResponses,   \* bounds: rows
  Sources, Channel,          \* source URLs, and the contact channel found at each
  MaxSendAttempts, SendsPerMinute,
  MaxMessagesPerExperiment, MaxMessagesPerDestination, MaxActiveExperiments,
  MaxExtractions,            \* bound: signals extracted from one response
  Uses                       \* the ways the component is used, one for each behaviour

ProspectStatus ==
  {"DISCOVERED", "QUALIFIED", "REJECTED", "APPROVED_FOR_DRAFT", "DRAFT_READY", "AWAITING_HUMAN_APPROVAL",
   "APPROVED_TO_CONTACT", "CONTACTED", "RESPONDED", "NO_RESPONSE", "DO_NOT_CONTACT", "COMPLETED"}

PROSPECT_STATUS_TRANSITIONS ==
  [s \in ProspectStatus |->
     CASE s = "DISCOVERED"              -> {"QUALIFIED", "REJECTED", "DO_NOT_CONTACT"}
       [] s = "QUALIFIED"               -> {"APPROVED_FOR_DRAFT", "REJECTED", "DO_NOT_CONTACT"}
       [] s = "APPROVED_FOR_DRAFT"      -> {"DRAFT_READY", "DO_NOT_CONTACT"}
       [] s = "DRAFT_READY"             -> {"AWAITING_HUMAN_APPROVAL", "DO_NOT_CONTACT"}
       [] s = "AWAITING_HUMAN_APPROVAL" -> {"APPROVED_TO_CONTACT", "REJECTED", "DO_NOT_CONTACT"}
       [] s = "APPROVED_TO_CONTACT"     -> {"CONTACTED", "DO_NOT_CONTACT"}
       [] s = "CONTACTED"               -> {"RESPONDED", "NO_RESPONSE", "DO_NOT_CONTACT"}
       [] s \in {"RESPONDED", "NO_RESPONSE"} -> {"COMPLETED", "DO_NOT_CONTACT"}
       [] OTHER                         -> {}]

OUTREACH_MESSAGE_STATUS_TRANSITIONS ==
  [s \in {"DRAFT", "AWAITING_HUMAN_APPROVAL", "APPROVED_TO_CONTACT", "REJECTED", "CONTACTED", "CANCELLED"} |->
     CASE s = "DRAFT"                   -> {"AWAITING_HUMAN_APPROVAL", "CANCELLED"}
       [] s = "AWAITING_HUMAN_APPROVAL" -> {"APPROVED_TO_CONTACT", "REJECTED", "CANCELLED"}
       [] s = "APPROVED_TO_CONTACT"     -> {"CONTACTED", "CANCELLED"}
       [] OTHER                         -> {}]

OUTREACH_EXPERIMENT_STATUS_TRANSITIONS ==
  [s \in {"PENDING_APPROVAL", "ACTIVE", "COMPLETED", "STOPPED", "CANCELLED"} |->
     CASE s = "PENDING_APPROVAL" -> {"ACTIVE", "CANCELLED"}
       [] s = "ACTIVE"           -> {"COMPLETED", "STOPPED", "CANCELLED"}
       [] OTHER                  -> {}]

VARIABLES
  use,      \* [ops, load, crashes, restarts, rows, auto, found]: what may be called, how many calls at a time, ...
  db,       \* the tables, see OutreachInit
  calls,    \* call -> where it is
  memory,   \* of the process: the provider's answers and the sends counted in the running minute
  sent      \* history: times each message really went out, and the approval it last went out under

vars == <<use, db, calls, memory, sent>>

(* A call: its place, the rows it is about, and the prospect statuses it   *)
(* still has to set. auto: it goes on in the handler of an event.          *)
Idle == [at |-> "idle", p |-> 0, x |-> 0, m |-> 0, a |-> 0, r |-> 0, to |-> "none", todo |-> <<>>, auto |-> FALSE]
May(op, c) ==
  /\ op \in use.ops /\ calls[c].at = "idle"
  /\ Cardinality({d \in Calls : calls[d].at # "idle"}) < use.load
GoTo(c, call) == calls' = [calls EXCEPT ![c] = call]
Return(c) == GoTo(c, Idle)
(* Go on to set statuses of prospect p, one after the other.               *)
ToProspect(call, p, statuses) == [call EXCEPT !.at = "prospect", !.p = p, !.todo = statuses]

(* The rows as they are created.                                           *)
NewProspect(source) == [status |-> "DISCOVERED", source |-> source]
NewOutreachMessage(x, p) == [status |-> "DRAFT", prospect |-> p, experiment |-> x, approval |-> 0, contacted |-> FALSE]
NewApproval(m) == [message |-> m, status |-> "PENDING", lapsed |-> FALSE]
NewCustomerResponse(m) == [message |-> m, status |-> "RECEIVED", evidence |-> 0]

(* What is assumed of the constants, and of the ways to use the component. *)
OutreachConstants ==
  /\ IsFiniteSet(Calls) /\ IsFiniteSet(Experiments) /\ IsFiniteSet(Messages)
  /\ Experiments \subseteq Nat \ {0} /\ Messages \subseteq Nat \ {0}
  /\ {MaxProspects, MaxApprovals, MaxResponses, MaxSendAttempts, SendsPerMinute, MaxMessagesPerExperiment,
      MaxMessagesPerDestination, MaxActiveExperiments, MaxExtractions} \subseteq Nat
  /\ Uses \subseteq [ops : SUBSET STRING, load : Nat \ {0}, crashes : Nat, restarts : Nat, rows : Nat, auto : BOOLEAN,
                     found : Seq([status : {"DISCOVERED", "QUALIFIED"}, source : Sources])]
  /\ \A u \in Uses :
       /\ u.crashes = u.restarts /\ 1 .. u.rows \subseteq Messages
       /\ \A p, q \in DOMAIN u.found : u.found[p].source = u.found[q].source => p = q

OutreachInit ==
  /\ use \in Uses
  /\ db = [prospects   |-> use.found,       \* sequence of [status, source]
           experiments |-> [x \in Experiments |-> IF use.found = <<>> THEN "none" ELSE "ACTIVE"],
           messages    |-> <<>>,            \* sequence of [status, prospect, experiment, approval, contacted]
           today       |-> {},              \* the messages created today
           approvals   |-> <<>>,            \* sequence of [message, status, lapsed]: the requests bound to a message
           deliveries  |-> [m \in Messages |-> <<>>],   \* the attempts stored for each message
           responses   |-> <<>>,            \* sequence of [message, status, evidence]
           halted      |-> FALSE]           \* an emergency stop is active or the company budget is exceeded
  /\ memory = [provider |-> [m \in Messages |-> "unknown"], window |-> 0]
  /\ calls = [c \in Calls |-> Idle]
  /\ sent = [times |-> [m \in Messages |-> 0], under |-> [m \in Messages |-> 0]]

-----------------------------------------------------------------------------
(* prospectService.setStatus, setQualification and markDoNotContact: the   *)
(* status is read and checked, and then written whatever it has become.    *)

SetStatusRead(c) ==
  /\ calls[c].at = "prospect"
  /\ IF Head(calls[c].todo) \in PROSPECT_STATUS_TRANSITIONS[db.prospects[calls[c].p].status]
     THEN GoTo(c, [calls[c] EXCEPT !.at = "prospectWrite"])
     ELSE Return(c)
  /\ UNCHANGED <<use, db, memory, sent>>

(* Then the next status; or, in a handler, the step that the event brings. *)
SetStatusWrite(c) ==
  LET call == calls[c]
      rest == Tail(call.todo)
  IN  /\ call.at = "prospectWrite"
      /\ db' = [db EXCEPT !.prospects[call.p].status = Head(call.todo)]
      /\ IF rest # <<>> THEN GoTo(c, ToProspect(call, call.p, rest))
         ELSE IF call.auto /\ Head(call.todo) = "APPROVED_TO_CONTACT" THEN GoTo(c, [call EXCEPT !.at = "send"])
         ELSE IF call.auto /\ Head(call.todo) = "RESPONDED" THEN GoTo(c, [call EXCEPT !.at = "analyze"])
         ELSE Return(c)
      /\ UNCHANGED <<use, memory, sent>>

(* The researcher and the import of an operator's own research look for    *)
(* the source among the rows of the opportunity before they create one.    *)
Known(s) == \E p \in DOMAIN db.prospects : db.prospects[p].source = s

(* A result of the search that the model kept and that has a source.       *)
Discover(c, s) ==
  /\ May("discover", c) /\ ~Known(s)
  /\ GoTo(c, [Idle EXCEPT !.at = "discover", !.to = s])
  /\ UNCHANGED <<use, db, memory, sent>>

(* Only what a human vouches for as real, from a source that is no fixture;*)
(* a known source is refused.                                              *)
Import(c, s) ==
  /\ May("import", c) /\ ~Known(s)
  /\ GoTo(c, [Idle EXCEPT !.at = "discover", !.to = s])
  /\ UNCHANGED <<use, db, memory, sent>>

DiscoverCreate(c) ==
  /\ calls[c].at = "discover"
  /\ Len(db.prospects) < MaxProspects
  /\ db' = [db EXCEPT !.prospects = Append(@, NewProspect(calls[c].to))]
  /\ Return(c)
  /\ UNCHANGED <<use, memory, sent>>

(* What the schema lets the model answer; the fixture gives each of them.  *)
QualificationAnswers == {"QUALIFIED", "REJECTED", "UNQUALIFIED"}

(* REJECTED and UNQUALIFIED answers are one status.                        *)
statusForQualification(answer) == IF answer = "QUALIFIED" THEN "QUALIFIED" ELSE "REJECTED"

(* The model is asked without looking at the prospect's status.            *)
Qualify(c, p, answer) ==
  /\ May("qualify", c)
  /\ GoTo(c, ToProspect(Idle, p, <<statusForQualification(answer)>>))
  /\ UNCHANGED <<use, db, memory, sent>>

MarkDoNotContact(c, p) ==
  /\ May("doNotContact", c)
  /\ GoTo(c, ToProspect(Idle, p, <<"DO_NOT_CONTACT">>))
  /\ UNCHANGED <<use, db, memory, sent>>

-----------------------------------------------------------------------------
(* outreachExperimentService.                                              *)

CreateExperiment(x) ==
  /\ "experiment" \in use.ops /\ db.experiments[x] = "none"
  /\ db' = [db EXCEPT !.experiments[x] = "PENDING_APPROVAL"]
  /\ UNCHANGED <<use, calls, memory, sent>>

(* A human opens the experiment, unless enough are open already.           *)
ApproveExperiment(c, x) ==
  /\ May("experiment", c)
  /\ db.experiments[x] # "none" /\ "ACTIVE" \in OUTREACH_EXPERIMENT_STATUS_TRANSITIONS[db.experiments[x]]
  /\ Cardinality({y \in Experiments : db.experiments[y] = "ACTIVE"}) < MaxActiveExperiments
  /\ GoTo(c, [Idle EXCEPT !.at = "experiment", !.x = x, !.to = "ACTIVE"])
  /\ UNCHANGED <<use, db, memory, sent>>

(* A human sets any status that may follow, ACTIVE too, and no limit is    *)
(* looked at.                                                              *)
SetExperimentStatus(c, x, to) ==
  /\ May("experiment", c)
  /\ db.experiments[x] # "none" /\ to \in OUTREACH_EXPERIMENT_STATUS_TRANSITIONS[db.experiments[x]]
  /\ GoTo(c, [Idle EXCEPT !.at = "experiment", !.x = x, !.to = to])
  /\ UNCHANGED <<use, db, memory, sent>>

ExperimentWrite(c) ==
  /\ calls[c].at = "experiment"
  /\ db' = [db EXCEPT !.experiments[calls[c].x] = calls[c].to]
  /\ Return(c)
  /\ UNCHANGED <<use, memory, sent>>

-----------------------------------------------------------------------------
(* messageDrafterService: checked before the model is asked, drafted after.*)

Draft(c, x, p) ==
  LET drafted == {m \in db.today : db.messages[m].experiment = x}
      channel(q) == Channel[db.prospects[q].source]
  IN  /\ May("draft", c)
      /\ db.experiments[x] = "ACTIVE" /\ db.prospects[p].status = "QUALIFIED"
      /\ Cardinality(drafted) < MaxMessagesPerExperiment
      /\ Cardinality({m \in drafted : channel(db.messages[m].prospect) = channel(p)}) < MaxMessagesPerDestination
      /\ GoTo(c, [Idle EXCEPT !.at = "draft", !.x = x, !.p = p])
      /\ UNCHANGED <<use, db, memory, sent>>

DraftCreate(c) ==
  /\ calls[c].at = "draft"
  /\ Len(db.messages) < use.rows
  /\ db' = [db EXCEPT !.messages = Append(@, NewOutreachMessage(calls[c].x, calls[c].p)),
                      !.today = @ \cup {Len(db.messages) + 1}]
  /\ GoTo(c, ToProspect(calls[c], calls[c].p, <<"APPROVED_FOR_DRAFT", "DRAFT_READY">>))
  /\ UNCHANGED <<use, memory, sent>>

(* The model's answer does not come or does not fit the schema, in a draft *)
(* or an analysis: the program throws before it has written anything.      *)
ModelFails(c) ==
  /\ calls[c].at \in {"draft", "analyze"}
  /\ Return(c)
  /\ UNCHANGED <<use, db, memory, sent>>

-----------------------------------------------------------------------------
(* messageApprovalService.                                                 *)

RequestApproval(c, m) ==
  /\ May("request", c)
  /\ db.messages[m].status = "DRAFT" /\ Len(db.approvals) < MaxApprovals
  /\ db' = [db EXCEPT !.approvals = Append(@, NewApproval(m))]
  /\ GoTo(c, [Idle EXCEPT !.at = "attach", !.m = m, !.a = Len(db.approvals) + 1])
  /\ UNCHANGED <<use, memory, sent>>

AttachApproval(c) ==
  LET m == calls[c].m
  IN  /\ calls[c].at = "attach"
      /\ db' = [db EXCEPT !.messages[m].status = "AWAITING_HUMAN_APPROVAL", !.messages[m].approval = calls[c].a]
      /\ GoTo(c, ToProspect(calls[c], db.messages[m].prospect, <<"AWAITING_HUMAN_APPROVAL">>))
      /\ UNCHANGED <<use, memory, sent>>

(* The human's verdict, final as the approval engine's ledger has it. The  *)
(* event it publishes is handled within the call when the autonomous       *)
(* operations are registered.                                              *)
Decide(c, a, verdict) ==
  /\ May("decide", c)
  /\ db.approvals[a].status = "PENDING"
  /\ db' = [db EXCEPT !.approvals[a].status = verdict]
  /\ IF use.auto THEN GoTo(c, [Idle EXCEPT !.at = "apply", !.a = a, !.auto = TRUE]) ELSE Return(c)
  /\ UNCHANGED <<use, memory, sent>>

ApplyDecision(c, a) ==
  /\ May("apply", c)
  /\ db.approvals[a].status \in {"APPROVED", "REJECTED"}
  /\ GoTo(c, [Idle EXCEPT !.at = "apply", !.a = a])
  /\ UNCHANGED <<use, db, memory, sent>>

(* A message that has its verdict is left as it is; the handler sends an   *)
(* approved one.                                                           *)
ApplyRead(c) ==
  LET call == calls[c]
      m == db.approvals[call.a].message
      to == IF db.approvals[call.a].status = "APPROVED" THEN "APPROVED_TO_CONTACT" ELSE "REJECTED"
      status == db.messages[m].status
  IN  /\ call.at = "apply"
      /\ IF status = "APPROVED_TO_CONTACT" /\ call.auto THEN GoTo(c, [call EXCEPT !.at = "send", !.m = m])
         ELSE IF to \in OUTREACH_MESSAGE_STATUS_TRANSITIONS[status] THEN GoTo(c, [call EXCEPT !.at = "applyWrite", !.m = m, !.to = to])
         ELSE Return(c)
      /\ UNCHANGED <<use, db, memory, sent>>

ApplyWrite(c) ==
  /\ calls[c].at = "applyWrite"
  /\ db' = [db EXCEPT !.messages[calls[c].m].status = calls[c].to]
  /\ GoTo(c, ToProspect(calls[c], db.messages[calls[c].m].prospect, <<calls[c].to>>))
  /\ UNCHANGED <<use, memory, sent>>

(* Mutation of BoundApproval: any request will do.                         *)
BoundApproval_Unverified(m) == db.messages[m].approval # 0

(* The request bound to the message is approved.                           *)
BoundApproval(m) ==
  LET a == db.messages[m].approval
  IN  a # 0 /\ db.approvals[a].status = "APPROVED" /\ db.approvals[a].message = m

MarkContacted(c, m) ==
  /\ May("contact", c)
  /\ GoTo(c, [Idle EXCEPT !.at = "contact", !.m = m])
  /\ UNCHANGED <<use, db, memory, sent>>

ContactRead(c) ==
  /\ calls[c].at = "contact"
  /\ IF db.messages[calls[c].m].status = "APPROVED_TO_CONTACT" /\ BoundApproval(calls[c].m)
     THEN GoTo(c, [calls[c] EXCEPT !.at = "contactWrite"])
     ELSE Return(c)
  /\ UNCHANGED <<use, db, memory, sent>>

ContactWrite(c) ==
  LET m == calls[c].m
  IN  /\ calls[c].at = "contactWrite"
      /\ db' = [db EXCEPT !.messages[m].status = "CONTACTED", !.messages[m].contacted = TRUE]
      /\ GoTo(c, ToProspect(calls[c], db.messages[m].prospect, <<"CONTACTED">>))
      /\ UNCHANGED <<use, memory, sent>>

-----------------------------------------------------------------------------
(* outboundMessageService.send.                                            *)

Send(c, m) ==
  /\ May("send", c)
  /\ GoTo(c, [Idle EXCEPT !.at = "send", !.m = m])
  /\ UNCHANGED <<use, db, memory, sent>>

(* The limiter counts a send of a fixed window of one minute.              *)
checkRateLimit == memory.window < SendsPerMinute

Sendable(m) ==
  /\ ~db.halted
  /\ \A i \in DOMAIN db.deliveries[m] : db.deliveries[m][i] # "SENT"
  /\ Len(db.deliveries[m]) < MaxSendAttempts
  /\ db.messages[m].status = "APPROVED_TO_CONTACT"
  /\ BoundApproval(m) /\ ~db.approvals[db.messages[m].approval].lapsed
  /\ checkRateLimit

(* Everything that is looked at before the provider is called.             *)
SendCheck(c) ==
  LET m == calls[c].m
  IN  /\ calls[c].at = "send"
      /\ IF Sendable(m)
         THEN /\ GoTo(c, [calls[c] EXCEPT !.at = "provider", !.a = db.messages[m].approval])
              /\ memory' = [memory EXCEPT !.window = @ + 1]
         ELSE Return(c) /\ UNCHANGED memory
      /\ UNCHANGED <<use, db, sent>>

(* Mutation of sendMessage: the idempotency key is not looked up.          *)
sendMessage_Again(key, outcome) == [status |-> outcome, transmits |-> outcome = "SENT"]

(* The provider answers a key it has seen as it did before.                *)
sendMessage(key, outcome) ==
  IF memory.provider[key] # "unknown" THEN [status |-> memory.provider[key], transmits |-> FALSE]
  ELSE [status |-> outcome, transmits |-> outcome = "SENT"]

SendProvider(c, outcome) ==
  LET m == calls[c].m
      result == sendMessage(m, outcome)
  IN  /\ calls[c].at = "provider"
      /\ memory' = [memory EXCEPT !.provider[m] = result.status]
      /\ sent' = IF result.transmits THEN [times |-> [sent.times EXCEPT ![m] = @ + 1], under |-> [sent.under EXCEPT ![m] = calls[c].a]]
                 ELSE sent
      /\ GoTo(c, [calls[c] EXCEPT !.at = "delivery", !.to = result.status])
      /\ UNCHANGED <<use, db>>

SendRecord(c) ==
  /\ calls[c].at = "delivery"
  /\ db' = [db EXCEPT !.deliveries[calls[c].m] = Append(@, calls[c].to)]
  /\ IF calls[c].to = "SENT" THEN GoTo(c, [calls[c] EXCEPT !.at = "contact"]) ELSE Return(c)
  /\ UNCHANGED <<use, memory, sent>>

-----------------------------------------------------------------------------
(* customerResponseService and responseAnalystService.                     *)

(* Mutation of RecordResponse: an approved message may have a response.    *)
RecordResponse_Early(c, m) ==
  /\ May("respond", c)
  /\ db.messages[m].status \in {"APPROVED_TO_CONTACT", "CONTACTED"}
  /\ GoTo(c, [Idle EXCEPT !.at = "respond", !.m = m])
  /\ UNCHANGED <<use, db, memory, sent>>

RecordResponse(c, m) ==
  /\ May("respond", c)
  /\ db.messages[m].status = "CONTACTED"
  /\ GoTo(c, [Idle EXCEPT !.at = "respond", !.m = m])
  /\ UNCHANGED <<use, db, memory, sent>>

RecordCreate(c) ==
  LET m == calls[c].m
  IN  /\ calls[c].at = "respond" /\ Len(db.responses) < MaxResponses
      /\ db' = [db EXCEPT !.responses = Append(@, NewCustomerResponse(m))]
      /\ GoTo(c, ToProspect([calls[c] EXCEPT !.r = Len(db.responses) + 1, !.auto = use.auto],
                            db.messages[m].prospect, <<"RESPONDED">>))
      /\ UNCHANGED <<use, memory, sent>>

Analyze(c, r) ==
  /\ May("analyze", c)
  /\ db.responses[r].status = "RECEIVED"
  /\ GoTo(c, [Idle EXCEPT !.at = "analyze", !.r = r])
  /\ UNCHANGED <<use, db, memory, sent>>

(* The signals the schema lets the model extract from a response.          *)
Extractions == 0 .. MaxExtractions

(* A wrapper for each signal, of this response and of no interaction.      *)
WithEvidence(responses, r, n) == [responses EXCEPT ![r].evidence = responses[r].evidence + n]

(* Each extraction becomes evidence of the opportunity and its wrapper     *)
(* before the response is marked.                                          *)
AnalyzeExtract(c, n) ==
  /\ calls[c].at = "analyze"
  /\ db' = [db EXCEPT !.responses = WithEvidence(@, calls[c].r, n)]
  /\ GoTo(c, [calls[c] EXCEPT !.at = "analyzed"])
  /\ UNCHANGED <<use, memory, sent>>

AnalyzeMark(c) ==
  /\ calls[c].at = "analyzed"
  /\ db' = [db EXCEPT !.responses[calls[c].r].status = "ANALYZED"]
  /\ Return(c)
  /\ UNCHANGED <<use, memory, sent>>

-----------------------------------------------------------------------------
(* Time, the environment and restarts.                                     *)

NewDay == db.today # {} /\ db' = [db EXCEPT !.today = {}] /\ UNCHANGED <<use, calls, memory, sent>>

NewMinute == memory.window > 0 /\ memory' = [memory EXCEPT !.window = 0] /\ UNCHANGED <<use, db, calls, sent>>

(* The text of a message cannot change: its approval goes stale by time.   *)
Lapse(a) ==
  /\ "lapse" \in use.ops /\ db.approvals[a].status = "APPROVED" /\ ~db.approvals[a].lapsed
  /\ db' = [db EXCEPT !.approvals[a].lapsed = TRUE]
  /\ UNCHANGED <<use, calls, memory, sent>>

Halt == "halt" \in use.ops /\ db' = [db EXCEPT !.halted = ~@] /\ UNCHANGED <<use, calls, memory, sent>>

Restart ==
  /\ use.crashes > 0
  /\ use' = [use EXCEPT !.crashes = @ - 1]
  /\ calls' = [c \in Calls |-> Idle]
  /\ memory' = [provider |-> [m \in Messages |-> "unknown"], window |-> 0]
  /\ UNCHANGED <<db, sent>>

SetStatusStep(c) == SetStatusRead(c) \/ SetStatusWrite(c)

DiscoveryStep(c) ==
  \/ \E s \in Sources : Discover(c, s) \/ Import(c, s)
  \/ DiscoverCreate(c)
  \/ \E p \in DOMAIN db.prospects, answer \in QualificationAnswers : Qualify(c, p, answer)
  \/ \E p \in DOMAIN db.prospects : MarkDoNotContact(c, p)

ExperimentStep(c) ==
  \/ \E x \in Experiments : ApproveExperiment(c, x)
  \/ \E x \in Experiments, to \in {"ACTIVE", "COMPLETED", "STOPPED", "CANCELLED"} : SetExperimentStatus(c, x, to)
  \/ ExperimentWrite(c)

MessageStep(c) ==
  \/ \E x \in Experiments, p \in DOMAIN db.prospects : Draft(c, x, p)
  \/ DraftCreate(c) \/ ModelFails(c)
  \/ \E m \in DOMAIN db.messages : RequestApproval(c, m) \/ MarkContacted(c, m)
  \/ AttachApproval(c)
  \/ \E a \in DOMAIN db.approvals, verdict \in {"APPROVED", "REJECTED"} : Decide(c, a, verdict)
  \/ \E a \in DOMAIN db.approvals : ApplyDecision(c, a)
  \/ ApplyRead(c) \/ ApplyWrite(c) \/ ContactRead(c) \/ ContactWrite(c)

SendStep(c) ==
  \/ \E m \in DOMAIN db.messages : Send(c, m)
  \/ SendCheck(c)
  \/ \E outcome \in {"SENT", "FAILED"} : SendProvider(c, outcome)
  \/ SendRecord(c)

ResponseStep(c) ==
  \/ \E m \in DOMAIN db.messages : RecordResponse(c, m)
  \/ RecordCreate(c)
  \/ \E r \in DOMAIN db.responses : Analyze(c, r)
  \/ \E n \in Extractions : AnalyzeExtract(c, n)
  \/ AnalyzeMark(c)

Step(c) ==
  SetStatusStep(c) \/ DiscoveryStep(c) \/ ExperimentStep(c) \/ MessageStep(c) \/ SendStep(c) \/ ResponseStep(c)

OutreachNext ==
  \/ \E c \in Calls : Step(c)
  \/ \E x \in Experiments : CreateExperiment(x)
  \/ \E a \in DOMAIN db.approvals : Lapse(a)
  \/ NewDay \/ NewMinute \/ Halt \/ Restart

-----------------------------------------------------------------------------
(* Properties.                                                             *)

OutreachTypeOK ==
  /\ Len(db.prospects) <= MaxProspects
  /\ \A p \in DOMAIN db.prospects : db.prospects[p].status \in ProspectStatus /\ db.prospects[p].source \in Sources
  /\ \A m \in DOMAIN db.messages :
       /\ db.messages[m].status \in DOMAIN OUTREACH_MESSAGE_STATUS_TRANSITIONS
       /\ db.messages[m].prospect \in DOMAIN db.prospects /\ db.messages[m].experiment \in Experiments
       /\ db.messages[m].approval \in {0} \cup DOMAIN db.approvals
  /\ \A c \in Calls : calls[c].at \in {"prospect", "prospectWrite"} =>
       calls[c].p \in DOMAIN db.prospects /\ calls[c].todo # <<>>

(* What really went out was sent under a request that was bound to that    *)
(* very message and that a human approved, however many requests for the   *)
(* message raced to be bound to it, and whichever of them was rejected.    *)
SentMessagesWereApproved ==
  \A m \in Messages : sent.times[m] > 0 =>
    LET a == sent.under[m] IN a # 0 /\ db.approvals[a].message = m /\ db.approvals[a].status = "APPROVED"

(* The record of a contact is built in one order: a prospect counts as     *)
(* contacted only if a message to it was, a message that went out was      *)
(* approved before it is recorded as contacted, a response belongs to a    *)
(* message that was contacted, and a prospect has responded only if there  *)
(* is a response of it.                                                    *)
ContactsAreBacked ==
  /\ \A p \in DOMAIN db.prospects :
       db.prospects[p].status \in {"CONTACTED", "RESPONDED"} =>
         \E m \in DOMAIN db.messages : db.messages[m].prospect = p /\ db.messages[m].contacted
  /\ \A p \in DOMAIN db.prospects :
       db.prospects[p].status = "RESPONDED" =>
         \E r \in DOMAIN db.responses : db.messages[db.responses[r].message].prospect = p
  /\ \A r \in DOMAIN db.responses : db.messages[db.responses[r].message].contacted
  /\ \A m \in DOMAIN db.messages : db.messages[m].contacted => \E a \in DOMAIN db.approvals :
       db.approvals[a].message = m /\ db.approvals[a].status = "APPROVED"

(* Retries and races: a message goes out at most once in each life of the  *)
(* provider, no more attempts are stored than the limit and the calls that *)
(* were past the check together, and calls made one after the other never  *)
(* store a second SENT or exceed the day's drafts.                         *)
SendsAreBounded ==
  /\ \A m \in Messages : sent.times[m] <= 1 + (use.restarts - use.crashes)
  /\ \A m \in Messages : Len(db.deliveries[m]) <= MaxSendAttempts + use.load - 1
  /\ use.load = 1 =>
       /\ \A m \in Messages : Cardinality({i \in DOMAIN db.deliveries[m] : db.deliveries[m][i] = "SENT"}) <= 1
       /\ \A x \in Experiments :
            Cardinality({m \in db.today : db.messages[m].experiment = x}) <= MaxMessagesPerExperiment
       /\ \A p, q \in DOMAIN db.prospects : db.prospects[p].source = db.prospects[q].source => p = q
=============================================================================
