------------------------------ MODULE Billing -------------------------------
(***************************************************************************)
(* Billing of one product: the pricing model an agent derives from claims, *)
(* the plan that wraps it, the request a human decides, the EXECUTE step   *)
(* that opens the account with the provider, and the provider's webhooks,  *)
(* which the network may lose, repeat, delay and reorder.                  *)
(*                                                                         *)
(* A call gives way at every write and wherever a status is read in one    *)
(* statement and written in the next. A call that throws ends, and what it *)
(* wrote stays; a restart ends every call and empties the dev provider.    *)
(***************************************************************************)
EXTENDS Integers, Sequences, FiniteSets

CONSTANTS
  Calls,                                                      \* requests that may be in flight
  MaxModels, MaxPlans, MaxAccounts, MaxEvents,  \* bounds: rows, and events of the provider
  Uses                                                        \* the ways the component is used, one for each behaviour

VARIABLES
  use,      \* [ops, load, crashes, restarts, rows, auto, claims]: what may be called, how many calls at a time, ...
  db,       \* the tables, see BillingInit
  calls,    \* call -> where it is
  memory,   \* the dev provider's prices
  events    \* what the provider has sent, never taken back: a message may arrive any number of times, in any order, or never

vars == <<use, db, calls, memory, events>>

PlanStatus     == {"DRAFT", "HUMAN_APPROVED", "ACTIVE", "SUSPENDED", "CANCELLED", "REJECTED"}
ApprovalStatus == {"PENDING", "APPROVED", "REJECTED"}

(* The rows of the tables, and the ways to use the component.              *)
Claim    == [type : STRING, status : STRING]
Model    == [price : Nat, grounds : SUBSET Nat]
Plan     == [status : PlanStatus, model : Nat, approval : Nat]
Approval == [plan : Nat, status : ApprovalStatus, lapsed : BOOLEAN]
Account  == [plan : Nat, approval : Nat, ref : Nat]
Delivery == [event : Nat, valid : BOOLEAN]
Use      == [ops : SUBSET STRING, load : Nat, crashes : Nat, restarts : Nat, rows : Nat, auto : BOOLEAN, claims : Seq(Claim)]

(* What is assumed of the constants: a behaviour that does not begin with  *)
(* the pricing begins with a model that has a claim to rest on.            *)
BillingConstants ==
  /\ IsFiniteSet(Calls)
  /\ \A u \in Uses : u \in Use /\ u.crashes = u.restarts /\ ("price" \notin u.ops => u.claims # <<>>)

BILLING_PLAN_STATUS_TRANSITIONS ==
  [s \in PlanStatus |->
     CASE s = "DRAFT"          -> {"HUMAN_APPROVED", "REJECTED"}
       [] s = "HUMAN_APPROVED" -> {"ACTIVE"}
       [] s = "ACTIVE"         -> {"SUSPENDED", "CANCELLED"}
       [] s = "SUSPENDED"      -> {"ACTIVE", "CANCELLED"}
       [] OTHER                -> {}]

Idle == [at |-> "idle", p |-> 0, a |-> 0, e |-> 0, ref |-> 0, to |-> "none", auto |-> FALSE]
May(op, c) ==
  /\ op \in use.ops /\ calls[c].at = "idle"
  /\ Cardinality({d \in Calls : calls[d].at # "idle"}) < use.load
GoTo(c, call) == calls' = [calls EXCEPT ![c] = call]
Return(c) == GoTo(c, Idle)

(* The rows as they are created.                                           *)
NewPricingModel(price, grounds) == [price |-> price, grounds |-> grounds]
NewBillingPlan(model) == [status |-> "DRAFT", model |-> model, approval |-> 0]
NewBillingAccount(p, a, ref) == [plan |-> p, approval |-> a, ref |-> ref]
NewWebhookDelivery(e, valid) == [event |-> e, valid |-> valid]

-----------------------------------------------------------------------------
(* pricingAgentService.run: the fixture, and any other answer of the model *)
(* that fits the schema. Claims the answer made up are dropped; an answer  *)
(* left without a real one is refused.                                     *)

DevPricingFixture(claims) ==
  LET willingness == {i \in DOMAIN claims : claims[i].type = "WILLINGNESS_TO_PAY"}
      first(S) == CHOOSE i \in S : \A j \in S : i <= j
      ground == IF willingness # {} THEN first(willingness) ELSE 1
  IN  [price  |-> IF ground \in willingness /\ claims[ground].status = "SUPPORTED" THEN 49 ELSE 19,
       grounds |-> {ground}]

PricingAnswers(claims) == {DevPricingFixture(claims)} \cup {[price |-> 99, grounds |-> G] : G \in {{1, Len(claims) + 1}, {Len(claims) + 1}}}

BillingInit ==
  /\ use \in Uses
  /\ db = [claims     |-> use.claims,    \* of the opportunity: sequence of [type, status]
           models     |-> IF "price" \in use.ops THEN <<>>
                          ELSE <<NewPricingModel(DevPricingFixture(use.claims).price, DevPricingFixture(use.claims).grounds)>>,
           plans      |-> <<>>,
           approvals  |-> <<>>,          \* sequence of [plan, status, lapsed]
           accounts   |-> <<>>,          \* approval: history, the request it was opened under
           deliveries |-> {},            \* unique by event
           revenue    |-> <<>>,          \* the event behind each REVENUE_USD metric
           halted     |-> FALSE]
  /\ calls = [c \in Calls |-> Idle]
  /\ memory = [last |-> 0, known |-> {}]   \* references are random in the code: the next number here
  /\ events = <<>>

(* Mutation of RunPricingAgent: the model's citations are taken on faith.  *)
RunPricingAgent_Trusting(answer) ==
  /\ "price" \in use.ops /\ db.claims # <<>> /\ Len(db.models) < MaxModels
  /\ db' = [db EXCEPT !.models = Append(@, NewPricingModel(answer.price, answer.grounds))]
  /\ UNCHANGED <<use, calls, memory, events>>

RunPricingAgent(answer) ==
  LET grounds == answer.grounds \cap DOMAIN db.claims
  IN  /\ "price" \in use.ops /\ db.claims # <<>> /\ Len(db.models) < MaxModels
      /\ grounds # {}
      /\ db' = [db EXCEPT !.models = Append(@, NewPricingModel(answer.price, grounds))]
      /\ UNCHANGED <<use, calls, memory, events>>

-----------------------------------------------------------------------------
(* billingPlanService.                                                     *)

CreatePlan(model) ==
  /\ "plan" \in use.ops /\ Len(db.plans) < MaxPlans
  /\ db' = [db EXCEPT !.plans = Append(@, NewBillingPlan(model))]
  /\ UNCHANGED <<use, calls, memory, events>>

RequestApproval(c, p) ==
  /\ May("request", c)
  /\ db.plans[p].status = "DRAFT" /\ Len(db.approvals) < use.rows
  /\ db' = [db EXCEPT !.approvals = Append(@, [plan |-> p, status |-> "PENDING", lapsed |-> FALSE])]
  /\ GoTo(c, [Idle EXCEPT !.at = "attach", !.p = p, !.a = Len(db.approvals) + 1])
  /\ UNCHANGED <<use, memory, events>>

AttachApproval(c) ==
  /\ calls[c].at = "attach"
  /\ db' = [db EXCEPT !.plans[calls[c].p].approval = calls[c].a]
  /\ Return(c)
  /\ UNCHANGED <<use, memory, events>>

(* The human's verdict; the orchestrator, if it is registered, goes on in  *)
(* the same call.                                                          *)
Decide(c, a, verdict) ==
  /\ May("decide", c)
  /\ db.approvals[a].status = "PENDING"
  /\ db' = [db EXCEPT !.approvals[a].status = verdict]
  /\ IF use.auto THEN GoTo(c, [Idle EXCEPT !.at = "apply", !.a = a, !.auto = TRUE]) ELSE Return(c)
  /\ UNCHANGED <<use, memory, events>>

ApplyDecision(c, a) ==
  /\ May("apply", c)
  /\ db.approvals[a].status \in {"APPROVED", "REJECTED"}
  /\ GoTo(c, [Idle EXCEPT !.at = "apply", !.a = a])
  /\ UNCHANGED <<use, db, memory, events>>

(* A plan that has its verdict is left as it is; the handler activates an  *)
(* approved one, whichever request it was called for.                      *)
ApplyRead(c) ==
  LET call == calls[c]
      p == db.approvals[call.a].plan
      to == IF db.approvals[call.a].status = "APPROVED" THEN "HUMAN_APPROVED" ELSE "REJECTED"
      applied == db.plans[p].status \in {"HUMAN_APPROVED", "REJECTED", "ACTIVE"}
  IN  /\ call.at = "apply"
      /\ IF ~applied /\ to \in BILLING_PLAN_STATUS_TRANSITIONS[db.plans[p].status]
         THEN GoTo(c, [call EXCEPT !.at = "planWrite", !.p = p, !.to = to])
         ELSE IF db.plans[p].status = "HUMAN_APPROVED" /\ call.auto THEN GoTo(c, [call EXCEPT !.at = "activate", !.p = p])
         ELSE Return(c)
      /\ UNCHANGED <<use, db, memory, events>>

PlanWrite(c) ==
  LET call == calls[c]
  IN  /\ call.at = "planWrite"
      /\ db' = [db EXCEPT !.plans[call.p].status = call.to]
      /\ IF call.auto /\ call.to = "HUMAN_APPROVED" THEN GoTo(c, [call EXCEPT !.at = "activate"]) ELSE Return(c)
      /\ UNCHANGED <<use, memory, events>>

-----------------------------------------------------------------------------
(* billingActivationService.activate: the EXECUTE step.                    *)

Activate(c, p) ==
  /\ May("activate", c)
  /\ GoTo(c, [Idle EXCEPT !.at = "activate", !.p = p])
  /\ UNCHANGED <<use, db, memory, events>>

(* The request bound to the plan is its own, approved, and still fresh: a  *)
(* plan has no operation that edits what its hash covers, so a request     *)
(* goes stale only by its time.                                            *)
Executable(p) ==
  LET a == db.plans[p].approval
  IN  /\ ~db.halted
      /\ db.plans[p].status = "HUMAN_APPROVED"
      /\ a # 0 /\ db.approvals[a].status = "APPROVED" /\ db.approvals[a].plan = p /\ ~db.approvals[a].lapsed

ActivateCheck(c) ==
  /\ calls[c].at = "activate"
  /\ IF Executable(calls[c].p)
     THEN GoTo(c, [calls[c] EXCEPT !.at = "price", !.a = db.plans[calls[c].p].approval])
     ELSE Return(c)
  /\ UNCHANGED <<use, db, memory, events>>

(* createProduct and createPrice of the primary tier.                      *)
ActivatePrice(c) ==
  /\ calls[c].at = "price" /\ memory.last < MaxAccounts
  /\ memory' = [last |-> memory.last + 1, known |-> memory.known \cup {memory.last + 1}]
  /\ GoTo(c, [calls[c] EXCEPT !.at = "account", !.ref = memory.last + 1])
  /\ UNCHANGED <<use, db, events>>

ActivateAccount(c) ==
  LET call == calls[c]
  IN  /\ call.at = "account" /\ Len(db.accounts) < MaxAccounts
      /\ db' = [db EXCEPT !.accounts = Append(@, NewBillingAccount(call.p, call.a, call.ref))]
      /\ GoTo(c, [call EXCEPT !.at = "active"])
      /\ UNCHANGED <<use, memory, events>>

ActivateRead(c) ==
  /\ calls[c].at = "active"
  /\ IF "ACTIVE" \in BILLING_PLAN_STATUS_TRANSITIONS[db.plans[calls[c].p].status]
     THEN GoTo(c, [calls[c] EXCEPT !.at = "planWrite", !.to = "ACTIVE"])
     ELSE Return(c)
  /\ UNCHANGED <<use, db, memory, events>>

-----------------------------------------------------------------------------
(* The provider's side: a subscription at a price it knows, and an event   *)
(* of another kind. The sender repeats a message that was not answered.    *)

RecordSubscriptionFixture(account) ==
  /\ "events" \in use.ops /\ Len(events) < MaxEvents
  /\ db.accounts[account].ref \in memory.known
  /\ events' = Append(events, [account |-> account, type |-> "subscription.created"])
  /\ UNCHANGED <<use, db, calls, memory>>

OtherEvent(account) ==
  /\ "events" \in use.ops /\ Len(events) < MaxEvents
  /\ events' = Append(events, [account |-> account, type |-> "other"])
  /\ UNCHANGED <<use, db, calls, memory>>

Seen(e) == \E d \in db.deliveries : d.event = e

(* A delivery id that was seen is refused before its signature is looked   *)
(* at.                                                                     *)
Webhook(c, e) ==
  /\ calls[c].at = "idle" /\ Cardinality({d \in Calls : calls[d].at # "idle"}) < use.load
  /\ ~Seen(e)
  /\ GoTo(c, [Idle EXCEPT !.at = "delivery", !.e = e])
  /\ UNCHANGED <<use, db, memory, events>>

(* A message is valid within the replay window of its timestamp; one that  *)
(* the network held longer is not.                                         *)
verifyWebhookSignature(late) == ~late

(* Mutation of DeliveryCreate: the table does not know that a delivery is  *)
(* one of a kind.                                                          *)
DeliveryCreate_NotUnique(c, late) ==
  LET e == calls[c].e
  IN  /\ calls[c].at = "delivery"
      /\ db' = [db EXCEPT !.deliveries = @ \cup {NewWebhookDelivery(e, verifyWebhookSignature(late))}]
      /\ IF verifyWebhookSignature(late) /\ events[e].type = "subscription.created"
         THEN GoTo(c, [calls[c] EXCEPT !.at = "metric"]) ELSE Return(c)
      /\ UNCHANGED <<use, memory, events>>

(* The delivery is stored with its verdict, unless the unique index says   *)
(* that a racing call was first; what did not verify ends here.            *)
DeliveryCreate(c, late) ==
  LET e == calls[c].e
      valid == verifyWebhookSignature(late)
  IN  /\ calls[c].at = "delivery"
      /\ IF Seen(e) THEN Return(c) /\ UNCHANGED db
         ELSE /\ db' = [db EXCEPT !.deliveries = @ \cup {NewWebhookDelivery(e, valid)}]
              /\ IF valid /\ events[e].type = "subscription.created"
                 THEN GoTo(c, [calls[c] EXCEPT !.at = "metric"]) ELSE Return(c)
      /\ UNCHANGED <<use, memory, events>>

MetricCreate(c) ==
  /\ calls[c].at = "metric"
  /\ db' = [db EXCEPT !.revenue = Append(@, calls[c].e)]
  /\ Return(c)
  /\ UNCHANGED <<use, memory, events>>

-----------------------------------------------------------------------------
Lapse(a) ==
  /\ "lapse" \in use.ops /\ db.approvals[a].status = "APPROVED" /\ ~db.approvals[a].lapsed
  /\ db' = [db EXCEPT !.approvals[a].lapsed = TRUE]
  /\ UNCHANGED <<use, calls, memory, events>>

Halt == "halt" \in use.ops /\ db' = [db EXCEPT !.halted = ~@] /\ UNCHANGED <<use, calls, memory, events>>

Restart ==
  /\ use.crashes > 0
  /\ use' = [use EXCEPT !.crashes = @ - 1]
  /\ calls' = [c \in Calls |-> Idle]
  /\ memory' = [memory EXCEPT !.known = {}]
  /\ UNCHANGED <<db, events>>

PlanStep(c) ==
  \/ \E p \in DOMAIN db.plans : RequestApproval(c, p)
  \/ AttachApproval(c)
  \/ \E a \in DOMAIN db.approvals, verdict \in {"APPROVED", "REJECTED"} : Decide(c, a, verdict)
  \/ \E a \in DOMAIN db.approvals : ApplyDecision(c, a)
  \/ ApplyRead(c) \/ PlanWrite(c)

ActivationStep(c) ==
  \/ \E p \in DOMAIN db.plans : Activate(c, p)
  \/ ActivateCheck(c) \/ ActivatePrice(c) \/ ActivateAccount(c) \/ ActivateRead(c)

WebhookStep(c) ==
  \/ \E e \in DOMAIN events : Webhook(c, e)
  \/ \E late \in BOOLEAN : DeliveryCreate(c, late)
  \/ MetricCreate(c)

BillingNext ==
  \/ \E answer \in PricingAnswers(db.claims) : RunPricingAgent(answer)
  \/ \E model \in DOMAIN db.models : CreatePlan(model)
  \/ \E account \in DOMAIN db.accounts : RecordSubscriptionFixture(account) \/ OtherEvent(account)
  \/ \E a \in DOMAIN db.approvals : Lapse(a)
  \/ Halt \/ Restart
  \/ \E c \in Calls : PlanStep(c) \/ ActivationStep(c) \/ WebhookStep(c)

BillingSpec == BillingInit /\ [][BillingNext]_vars

-----------------------------------------------------------------------------
(* Properties.                                                             *)

BillingTypeOK ==
  /\ \A p \in DOMAIN db.plans :
       /\ db.plans[p].status \in DOMAIN BILLING_PLAN_STATUS_TRANSITIONS
       /\ db.plans[p].model \in DOMAIN db.models /\ db.plans[p].approval \in {0} \cup DOMAIN db.approvals
  /\ \A a \in DOMAIN db.approvals :
       db.approvals[a].plan \in DOMAIN db.plans /\ db.approvals[a].status \in ApprovalStatus
  /\ db.deliveries \subseteq [event : DOMAIN events, valid : BOOLEAN]

(* An account charges what a human agreed to: it was opened under a        *)
(* request bound to its own plan that a human approved, at a price whose   *)
(* every ground is a claim the opportunity has; a plan is ACTIVE only if   *)
(* it has an account; and calls made one after the other, in a process     *)
(* that is not restarted, open one account for each plan.                  *)
AccountsAreBacked ==
  /\ \A i \in DOMAIN db.accounts :
       LET account == db.accounts[i]
       IN  /\ account.approval # 0
           /\ db.approvals[account.approval].plan = account.plan
           /\ db.approvals[account.approval].status = "APPROVED"
           /\ db.models[db.plans[account.plan].model].grounds \subseteq DOMAIN db.claims
  /\ \A p \in DOMAIN db.plans : db.plans[p].status = "ACTIVE" => \E i \in DOMAIN db.accounts : db.accounts[i].plan = p
  /\ use.load = 1 /\ use.restarts = 0 =>
       \A i, j \in DOMAIN db.accounts : db.accounts[i].plan = db.accounts[j].plan => i = j

(* Revenue is counted once for each event however often and in whatever    *)
(* order its message arrives, only for a subscription of an account, and   *)
(* only if the message verified; and an accepted subscription is missing   *)
(* from the revenue only while its call is on the way, or after a restart. *)
EventsCountOnce ==
  /\ \A i, j \in DOMAIN db.revenue : db.revenue[i] = db.revenue[j] => i = j
  /\ \A i \in DOMAIN db.revenue :
       /\ events[db.revenue[i]].type = "subscription.created" /\ events[db.revenue[i]].account \in DOMAIN db.accounts
       /\ [event |-> db.revenue[i], valid |-> TRUE] \in db.deliveries
  /\ use.restarts = use.crashes =>
       \A d \in db.deliveries : d.valid /\ events[d.event].type = "subscription.created" =>
         \/ \E i \in DOMAIN db.revenue : db.revenue[i] = d.event
         \/ \E c \in Calls : calls[c].at = "metric" /\ calls[c].e = d.event

(* Both together: what a customer is charged for, and what is counted.     *)
AccountsAndRevenueAreBacked == AccountsAreBacked /\ EventsCountOnce
=============================================================================
