---------------------------- MODULE BillingProofs ----------------------------
(***************************************************************************)
(* What holds of pricing, plans, accounts and revenue, for any number of   *)
(* requests and messages in flight, of plans, accounts and events, and     *)
(* whatever the network does to the provider's messages.                   *)
(***************************************************************************)
EXTENDS Billing, FiniteSetTheorems, SequenceTheorems, WellFoundedInduction, TLAPS

-----------------------------------------------------------------------------
(* The inductive invariant.                                                *)

Places  == {"idle", "attach", "apply", "planWrite", "activate", "price", "account", "active", "delivery", "metric"}
Call    == [at : Places, p : Nat, a : Nat, e : Nat, ref : Nat, to : PlanStatus \cup {"none"}, auto : BOOLEAN]
Event   == [account : Nat, type : {"subscription.created", "other"}]
Memory  == [last : Nat, known : SUBSET Nat]
DB      == [claims : Seq(Claim), models : Seq(Model), plans : Seq(Plan), approvals : Seq(Approval),
            accounts : Seq(Account), deliveries : SUBSET Delivery, revenue : Seq(Nat), halted : BOOLEAN]

Types ==
  /\ use \in Use /\ use.crashes <= use.restarts
  /\ db \in DB
  /\ calls \in [Calls -> Call]
  /\ memory \in Memory
  /\ events \in Seq(Event)

OneInFlight == use.load = 1 => \A c, d \in Calls : calls[c].at # "idle" /\ calls[d].at # "idle" => c = d

(* Request a is bound to plan p and a human approved it.                   *)
Granted(a, p) == a \in DOMAIN db.approvals /\ db.approvals[a].plan = p /\ db.approvals[a].status = "APPROVED"
HasAccount(p) == \E i \in DOMAIN db.accounts : db.accounts[i].plan = p

(* The account of the call's plan is there and the plan not yet ACTIVE.    *)
Opening(call) == call.at = "active" \/ (call.at = "planWrite" /\ call.to = "ACTIVE")

PlanCallOK(call) ==
  /\ call.at = "attach" => call.p \in DOMAIN db.plans /\ call.a \in DOMAIN db.approvals
  /\ call.at = "apply" => call.a \in DOMAIN db.approvals
  /\ call.at \in {"planWrite", "activate", "price", "account", "active"} => call.p \in DOMAIN db.plans
  /\ call.at = "planWrite" => call.to \in {"HUMAN_APPROVED", "REJECTED", "ACTIVE"}
  /\ call.at \in {"price", "account"} => Granted(call.a, call.p)
  /\ Opening(call) => HasAccount(call.p)

ModelsOK == \A m \in DOMAIN db.models : db.models[m].grounds \subseteq DOMAIN db.claims
PlansOK ==
  \A p \in DOMAIN db.plans :
    /\ db.plans[p].model \in DOMAIN db.models /\ db.plans[p].approval \in {0} \cup DOMAIN db.approvals
    /\ db.plans[p].status = "ACTIVE" => HasAccount(p)
ApprovalsOK == \A a \in DOMAIN db.approvals : db.approvals[a].plan \in DOMAIN db.plans
AccountsOK ==
  \A i \in DOMAIN db.accounts :
    db.accounts[i].plan \in DOMAIN db.plans /\ Granted(db.accounts[i].approval, db.accounts[i].plan)

Planning ==
  /\ ModelsOK /\ PlansOK /\ ApprovalsOK /\ AccountsOK
  /\ \A c \in Calls : PlanCallOK(calls[c])

(* A call that has the process to itself opens the only account of a plan. *)
AloneCallOK(call) ==
  /\ call.at \in {"price", "account"} => db.plans[call.p].status = "HUMAN_APPROVED" /\ ~HasAccount(call.p)
  /\ Opening(call) => db.plans[call.p].status = "HUMAN_APPROVED"
  /\ call.at = "planWrite" /\ call.to # "ACTIVE" => db.plans[call.p].status = "DRAFT"

Alone ==
  use.load = 1 /\ use.restarts = 0 =>
    /\ \A i, j \in DOMAIN db.accounts : db.accounts[i].plan = db.accounts[j].plan => i = j
    /\ \A i \in DOMAIN db.accounts :
         \/ db.plans[db.accounts[i].plan].status = "ACTIVE"
         \/ \E c \in Calls : Opening(calls[c]) /\ calls[c].p = db.accounts[i].plan
    /\ \A c \in Calls : AloneCallOK(calls[c])

(* The message of event e was accepted; its revenue has been counted.      *)
Accepted(e) ==
  e \in DOMAIN events /\ events[e].type = "subscription.created" /\ [event |-> e, valid |-> TRUE] \in db.deliveries
Counted(e) == \E i \in DOMAIN db.revenue : db.revenue[i] = e
Counting(c, e) == calls[c].at = "metric" /\ calls[c].e = e

WebhookCallOK(call) ==
  /\ call.at = "delivery" => call.e \in DOMAIN events
  /\ call.at = "metric" => Accepted(call.e) /\ ~Counted(call.e)

EventsOK     == \A e \in DOMAIN events : events[e].account \in DOMAIN db.accounts
DeliveriesOK == \A d \in db.deliveries : d.event \in DOMAIN events
RevenueOK    ==
  /\ \A i \in DOMAIN db.revenue : Accepted(db.revenue[i])
  /\ \A i, j \in DOMAIN db.revenue : db.revenue[i] = db.revenue[j] => i = j
CountedOnce  == \A c, d \in Calls, e \in DOMAIN events : Counting(c, e) /\ Counting(d, e) => c = d
NoneMissing  ==
  use.restarts = use.crashes =>
    \A d \in db.deliveries : d.valid /\ events[d.event].type = "subscription.created" =>
      Counted(d.event) \/ \E c \in Calls : Counting(c, d.event)

Webhooks ==
  /\ EventsOK /\ DeliveriesOK /\ RevenueOK /\ CountedOnce /\ NoneMissing
  /\ \A c \in Calls : WebhookCallOK(calls[c])

IInv == Types /\ OneInFlight /\ Planning /\ Alone /\ Webhooks

-----------------------------------------------------------------------------
(* What a step leaves behind, one part of the invariant at a time.         *)

LEMMA IdleFacts ==
  /\ Idle \in Call /\ Idle.at = "idle" /\ ~Opening(Idle)
  /\ PlanCallOK(Idle) /\ PlanCallOK(Idle)'
BY DEF Idle, Call, Places, Opening, PlanCallOK

LEMMA MayFacts ==
  ASSUME IsFiniteSet(Calls), Types, NEW c \in Calls, calls[c].at = "idle",
         Cardinality({d \in Calls : calls[d].at # "idle"}) < use.load
  PROVE  use.load = 1 => \A d \in Calls : calls[d].at = "idle"
<1> DEFINE busy == {d \in Calls : calls[d].at # "idle"}
<1>1. IsFiniteSet(busy)
  BY FS_Subset
<1>2. Cardinality(busy) \in Nat
  BY <1>1, FS_CardinalityType
<1>3. Cardinality(busy) = 0 => busy = {}
  BY <1>1, FS_EmptySet
<1> QED BY <1>2, <1>3

(* A call goes to another place, alone if calls come one at a time.        *)
Moves(c, call) ==
  /\ GoTo(c, call) /\ call \in Call
  /\ calls[c].at # "idle" \/ (use.load = 1 => \A d \in Calls : calls[d].at = "idle")

LEMMA MovesFacts ==
  ASSUME Types, OneInFlight, NEW c \in Calls, NEW call, Moves(c, call), UNCHANGED use
  PROVE  /\ calls' \in [Calls -> Call] /\ calls'[c] = call
         /\ \A d \in Calls \ {c} : calls'[d] = calls[d] /\ (use.load = 1 => calls[d].at = "idle")
         /\ OneInFlight'
<1>1. calls' \in [Calls -> Call] /\ calls'[c] = call /\ \A d \in Calls \ {c} : calls'[d] = calls[d]
  BY DEF Moves, GoTo, Types
<1>2. use.load = 1 => \A d \in Calls \ {c} : calls[d].at = "idle"
  BY DEF Moves, OneInFlight
<1> QED BY <1>1, <1>2 DEF OneInFlight

(* The tables of plans only grow, and what was granted stays so.           *)
Grown ==
  /\ DOMAIN db.claims \subseteq DOMAIN db'.claims
  /\ DOMAIN db.models \subseteq DOMAIN db'.models
  /\ DOMAIN db.plans \subseteq DOMAIN db'.plans
  /\ DOMAIN db.approvals \subseteq DOMAIN db'.approvals
  /\ \A a \in DOMAIN db.approvals :
       /\ db'.approvals[a].plan = db.approvals[a].plan
       /\ db.approvals[a].status = "APPROVED" => db'.approvals[a].status = "APPROVED"
  /\ DOMAIN db.accounts \subseteq DOMAIN db'.accounts
  /\ \A i \in DOMAIN db.accounts : db'.accounts[i] = db.accounts[i]

LEMMA GrownFacts ==
  ASSUME Grown
  PROVE  /\ \A a, p : Granted(a, p) => Granted(a, p)'
         /\ \A p : HasAccount(p) => HasAccount(p)'
BY DEF Grown, Granted, HasAccount

(* The calls in moved moved.                                               *)
LEMMA PlanCalls ==
  ASSUME Planning, Grown, NEW moved, \A d \in Calls \ moved : calls'[d] = calls[d],
         \A d \in Calls \cap moved : PlanCallOK(calls[d])'
  PROVE  (\A d \in Calls : PlanCallOK(calls[d]))'
<1> SUFFICES ASSUME NEW d \in Calls \ moved PROVE PlanCallOK(calls[d])'
  OBVIOUS
<1>1. PICK call : call = calls[d]
  OBVIOUS
<1>2. PlanCallOK(call)
  BY <1>1 DEF Planning
<1>3. PlanCallOK(call)'
  BY <1>2, GrownFacts DEF PlanCallOK, Grown, Opening
<1>4. calls'[d] = call
  BY <1>1
<1> QED BY <1>3, <1>4 DEF PlanCallOK, Opening, Granted, HasAccount

(* Statuses of plans and accounts stay as they are; no call stops opening. *)
LEMMA AloneFrame ==
  ASSUME Planning, Alone, UNCHANGED use, NEW moved,
         \A d \in Calls \ moved : calls'[d] = calls[d],
         \A d \in Calls \cap moved : AloneCallOK(calls[d])',
         \A d \in Calls \cap moved : Opening(calls[d]) => Opening(calls'[d]) /\ calls'[d].p = calls[d].p,
         DOMAIN db.plans \subseteq DOMAIN db'.plans,
         \A p \in DOMAIN db.plans : db'.plans[p].status = db.plans[p].status,
         db'.accounts = db.accounts
  PROVE  Alone'
<1> SUFFICES ASSUME use.load = 1 /\ use.restarts = 0 PROVE Alone'
  BY DEF Alone
<1>1. \A d \in Calls : Opening(calls[d]) => Opening(calls'[d]) /\ calls'[d].p = calls[d].p
  OBVIOUS
<1>2. \A i \in DOMAIN db.accounts : db.accounts[i].plan \in DOMAIN db.plans
  BY DEF Planning, AccountsOK
<1>3. ASSUME NEW d \in Calls \ moved PROVE AloneCallOK(calls[d])'
  <2>1. PICK call : call = calls[d]
    OBVIOUS
  <2>2. AloneCallOK(call) /\ PlanCallOK(call)
    BY <2>1 DEF Alone, Planning
  <2>3. AloneCallOK(call)'
    BY <2>2 DEF AloneCallOK, PlanCallOK, HasAccount, Opening
  <2>4. calls'[d] = call
    BY <2>1
  <2> QED BY <2>3, <2>4 DEF AloneCallOK, HasAccount, Opening
<1>4. (\A i \in DOMAIN db.accounts :
         \/ db.plans[db.accounts[i].plan].status = "ACTIVE"
         \/ \E c \in Calls : Opening(calls[c]) /\ calls[c].p = db.accounts[i].plan)'
  BY <1>1, <1>2 DEF Alone, Opening
<1> QED BY <1>3, <1>4 DEF Alone

(* Nothing is delivered or counted; accounts and events may be added.      *)
LEMMA WebhooksFrame ==
  ASSUME Webhooks, NEW moved, UNCHANGED use,
         \A d \in Calls \ moved : calls'[d] = calls[d],
         \A d \in Calls \cap moved : calls[d].at # "metric" /\ calls'[d].at # "metric" /\ WebhookCallOK(calls[d])',
         db'.deliveries = db.deliveries, db'.revenue = db.revenue,
         DOMAIN db.accounts \subseteq DOMAIN db'.accounts,
         DOMAIN events \subseteq DOMAIN events', \A e \in DOMAIN events : events'[e] = events[e],
         \A e \in DOMAIN events' \ DOMAIN events : events'[e].account \in DOMAIN db'.accounts
  PROVE  Webhooks'
<1>1. \A e : Accepted(e) => Accepted(e)'
  BY DEF Accepted
<1>2. \A e : Counted(e)' <=> Counted(e)
  BY DEF Counted
<1>3. \A c \in Calls : \A e : Counting(c, e)' <=> Counting(c, e)
  BY DEF Counting
<1>4. ASSUME NEW d \in Calls \ moved PROVE WebhookCallOK(calls[d])'
  <2>1. PICK call : call = calls[d]
    OBVIOUS
  <2>2. WebhookCallOK(call)
    BY <2>1 DEF Webhooks
  <2>3. WebhookCallOK(call)'
    BY <1>1, <1>2, <2>2 DEF WebhookCallOK
  <2>4. calls'[d] = call
    BY <2>1
  <2> QED BY <2>3, <2>4 DEF WebhookCallOK, Accepted, Counted
<1>5. EventsOK' /\ DeliveriesOK'
  BY DEF Webhooks, EventsOK, DeliveriesOK
<1>6. RevenueOK'
  BY <1>1 DEF Webhooks, RevenueOK
<1>7. CountedOnce'
  <2>1. ASSUME NEW c \in Calls, NEW d \in Calls, NEW e, Counting(c, e), Counting(d, e) PROVE c = d
    <3>1. e \in DOMAIN events
      BY <2>1 DEF Counting, Webhooks, WebhookCallOK, Accepted
    <3> QED BY <2>1, <3>1 DEF Webhooks, CountedOnce
  <2> QED BY <1>3, <2>1 DEF CountedOnce
<1>8. NoneMissing'
  <2> SUFFICES ASSUME use.restarts = use.crashes, NEW d \in db.deliveries, d.valid,
                      events'[d.event].type = "subscription.created"
               PROVE  (Counted(d.event) \/ \E c \in Calls : Counting(c, d.event))'
    BY DEF NoneMissing
  <2>1. d.event \in DOMAIN events
    BY DEF Webhooks, DeliveriesOK
  <2>2. Counted(d.event) \/ \E c \in Calls : Counting(c, d.event)
    BY <2>1 DEF Webhooks, NoneMissing
  <2> QED BY <1>2, <1>3, <2>2
<1> QED BY <1>4, <1>5, <1>6, <1>7, <1>8 DEF Webhooks

-----------------------------------------------------------------------------
(* Steps outside of every call.                                            *)

LEMMA EnvironmentIInv ==
  ASSUME IInv, UNCHANGED <<use, calls, memory>>, db' \in DB, events' \in Seq(Event), Grown,
         ModelsOK', PlansOK', ApprovalsOK',
         db'.accounts = db.accounts, db'.deliveries = db.deliveries, db'.revenue = db.revenue,
         \A p \in DOMAIN db.plans : db'.plans[p].status = db.plans[p].status,
         DOMAIN events \subseteq DOMAIN events', \A e \in DOMAIN events : events'[e] = events[e],
         \A e \in DOMAIN events' \ DOMAIN events : events'[e].account \in DOMAIN db'.accounts
  PROVE  IInv'
<1>1. Types' /\ OneInFlight'
  BY DEF IInv, Types, OneInFlight
<1>2. (\A d \in Calls : PlanCallOK(calls[d]))'
  BY PlanCalls, \A d \in Calls \cap {} : PlanCallOK(calls[d])' DEF IInv
<1>3. AccountsOK'
  BY GrownFacts DEF IInv, Planning, AccountsOK, Grown
<1>4. Alone'
  <2>1. DOMAIN db.plans \subseteq DOMAIN db'.plans
    BY DEF Grown
  <2> QED BY <2>1, AloneFrame, \A d \in Calls \cap {} : AloneCallOK(calls[d])' DEF IInv
<1>5. Webhooks'
  BY WebhooksFrame, \A d \in Calls \cap {} : WebhookCallOK(calls[d])' DEF IInv
<1> QED BY <1>1, <1>2, <1>3, <1>4, <1>5 DEF IInv, Planning

LEMMA RunPricingAgentIInv ==
  ASSUME IInv, NEW answer \in PricingAnswers(db.claims), RunPricingAgent(answer)
  PROVE  IInv'
<1>1. PICK grounds : grounds = answer.grounds \cap DOMAIN db.claims
  OBVIOUS
<1>2. PICK price \in Nat : price = answer.price
  BY DEF PricingAnswers, DevPricingFixture
<1> DEFINE new == NewPricingModel(price, grounds)
<1>3. db' = [db EXCEPT !.models = Append(@, new)] /\ UNCHANGED <<use, calls, memory, events>>
  BY <1>1, <1>2 DEF RunPricingAgent
<1>4. db.claims \in Seq(Claim) /\ db.models \in Seq(Model)
  BY DEF IInv, Types, DB
<1>5. DOMAIN db.claims \subseteq Nat
  BY <1>4
<1>6. new \in Model /\ new.grounds = grounds /\ grounds \subseteq DOMAIN db.claims
  BY <1>1, <1>5 DEF NewPricingModel, Model
<1>7. db'.models = Append(db.models, new) /\ db' = [db EXCEPT !.models = db'.models]
  BY <1>3 DEF IInv, Types, DB
<1> HIDE DEF new
<1>8. /\ db'.models \in Seq(Model) /\ DOMAIN db.models \subseteq DOMAIN db'.models
      /\ \A m \in DOMAIN db'.models : db'.models[m] = new \/ (m \in DOMAIN db.models /\ db'.models[m] = db.models[m])
  BY <1>4, <1>6, <1>7, LenProperties
<1>9. PICK models : models = db'.models
  OBVIOUS
<1>10. /\ db' \in DB
       /\ db'.claims = db.claims /\ db'.plans = db.plans /\ db'.approvals = db.approvals /\ db'.accounts = db.accounts
       /\ db'.deliveries = db.deliveries /\ db'.revenue = db.revenue
  BY <1>7, <1>8, <1>9 DEF IInv, Types, DB
<1>11. Grown
  BY <1>8, <1>10 DEF Grown
<1>12. ModelsOK' /\ PlansOK' /\ ApprovalsOK'
  BY <1>6, <1>8, <1>10 DEF IInv, Planning, ModelsOK, PlansOK, ApprovalsOK, HasAccount
<1>13. events \in Seq(Event)
  BY DEF IInv, Types
<1> QED BY <1>3, <1>10, <1>11, <1>12, <1>13, EnvironmentIInv

LEMMA CreatePlanIInv ==
  ASSUME IInv, NEW model \in DOMAIN db.models, CreatePlan(model)
  PROVE  IInv'
<1> DEFINE new == NewBillingPlan(model)
<1>1. db' = [db EXCEPT !.plans = Append(@, new)] /\ UNCHANGED <<use, calls, memory, events>>
  BY DEF CreatePlan
<1>2. db.plans \in Seq(Plan) /\ model \in Nat
  BY DEF IInv, Types, DB
<1>3. new \in Plan /\ new.model = model /\ new.status = "DRAFT" /\ new.approval = 0
  BY <1>2 DEF NewBillingPlan, Plan, PlanStatus
<1>4. db'.plans = Append(db.plans, new) /\ db' = [db EXCEPT !.plans = db'.plans]
  BY <1>1 DEF IInv, Types, DB
<1> HIDE DEF new
<1>5. /\ db'.plans \in Seq(Plan) /\ DOMAIN db.plans \subseteq DOMAIN db'.plans
      /\ \A p \in DOMAIN db.plans : db'.plans[p] = db.plans[p]
      /\ \A p \in DOMAIN db'.plans : db'.plans[p] = new \/ p \in DOMAIN db.plans
  BY <1>2, <1>3, <1>4, LenProperties
<1>6. PICK plans : plans = db'.plans
  OBVIOUS
<1>7. /\ db' \in DB
      /\ db'.claims = db.claims /\ db'.models = db.models /\ db'.approvals = db.approvals /\ db'.accounts = db.accounts
      /\ db'.deliveries = db.deliveries /\ db'.revenue = db.revenue
  BY <1>4, <1>5, <1>6 DEF IInv, Types, DB
<1>8. Grown
  BY <1>5, <1>7 DEF Grown
<1>9. ModelsOK' /\ ApprovalsOK'
  BY <1>5, <1>7 DEF IInv, Planning, ModelsOK, ApprovalsOK
<1>10. PlansOK'
  BY <1>3, <1>5, <1>7 DEF IInv, Planning, PlansOK, HasAccount
<1>11. events \in Seq(Event)
  BY DEF IInv, Types
<1> QED BY <1>1, <1>5, <1>7, <1>8, <1>9, <1>10, <1>11, EnvironmentIInv

LEMMA EventIInv ==
  ASSUME IInv, NEW event \in Event, event.account \in DOMAIN db.accounts,
         events' = Append(events, event), UNCHANGED <<use, db, calls, memory>>
  PROVE  IInv'
<1>1. events \in Seq(Event) /\ db \in DB
  BY DEF IInv, Types
<1>2. /\ events' \in Seq(Event) /\ DOMAIN events \subseteq DOMAIN events'
      /\ \A e \in DOMAIN events : events'[e] = events[e]
      /\ \A e \in DOMAIN events' \ DOMAIN events : events'[e] = event
  BY <1>1, LenProperties
<1>3. Grown
  BY DEF Grown
<1>4. ModelsOK' /\ PlansOK' /\ ApprovalsOK'
  BY DEF IInv, Planning, ModelsOK, PlansOK, ApprovalsOK, HasAccount
<1> QED BY <1>1, <1>2, <1>3, <1>4, EnvironmentIInv

LEMMA ProviderIInv ==
  ASSUME IInv, NEW account \in DOMAIN db.accounts, RecordSubscriptionFixture(account) \/ OtherEvent(account)
  PROVE  IInv'
<1>1. account \in Nat
  BY DEF IInv, Types, DB
<1>2. \A type \in {"subscription.created", "other"} :
        [account |-> account, type |-> type] \in Event /\ [account |-> account, type |-> type].account = account
  BY <1>1 DEF Event
<1> QED BY <1>2, EventIInv DEF RecordSubscriptionFixture, OtherEvent

LEMMA LapseIInv ==
  ASSUME IInv, NEW a \in DOMAIN db.approvals, Lapse(a)
  PROVE  IInv'
<1>1. PICK old \in Approval : old = db.approvals[a]
  BY DEF IInv, Types, DB
<1> DEFINE new == [old EXCEPT !.lapsed = TRUE]
<1>2. db' = [db EXCEPT !.approvals[a].lapsed = TRUE] /\ UNCHANGED <<use, calls, memory, events>>
  BY DEF Lapse
<1>3. new \in Approval /\ new.plan = old.plan /\ new.status = old.status
  BY DEF Approval
<1>4. db'.approvals = [db.approvals EXCEPT ![a] = new] /\ db' = [db EXCEPT !.approvals = db'.approvals]
  BY <1>1, <1>2 DEF IInv, Types, DB
<1> HIDE DEF new
<1>5. /\ db'.approvals \in Seq(Approval) /\ DOMAIN db'.approvals = DOMAIN db.approvals
      /\ \A b \in DOMAIN db.approvals :
           db'.approvals[b].plan = db.approvals[b].plan /\ db'.approvals[b].status = db.approvals[b].status
  BY <1>1, <1>3, <1>4 DEF IInv, Types, DB
<1>6. PICK approvals : approvals = db'.approvals
  OBVIOUS
<1>7. /\ db' \in DB
      /\ db'.claims = db.claims /\ db'.models = db.models /\ db'.plans = db.plans /\ db'.accounts = db.accounts
      /\ db'.deliveries = db.deliveries /\ db'.revenue = db.revenue
  BY <1>4, <1>5, <1>6 DEF IInv, Types, DB
<1>8. Grown
  BY <1>5, <1>7 DEF Grown
<1>9. ModelsOK' /\ PlansOK' /\ ApprovalsOK'
  BY <1>5, <1>7 DEF IInv, Planning, ModelsOK, PlansOK, ApprovalsOK, HasAccount
<1>10. events \in Seq(Event)
  BY DEF IInv, Types
<1> QED BY <1>2, <1>7, <1>8, <1>9, <1>10, EnvironmentIInv

LEMMA HaltIInv ==
  ASSUME IInv, Halt
  PROVE  IInv'
<1>1. PICK halted \in BOOLEAN : halted = ~db.halted
  OBVIOUS
<1>2. db' = [db EXCEPT !.halted = halted] /\ UNCHANGED <<use, calls, memory, events>>
  BY <1>1 DEF Halt
<1>3. /\ db' \in DB
      /\ db'.claims = db.claims /\ db'.models = db.models /\ db'.plans = db.plans /\ db'.approvals = db.approvals
      /\ db'.accounts = db.accounts /\ db'.deliveries = db.deliveries /\ db'.revenue = db.revenue
  BY <1>2 DEF IInv, Types, DB
<1>4. Grown
  BY <1>3 DEF Grown
<1>5. ModelsOK' /\ PlansOK' /\ ApprovalsOK'
  BY <1>3 DEF IInv, Planning, ModelsOK, PlansOK, ApprovalsOK, HasAccount
<1>6. events \in Seq(Event)
  BY DEF IInv, Types
<1> QED BY <1>2, <1>3, <1>4, <1>5, <1>6, EnvironmentIInv

LEMMA RestartIInv ==
  ASSUME IInv, Restart
  PROVE  IInv'
<1>1. /\ use.crashes > 0 /\ UNCHANGED <<db, events>>
      /\ calls' = [c \in Calls |-> Idle] /\ memory' = [memory EXCEPT !.known = {}]
  BY DEF Restart
<1>2. PICK u \in Use : u = use
  BY DEF IInv, Types
<1>3. PICK n \in Nat : n = u.crashes - 1
  <2>1. u.crashes - 1 \in Nat
    BY <1>1, <1>2 DEF Use
  <2> QED BY <2>1
<1>4. use' = [u EXCEPT !.crashes = n] /\ u.crashes <= u.restarts
  BY <1>2, <1>3 DEF Restart, IInv, Types
<1>5. /\ use' \in Use /\ use'.crashes = n /\ use'.restarts = u.restarts /\ n < u.restarts
      /\ n \in Nat /\ u.restarts \in Nat
  BY <1>3, <1>4 DEF Use
<1>6. memory' \in Memory
  BY <1>1 DEF IInv, Types, Memory
<1>7. Types'
  BY <1>1, <1>5, <1>6, IdleFacts DEF IInv, Types
<1>8. OneInFlight' /\ \A c \in Calls : calls'[c] = Idle
  BY <1>1, IdleFacts DEF OneInFlight
<1>9. Planning'
  BY <1>1, <1>8, IdleFacts DEF IInv, Planning, ModelsOK, PlansOK, ApprovalsOK, AccountsOK, Granted, HasAccount,
     PlanCallOK, Opening
<1>10. Alone'
  BY <1>5 DEF Alone
<1>11. Webhooks'
  <2>1. CountedOnce' /\ NoneMissing' /\ (\A c \in Calls : WebhookCallOK(calls[c]))'
    BY <1>5, <1>8, IdleFacts DEF CountedOnce, Counting, NoneMissing, WebhookCallOK
  <2> QED BY <1>1, <2>1 DEF IInv, Webhooks, EventsOK, DeliveriesOK, RevenueOK, Accepted
<1> QED BY <1>7, <1>8, <1>9, <1>10, <1>11 DEF IInv

-----------------------------------------------------------------------------
(* Steps of planning calls.                                                *)

LEMMA PlanStepIInv ==
  ASSUME IInv, NEW c \in Calls, NEW call, Moves(c, call), UNCHANGED <<use, events>>, db' \in DB, memory' \in Memory, Grown,
         calls[c].at # "metric", call.at \notin {"delivery", "metric"},
         db'.deliveries = db.deliveries, db'.revenue = db.revenue,
         ModelsOK', PlansOK', ApprovalsOK', AccountsOK', PlanCallOK(call)', Alone'
  PROVE  IInv'
<1>1. /\ calls' \in [Calls -> Call] /\ calls'[c] = call /\ OneInFlight'
      /\ \A d \in Calls \ {c} : calls'[d] = calls[d]
  BY MovesFacts DEF IInv
<1>2. Types'
  BY <1>1 DEF IInv, Types
<1>3. (\A d \in Calls : PlanCallOK(calls[d]))'
  <2>1. \A d \in Calls \cap {c} : PlanCallOK(calls[d])'
    BY <1>1 DEF PlanCallOK, Opening, Granted, HasAccount
  <2> QED BY <1>1, <2>1, PlanCalls DEF IInv
<1>4. Webhooks'
  <2>1. WebhookCallOK(calls[c])'
    BY <1>1 DEF WebhookCallOK
  <2>2. \A d \in Calls \cap {c} : calls[d].at # "metric" /\ calls'[d].at # "metric" /\ WebhookCallOK(calls[d])'
    BY <1>1, <2>1
  <2>3. DOMAIN db.accounts \subseteq DOMAIN db'.accounts /\ Webhooks
    BY DEF Grown, IInv
  <2> QED BY <1>1, <2>2, <2>3, WebhooksFrame
<1> QED BY <1>1, <1>2, <1>3, <1>4 DEF IInv, Planning

LEMMA AloneStep ==
  ASSUME IInv, NEW c \in Calls, NEW call, Moves(c, call), UNCHANGED use, Grown, db'.accounts = db.accounts,
         \A p \in DOMAIN db.plans : db'.plans[p].status = db.plans[p].status,
         AloneCallOK(call)', Opening(calls[c]) => Opening(call) /\ call.p = calls[c].p
  PROVE  Alone'
<1>1. calls'[c] = call /\ \A d \in Calls \ {c} : calls'[d] = calls[d]
  BY MovesFacts DEF IInv
<1>2. AloneCallOK(calls[c])'
  BY <1>1 DEF AloneCallOK, Opening, HasAccount
<1>3. /\ \A d \in Calls \cap {c} : AloneCallOK(calls[d])'
      /\ \A d \in Calls \cap {c} : Opening(calls[d]) => Opening(calls'[d]) /\ calls'[d].p = calls[d].p
  BY <1>1, <1>2
<1>4. Planning /\ Alone /\ DOMAIN db.plans \subseteq DOMAIN db'.plans
  BY DEF Grown, IInv
<1> QED BY <1>1, <1>3, <1>4, AloneFrame

(* The call has read.                                                      *)
LEMMA PlanReadIInv ==
  ASSUME IInv, NEW c \in Calls, NEW call, Moves(c, call), UNCHANGED <<use, db, memory, events>>,
         calls[c].at # "metric", call.at \notin {"delivery", "metric"},
         PlanCallOK(call), use.load = 1 /\ use.restarts = 0 => AloneCallOK(call),
         Opening(calls[c]) /\ use.load = 1 /\ use.restarts = 0 => Opening(call) /\ call.p = calls[c].p
  PROVE  IInv'
<1>1. Grown /\ db' \in DB /\ memory' \in Memory
  BY DEF Grown, IInv, Types
<1>2. ModelsOK' /\ PlansOK' /\ ApprovalsOK' /\ AccountsOK'
  BY DEF IInv, Planning, ModelsOK, PlansOK, ApprovalsOK, AccountsOK, Granted, HasAccount
<1>3. PlanCallOK(call)'
  BY DEF PlanCallOK, Granted, HasAccount
<1>4. Alone'
  <2>1. CASE use.load = 1 /\ use.restarts = 0
    <3>1. AloneCallOK(call)'
      BY <2>1 DEF AloneCallOK, HasAccount
    <3> QED BY <1>1, <2>1, <3>1, AloneStep
  <2>2. CASE ~(use.load = 1 /\ use.restarts = 0)
    BY <2>2 DEF Alone
  <2> QED BY <2>1, <2>2
<1> QED BY <1>1, <1>2, <1>3, <1>4, PlanStepIInv

(* The step of a call that is neither opening before nor after it, on      *)
(* accounts and plan statuses it leaves alone.                             *)
LEMMA AloneQuiet ==
  ASSUME IInv, NEW c \in Calls, NEW call, Moves(c, call), UNCHANGED use, Grown, db'.accounts = db.accounts,
         \A p \in DOMAIN db.plans : db'.plans[p].status = db.plans[p].status,
         call.at \notin {"price", "account", "active", "planWrite"}, ~Opening(calls[c])
  PROVE  Alone'
BY AloneStep DEF AloneCallOK, Opening

LEMMA CallFacts ==
  ASSUME IInv, NEW c \in Calls
  PROVE  calls[c] \in Call /\ PlanCallOK(calls[c]) /\ (use.load = 1 /\ use.restarts = 0 => AloneCallOK(calls[c]))
BY DEF IInv, Types, Planning, Alone

LEMMA FreshCall ==
  ASSUME IsFiniteSet(Calls), IInv, NEW c \in Calls, NEW op, May(op, c), NEW call \in Call, GoTo(c, call)
  PROVE  Moves(c, call) /\ calls[c].at # "metric" /\ ~Opening(calls[c])
BY MayFacts DEF IInv, May, Moves, Opening

LEMMA RequestApprovalIInv ==
  ASSUME IsFiniteSet(Calls), IInv, NEW c \in Calls, NEW p \in DOMAIN db.plans, RequestApproval(c, p)
  PROVE  IInv'
<1>1. PICK size \in Nat : size = Len(db.approvals) + 1 /\ DOMAIN db.approvals = 1 .. (size - 1)
  <2>1. db.approvals \in Seq(Approval)
    BY DEF IInv, Types, DB
  <2>2. Len(db.approvals) \in Nat /\ DOMAIN db.approvals = 1 .. Len(db.approvals)
    BY <2>1, LenProperties
  <2>3. Len(db.approvals) + 1 \in Nat /\ DOMAIN db.approvals = 1 .. ((Len(db.approvals) + 1) - 1)
    BY <2>2
  <2> QED BY <2>3
<1>2. p \in Nat
  BY DEF IInv, Types, DB
<1> DEFINE new == [plan |-> p, status |-> "PENDING", lapsed |-> FALSE]
<1> DEFINE call == [Idle EXCEPT !.at = "attach", !.p = p, !.a = size]
<1>3. db' = [db EXCEPT !.approvals = Append(@, new)] /\ GoTo(c, call) /\ UNCHANGED <<use, memory, events>>
  BY <1>1 DEF RequestApproval
<1>4. new \in Approval /\ new.plan = p
  BY <1>2 DEF Approval, ApprovalStatus
<1>5. call \in Call /\ call.at = "attach" /\ call.p = p /\ call.a = size
  <2>1. call \in Call
    BY <1>2, IdleFacts DEF Call, Places
  <2> QED BY <2>1 DEF Idle
<1>6. db'.approvals = Append(db.approvals, new) /\ db' = [db EXCEPT !.approvals = db'.approvals]
  BY <1>3 DEF IInv, Types, DB
<1> HIDE DEF new, call
<1>7. /\ db'.approvals \in Seq(Approval) /\ DOMAIN db'.approvals = 1 .. size /\ db'.approvals[size] = new
      /\ \A b \in DOMAIN db.approvals : db'.approvals[b] = db.approvals[b]
  BY <1>1, <1>4, <1>6 DEF IInv, Types, DB
<1>8. PICK approvals : approvals = db'.approvals
  OBVIOUS
<1>9. /\ db' \in DB
      /\ db'.claims = db.claims /\ db'.models = db.models /\ db'.plans = db.plans /\ db'.accounts = db.accounts
      /\ db'.deliveries = db.deliveries /\ db'.revenue = db.revenue
  BY <1>6, <1>7, <1>8 DEF IInv, Types, DB
<1>10. Grown
  BY <1>1, <1>7, <1>9 DEF Grown
<1>11. ModelsOK' /\ PlansOK' /\ ApprovalsOK' /\ AccountsOK'
  <2>1. ModelsOK' /\ PlansOK'
    BY <1>9, <1>10 DEF IInv, Planning, ModelsOK, PlansOK, HasAccount, Grown
  <2>2. ApprovalsOK'
    BY <1>1, <1>4, <1>7, <1>9 DEF IInv, Planning, ApprovalsOK
  <2>3. AccountsOK'
    BY <1>9, <1>10, GrownFacts DEF IInv, Planning, AccountsOK
  <2> QED BY <2>1, <2>2, <2>3
<1>12. PlanCallOK(call)'
  BY <1>5, <1>7, <1>9, <1>1 DEF PlanCallOK, Opening
<1>13. Moves(c, call) /\ calls[c].at # "metric" /\ ~Opening(calls[c])
  BY <1>3, <1>5, FreshCall DEF RequestApproval
<1>14. memory' \in Memory
  BY <1>3 DEF IInv, Types
<1>15. Alone'
  BY <1>3, <1>5, <1>9, <1>10, <1>13, AloneQuiet
<1> QED BY <1>3, <1>5, <1>9, <1>10, <1>11, <1>12, <1>13, <1>14, <1>15, PlanStepIInv

(* A plan's row changes, and its model stays.                              *)
LEMMA PlanRowIInv ==
  ASSUME IInv, NEW c \in Calls, NEW call, Moves(c, call), NEW p \in DOMAIN db.plans, NEW new \in Plan,
         db' = [db EXCEPT !.plans = [db.plans EXCEPT ![p] = new]], UNCHANGED <<use, memory, events>>,
         new.model = db.plans[p].model, new.approval \in {0} \cup DOMAIN db.approvals,
         new.status = "ACTIVE" => HasAccount(p),
         calls[c].at # "metric", call.at \notin {"delivery", "metric"}, PlanCallOK(call),
         Grown /\ db'.accounts = db.accounts => Alone'
  PROVE  IInv'
<1>1. /\ db' \in DB /\ DOMAIN db'.plans = DOMAIN db.plans /\ db'.plans[p] = new
      /\ \A q \in DOMAIN db.plans \ {p} : db'.plans[q] = db.plans[q]
      /\ db'.claims = db.claims /\ db'.models = db.models /\ db'.approvals = db.approvals /\ db'.accounts = db.accounts
      /\ db'.deliveries = db.deliveries /\ db'.revenue = db.revenue
  <2>1. PICK plans : plans = [db.plans EXCEPT ![p] = new]
    OBVIOUS
  <2>2. /\ plans \in Seq(Plan) /\ DOMAIN plans = DOMAIN db.plans /\ plans[p] = new
        /\ \A q \in DOMAIN db.plans \ {p} : plans[q] = db.plans[q]
    BY <2>1 DEF IInv, Types, DB
  <2>3. db' = [db EXCEPT !.plans = plans]
    BY <2>1
  <2> QED BY <2>2, <2>3 DEF IInv, Types, DB
<1>2. Grown
  BY <1>1 DEF Grown
<1>3. ModelsOK' /\ ApprovalsOK' /\ AccountsOK'
  BY <1>1 DEF IInv, Planning, ModelsOK, ApprovalsOK, AccountsOK, Granted
<1>4. PlansOK'
  BY <1>1 DEF IInv, Planning, PlansOK, HasAccount
<1>5. PlanCallOK(call)'
  BY <1>1 DEF PlanCallOK, Opening, Granted, HasAccount
<1>6. memory' \in Memory
  BY DEF IInv, Types
<1> QED BY <1>1, <1>2, <1>3, <1>4, <1>5, <1>6, PlanStepIInv

LEMMA AttachApprovalIInv ==
  ASSUME IInv, NEW c \in Calls, AttachApproval(c)
  PROVE  IInv'
<1>1. PICK old \in Call : old = calls[c]
  BY CallFacts
<1>2. old.at = "attach" /\ GoTo(c, Idle) /\ UNCHANGED <<use, memory, events>>
  BY <1>1 DEF AttachApproval, Return
<1>3. PICK p, a : p = old.p /\ a = old.a /\ p \in DOMAIN db.plans /\ a \in DOMAIN db.approvals /\ a \in Nat
  BY <1>1, <1>2, CallFacts DEF PlanCallOK, Call
<1>4. PICK row \in Plan : row = db.plans[p]
  BY <1>3 DEF IInv, Types, DB
<1> DEFINE new == [row EXCEPT !.approval = a]
<1>5. db' = [db EXCEPT !.plans = [db.plans EXCEPT ![p] = new]]
  BY <1>1, <1>3, <1>4 DEF AttachApproval, IInv, Types, DB
<1>6. new \in Plan /\ new.model = row.model /\ new.status = row.status /\ new.approval = a
  BY <1>3 DEF Plan
<1> HIDE DEF new
<1>7. Moves(c, Idle)
  BY <1>1, <1>2, IdleFacts DEF Moves
<1>8. new.status = "ACTIVE" => HasAccount(p)
  BY <1>3, <1>4, <1>6 DEF IInv, Planning, PlansOK
<1>9. ASSUME Grown, db'.accounts = db.accounts PROVE Alone'
  <2>1. \A q \in DOMAIN db.plans : db'.plans[q].status = db.plans[q].status
    BY <1>3, <1>4, <1>5, <1>6 DEF IInv, Types, DB
  <2> QED BY <1>1, <1>2, <1>7, <1>9, <2>1, AloneQuiet, IdleFacts DEF Opening
<1> QED BY <1>1, <1>2, <1>3, <1>4, <1>5, <1>6, <1>7, <1>8, <1>9, IdleFacts, PlanRowIInv

LEMMA DecideIInv ==
  ASSUME IsFiniteSet(Calls), IInv, NEW c \in Calls, NEW a \in DOMAIN db.approvals, NEW verdict \in {"APPROVED", "REJECTED"},
         Decide(c, a, verdict)
  PROVE  IInv'
<1>1. PICK old \in Approval : old = db.approvals[a]
  BY DEF IInv, Types, DB
<1>2. a \in Nat
  BY DEF IInv, Types, DB
<1> DEFINE new == [old EXCEPT !.status = verdict]
<1> DEFINE on == [Idle EXCEPT !.at = "apply", !.a = a, !.auto = TRUE]
<1>3. /\ db' = [db EXCEPT !.approvals[a].status = verdict] /\ UNCHANGED <<use, memory, events>>
      /\ GoTo(c, on) \/ GoTo(c, Idle)
      /\ old.status = "PENDING"
  BY <1>1 DEF Decide, Return
<1>4. on \in Call /\ on.at = "apply" /\ on.a = a
  <2>1. on \in Call
    BY <1>2, IdleFacts DEF Call, Places
  <2> QED BY <2>1 DEF Idle
<1>5. new \in Approval /\ new.plan = old.plan /\ new.status = verdict
  BY DEF Approval, ApprovalStatus
<1>6. db'.approvals = [db.approvals EXCEPT ![a] = new] /\ db' = [db EXCEPT !.approvals = db'.approvals]
  BY <1>1, <1>3 DEF IInv, Types, DB
<1> HIDE DEF new, on
<1>7. /\ db'.approvals \in Seq(Approval) /\ DOMAIN db'.approvals = DOMAIN db.approvals
      /\ \A b \in DOMAIN db.approvals : db'.approvals[b].plan = db.approvals[b].plan
      /\ \A b \in DOMAIN db.approvals : db.approvals[b].status = "APPROVED" => db'.approvals[b].status = "APPROVED"
  <2>1. db.approvals \in Seq(Approval) /\ db'.approvals[a] = new /\ DOMAIN db'.approvals = DOMAIN db.approvals
    BY <1>6 DEF IInv, Types, DB
  <2>2. \A b \in DOMAIN db.approvals \ {a} : db'.approvals[b] = db.approvals[b]
    BY <1>6
  <2>3. db'.approvals \in Seq(Approval)
    BY <1>5, <1>6, <2>1
  <2> QED BY <1>1, <1>3, <1>5, <2>1, <2>2, <2>3
<1>8. PICK approvals : approvals = db'.approvals
  OBVIOUS
<1>9. /\ db' \in DB
      /\ db'.claims = db.claims /\ db'.models = db.models /\ db'.plans = db.plans /\ db'.accounts = db.accounts
      /\ db'.deliveries = db.deliveries /\ db'.revenue = db.revenue
  BY <1>6, <1>7, <1>8 DEF IInv, Types, DB
<1>10. Grown
  BY <1>7, <1>9 DEF Grown
<1>11. ModelsOK' /\ PlansOK' /\ ApprovalsOK' /\ AccountsOK'
  <2>1. AccountsOK'
    BY <1>9, <1>10, GrownFacts DEF IInv, Planning, AccountsOK
  <2> QED BY <1>7, <1>9, <2>1 DEF IInv, Planning, ModelsOK, PlansOK, ApprovalsOK, HasAccount
<1>12. PICK call \in Call : GoTo(c, call) /\ (call = on \/ call = Idle)
  BY <1>3, <1>4, IdleFacts
<1>13. call.at \in {"apply", "idle"} /\ PlanCallOK(call)'
  BY <1>4, <1>7, <1>12, IdleFacts DEF PlanCallOK, Opening
<1>14. Moves(c, call) /\ calls[c].at # "metric" /\ ~Opening(calls[c])
  BY <1>12, FreshCall DEF Decide
<1>15. memory' \in Memory
  BY <1>3 DEF IInv, Types
<1>16. Alone'
  BY <1>3, <1>9, <1>10, <1>13, <1>14, AloneQuiet
<1> QED BY <1>3, <1>9, <1>10, <1>11, <1>13, <1>14, <1>15, <1>16, PlanStepIInv

LEMMA ApplyDecisionIInv ==
  ASSUME IsFiniteSet(Calls), IInv, NEW c \in Calls, NEW a \in DOMAIN db.approvals, ApplyDecision(c, a)
  PROVE  IInv'
<1> DEFINE call == [Idle EXCEPT !.at = "apply", !.a = a]
<1>1. a \in Nat
  BY DEF IInv, Types, DB
<1>2. call \in Call /\ call.at = "apply" /\ call.a = a
  <2>1. call \in Call
    BY <1>1, IdleFacts DEF Call, Places
  <2> QED BY <2>1 DEF Idle
<1>3. GoTo(c, call) /\ UNCHANGED <<use, db, memory, events>>
  BY DEF ApplyDecision
<1> HIDE DEF call
<1>4. PlanCallOK(call) /\ AloneCallOK(call)
  BY <1>2 DEF PlanCallOK, AloneCallOK, Opening
<1>5. Moves(c, call) /\ calls[c].at # "metric" /\ ~Opening(calls[c])
  BY <1>2, <1>3, FreshCall DEF ApplyDecision
<1> QED BY <1>2, <1>3, <1>4, <1>5, PlanReadIInv

LEMMA ApplyReadIInv ==
  ASSUME IInv, NEW c \in Calls, ApplyRead(c)
  PROVE  IInv'
<1>1. PICK old \in Call : old = calls[c]
  BY CallFacts
<1>2. old.at = "apply" /\ old.a \in DOMAIN db.approvals
  BY <1>1, CallFacts DEF ApplyRead, PlanCallOK
<1>3. PICK p \in DOMAIN db.plans : p = db.approvals[old.a].plan /\ p \in Nat
  BY <1>2 DEF IInv, Types, DB, Planning, ApprovalsOK
<1>4. PICK to \in {"HUMAN_APPROVED", "REJECTED"} :
        to = IF db.approvals[old.a].status = "APPROVED" THEN "HUMAN_APPROVED" ELSE "REJECTED"
  OBVIOUS
<1>5. PICK status \in PlanStatus : status = db.plans[p].status
  <2>1. PICK row \in Plan : row = db.plans[p]
    BY <1>3 DEF IInv, Types, DB
  <2> QED BY <2>1 DEF Plan
<1> DEFINE write == [old EXCEPT !.at = "planWrite", !.p = p, !.to = to]
<1> DEFINE activate == [old EXCEPT !.at = "activate", !.p = p]
<1>6. /\ UNCHANGED <<use, db, memory, events>>
      /\ \/ GoTo(c, write) /\ to \in BILLING_PLAN_STATUS_TRANSITIONS[status] /\ status \notin {"HUMAN_APPROVED", "REJECTED", "ACTIVE"}
         \/ GoTo(c, activate)
         \/ GoTo(c, Idle)
  BY <1>1, <1>3, <1>4, <1>5 DEF ApplyRead, Return
<1>7. to \in BILLING_PLAN_STATUS_TRANSITIONS[status] /\ status \notin {"HUMAN_APPROVED", "REJECTED", "ACTIVE"} => status = "DRAFT"
  BY DEF BILLING_PLAN_STATUS_TRANSITIONS, PlanStatus
<1>8. /\ write \in Call /\ write.at = "planWrite" /\ write.p = p /\ write.to = to
      /\ activate \in Call /\ activate.at = "activate" /\ activate.p = p
  BY <1>3 DEF Call, Places, PlanStatus
<1> HIDE DEF write, activate
<1>9. ASSUME NEW call \in Call, GoTo(c, call), call.at \notin {"delivery", "metric"}, PlanCallOK(call), AloneCallOK(call) PROVE IInv'
  <2>1. Moves(c, call) /\ calls[c].at # "metric" /\ ~Opening(calls[c])
    BY <1>1, <1>2, <1>9 DEF Moves, Opening
  <2> QED BY <1>6, <1>9, <2>1, PlanReadIInv
<1>10. PlanCallOK(write) /\ PlanCallOK(activate) /\ AloneCallOK(activate) /\ AloneCallOK(Idle)
  BY <1>3, <1>4, <1>8, IdleFacts DEF PlanCallOK, AloneCallOK, Opening
<1>11. status = "DRAFT" => AloneCallOK(write)
  BY <1>4, <1>5, <1>8 DEF AloneCallOK, Opening
<1> QED BY <1>6, <1>7, <1>8, <1>9, <1>10, <1>11, IdleFacts

LEMMA PlanWriteIInv ==
  ASSUME IInv, NEW c \in Calls, PlanWrite(c)
  PROVE  IInv'
<1>1. PICK old \in Call : old = calls[c]
  BY CallFacts
<1>2. /\ old.at = "planWrite" /\ old.p \in DOMAIN db.plans /\ old.to \in {"HUMAN_APPROVED", "REJECTED", "ACTIVE"}
      /\ old.to = "ACTIVE" => HasAccount(old.p)
  BY <1>1, CallFacts DEF PlanWrite, PlanCallOK, Opening
<1>3. PICK p, to : p = old.p /\ to = old.to
  OBVIOUS
<1>4. PICK row \in Plan : row = db.plans[p]
  BY <1>2, <1>3 DEF IInv, Types, DB
<1> DEFINE new == [row EXCEPT !.status = to]
<1> DEFINE activate == [old EXCEPT !.at = "activate"]
<1>5. /\ db' = [db EXCEPT !.plans = [db.plans EXCEPT ![p] = new]] /\ UNCHANGED <<use, memory, events>>
      /\ (GoTo(c, activate) /\ to = "HUMAN_APPROVED") \/ GoTo(c, Idle)
  BY <1>1, <1>2, <1>3, <1>4 DEF PlanWrite, Return, IInv, Types, DB
<1>6. new \in Plan /\ new.model = row.model /\ new.status = to /\ new.approval = row.approval
  BY <1>2, <1>3 DEF Plan, PlanStatus
<1>7. activate \in Call /\ activate.at = "activate" /\ activate.p = p
  BY <1>3 DEF Call, Places
<1> HIDE DEF new, activate
<1>8. PICK call \in Call : GoTo(c, call) /\ (call = activate \/ call = Idle)
  BY <1>5, <1>7, IdleFacts
<1>9. call.at \in {"activate", "idle"} /\ PlanCallOK(call)
  BY <1>2, <1>3, <1>7, <1>8, IdleFacts DEF PlanCallOK, Opening
<1>10. Moves(c, call)
  BY <1>1, <1>2, <1>8 DEF Moves
<1>11. ASSUME Grown, db'.accounts = db.accounts PROVE Alone'
  <2> SUFFICES ASSUME use.load = 1 /\ use.restarts = 0 PROVE Alone'
    BY <1>5 DEF Alone
  <2>1. calls'[c] = call /\ \A d \in Calls \ {c} : calls'[d] = calls[d] /\ calls[d].at = "idle"
    BY <1>5, <1>10, MovesFacts DEF IInv
  <2>2. db'.plans[p].status = to /\ \A q \in DOMAIN db.plans \ {p} : db'.plans[q].status = db.plans[q].status
    BY <1>2, <1>3, <1>5, <1>6 DEF IInv, Types, DB
  <2>3. \A d \in Calls : AloneCallOK(calls[d])'
    BY <1>9, <2>1 DEF AloneCallOK, Opening
  <2>4. ASSUME NEW i \in DOMAIN db.accounts PROVE db'.plans[db.accounts[i].plan].status = "ACTIVE"
    <3>1. PICK q \in DOMAIN db.plans : q = db.accounts[i].plan
      BY DEF IInv, Planning, AccountsOK
    <3>2. db.plans[q].status = "ACTIVE" \/ (Opening(old) /\ q = p)
      BY <1>1, <1>3, <2>1, <3>1 DEF IInv, Alone, Opening
    <3>3. to # "ACTIVE" => db.plans[p].status = "DRAFT"
      BY <1>1, <1>2, <1>3 DEF IInv, Alone, AloneCallOK
    <3>4. Opening(old) => to = "ACTIVE"
      BY <1>2, <1>3 DEF Opening
    <3> QED BY <2>2, <3>1, <3>2, <3>3, <3>4
  <2>5. \A i, j \in DOMAIN db.accounts : db.accounts[i].plan = db.accounts[j].plan => i = j
    BY DEF IInv, Alone
  <2> QED BY <1>11, <2>3, <2>4, <2>5 DEF Alone
<1>12. row.approval \in {0} \cup DOMAIN db.approvals
  BY <1>2, <1>3, <1>4 DEF IInv, Planning, PlansOK
<1> QED BY <1>1, <1>2, <1>3, <1>4, <1>5, <1>6, <1>9, <1>10, <1>11, <1>12, PlanRowIInv

LEMMA ActivateIInv ==
  ASSUME IsFiniteSet(Calls), IInv, NEW c \in Calls, NEW p \in DOMAIN db.plans, Activate(c, p)
  PROVE  IInv'
<1> DEFINE call == [Idle EXCEPT !.at = "activate", !.p = p]
<1>1. p \in Nat
  BY DEF IInv, Types, DB
<1>2. call \in Call /\ call.at = "activate" /\ call.p = p
  <2>1. call \in Call
    BY <1>1, IdleFacts DEF Call, Places
  <2> QED BY <2>1 DEF Idle
<1>3. GoTo(c, call) /\ UNCHANGED <<use, db, memory, events>>
  BY DEF Activate
<1> HIDE DEF call
<1>4. PlanCallOK(call) /\ AloneCallOK(call)
  BY <1>2 DEF PlanCallOK, AloneCallOK, Opening
<1>5. Moves(c, call) /\ calls[c].at # "metric" /\ ~Opening(calls[c])
  BY <1>2, <1>3, FreshCall DEF Activate
<1> QED BY <1>2, <1>3, <1>4, <1>5, PlanReadIInv

(* Under one call at a time a plan that may be executed has no account.    *)
LEMMA ActivateCheckIInv ==
  ASSUME IInv, NEW c \in Calls, ActivateCheck(c)
  PROVE  IInv'
<1>1. PICK old \in Call : old = calls[c]
  BY CallFacts
<1>2. old.at = "activate" /\ old.p \in DOMAIN db.plans
  BY <1>1, CallFacts DEF ActivateCheck, PlanCallOK
<1>3. PICK p, a : p = old.p /\ a = db.plans[p].approval /\ p \in DOMAIN db.plans
  BY <1>2
<1>4. a \in {0} \cup DOMAIN db.approvals /\ a \in Nat
  BY <1>3, SMTT(60) DEF IInv, Planning, PlansOK, Types, DB
<1> DEFINE price == [old EXCEPT !.at = "price", !.a = a]
<1>5. /\ UNCHANGED <<use, db, memory, events>>
      /\ (Executable(p) /\ GoTo(c, price)) \/ GoTo(c, Idle)
  BY <1>1, <1>3 DEF ActivateCheck, Return
<1>6. price \in Call /\ price.at = "price" /\ price.p = p /\ price.a = a
  BY <1>3, <1>4 DEF Call, Places
<1> HIDE DEF price
<1>7. ASSUME NEW call \in Call, GoTo(c, call), call.at \in {"idle", "price"}, PlanCallOK(call),
             use.load = 1 /\ use.restarts = 0 => AloneCallOK(call)
      PROVE  IInv'
  <2>1. Moves(c, call) /\ calls[c].at # "metric" /\ ~Opening(calls[c])
    BY <1>1, <1>2, <1>7 DEF Moves, Opening
  <2> QED BY <1>5, <1>7, <2>1, PlanReadIInv
<1>8. CASE Executable(p) /\ GoTo(c, price)
  <2>1. PlanCallOK(price)
    BY <1>3, <1>4, <1>6, <1>8 DEF Executable, PlanCallOK, Opening, Granted
  <2>2. ASSUME use.load = 1, use.restarts = 0, HasAccount(p) PROVE FALSE
    <3>1. PICK i \in DOMAIN db.accounts : db.accounts[i].plan = p
      BY <2>2 DEF HasAccount
    <3>2. PICK d \in Calls : Opening(calls[d])
      BY <1>8, <2>2, <3>1 DEF IInv, Alone, Executable
    <3>3. d = c
      BY <1>1, <1>2, <2>2, <3>2 DEF IInv, OneInFlight, Opening
    <3> QED BY <1>1, <1>2, <3>2, <3>3 DEF Opening
  <2>3. use.load = 1 /\ use.restarts = 0 => AloneCallOK(price)
    BY <1>6, <1>8, <2>2 DEF AloneCallOK, Executable, Opening
  <2> QED BY <1>6, <1>7, <1>8, <2>1, <2>3
<1>9. CASE GoTo(c, Idle)
  BY <1>7, <1>9, IdleFacts DEF AloneCallOK
<1> QED BY <1>5, <1>8, <1>9

LEMMA ActivatePriceIInv ==
  ASSUME IInv, NEW c \in Calls, ActivatePrice(c)
  PROVE  IInv'
<1>1. PICK old \in Call : old = calls[c]
  BY CallFacts
<1>2. PICK ref \in Nat : ref = memory.last + 1
  BY DEF IInv, Types, Memory
<1> DEFINE call == [old EXCEPT !.at = "account", !.ref = ref]
<1>3. /\ old.at = "price" /\ GoTo(c, call) /\ UNCHANGED <<use, db, events>>
      /\ memory' = [last |-> ref, known |-> memory.known \cup {ref}]
  BY <1>1, <1>2 DEF ActivatePrice
<1>4. call \in Call /\ call.at = "account" /\ call.p = old.p /\ call.a = old.a
  BY DEF Call, Places
<1>5. memory' \in Memory
  BY <1>2, <1>3 DEF IInv, Types, Memory
<1> HIDE DEF call
<1>6. Moves(c, call) /\ calls[c].at # "metric" /\ ~Opening(calls[c])
  BY <1>1, <1>3, <1>4 DEF Moves, Opening
<1>7. PlanCallOK(call)
  BY <1>1, <1>3, <1>4, CallFacts DEF PlanCallOK, Opening
<1>8. use.load = 1 /\ use.restarts = 0 => AloneCallOK(call)
  BY <1>1, <1>3, <1>4, CallFacts DEF AloneCallOK, Opening
<1>9. Grown /\ db' \in DB
  BY <1>3 DEF Grown, IInv, Types
<1>10. ModelsOK' /\ PlansOK' /\ ApprovalsOK' /\ AccountsOK' /\ PlanCallOK(call)'
  BY <1>3, <1>7 DEF IInv, Planning, ModelsOK, PlansOK, ApprovalsOK, AccountsOK, PlanCallOK, Granted, HasAccount
<1>11. Alone'
  <2>1. CASE use.load = 1 /\ use.restarts = 0
    <3>1. AloneCallOK(call)'
      BY <1>3, <1>8, <2>1 DEF AloneCallOK, HasAccount
    <3> QED BY <1>3, <1>6, <1>9, <3>1, AloneStep
  <2>2. CASE ~(use.load = 1 /\ use.restarts = 0)
    BY <1>3, <2>2 DEF Alone
  <2> QED BY <2>1, <2>2
<1> QED BY <1>3, <1>4, <1>5, <1>6, <1>9, <1>10, <1>11, PlanStepIInv

LEMMA ActivateAccountIInv ==
  ASSUME IInv, NEW c \in Calls, ActivateAccount(c)
  PROVE  IInv'
<1>1. PICK old \in Call : old = calls[c]
  BY CallFacts
<1>2. PICK p, a, ref : p = old.p /\ a = old.a /\ ref = old.ref
  OBVIOUS
<1> DEFINE new == NewBillingAccount(p, a, ref)
<1> DEFINE call == [old EXCEPT !.at = "active"]
<1>3. /\ old.at = "account" /\ GoTo(c, call) /\ UNCHANGED <<use, memory, events>>
      /\ db' = [db EXCEPT !.accounts = Append(@, new)]
  BY <1>1, <1>2 DEF ActivateAccount
<1>4. p \in DOMAIN db.plans /\ Granted(a, p)
  BY <1>1, <1>2, <1>3, CallFacts DEF PlanCallOK
<1>5. new \in Account /\ new.plan = p /\ new.approval = a
  BY <1>2 DEF NewBillingAccount, Account, Call
<1>6. call \in Call /\ call.at = "active" /\ call.p = p
  BY <1>2 DEF Call, Places
<1>7. db.accounts \in Seq(Account) /\ db'.accounts = Append(db.accounts, new) /\ db' = [db EXCEPT !.accounts = db'.accounts]
  BY <1>3 DEF IInv, Types, DB
<1> HIDE DEF new, call
<1>8. PICK size \in Nat : size = Len(db.accounts) + 1 /\ DOMAIN db.accounts = 1 .. (size - 1)
  <2>1. Len(db.accounts) \in Nat /\ DOMAIN db.accounts = 1 .. Len(db.accounts)
    BY <1>7, LenProperties
  <2>2. Len(db.accounts) + 1 \in Nat /\ DOMAIN db.accounts = 1 .. ((Len(db.accounts) + 1) - 1)
    BY <2>1
  <2> QED BY <2>2
<1>9. /\ db'.accounts \in Seq(Account) /\ DOMAIN db'.accounts = 1 .. size /\ db'.accounts[size] = new
      /\ \A i \in DOMAIN db.accounts : db'.accounts[i] = db.accounts[i]
      /\ \A i \in DOMAIN db'.accounts : i = size \/ i \in DOMAIN db.accounts
  BY <1>5, <1>7, <1>8
<1>10. PICK accounts : accounts = db'.accounts
  OBVIOUS
<1>11. /\ db' \in DB
       /\ db'.claims = db.claims /\ db'.models = db.models /\ db'.plans = db.plans /\ db'.approvals = db.approvals
       /\ db'.deliveries = db.deliveries /\ db'.revenue = db.revenue
  BY <1>7, <1>9, <1>10 DEF IInv, Types, DB
<1>12. Grown
  BY <1>8, <1>9, <1>11 DEF Grown
<1>13. ModelsOK' /\ PlansOK' /\ ApprovalsOK'
  BY <1>11, <1>12, GrownFacts DEF IInv, Planning, ModelsOK, PlansOK, ApprovalsOK
<1>14. AccountsOK'
  BY <1>4, <1>5, <1>9, <1>11 DEF IInv, Planning, AccountsOK, Granted
<1>15. PlanCallOK(call)'
  <2>1. HasAccount(p)'
    BY <1>5, <1>8, <1>9 DEF HasAccount
  <2> QED BY <1>4, <1>6, <1>11, <2>1 DEF PlanCallOK, Opening
<1>16. Moves(c, call) /\ calls[c].at # "metric"
  BY <1>1, <1>3, <1>6 DEF Moves
<1>17. Alone'
  <2> SUFFICES ASSUME use.load = 1 /\ use.restarts = 0 PROVE Alone'
    BY <1>3 DEF Alone
  <2>1. db.plans[p].status = "HUMAN_APPROVED" /\ ~HasAccount(p)
    BY <1>1, <1>2, <1>3, CallFacts DEF AloneCallOK
  <2>2. calls'[c] = call /\ \A d \in Calls \ {c} : calls'[d] = calls[d] /\ calls[d].at = "idle"
    BY <1>3, <1>16, MovesFacts DEF IInv
  <2>3. \A d \in Calls : AloneCallOK(calls[d])'
    BY <1>6, <1>11, <2>1, <2>2 DEF AloneCallOK, Opening
  <2>4. (\A i, j \in DOMAIN db.accounts : db.accounts[i].plan = db.accounts[j].plan => i = j)'
    BY <1>5, <1>9, <2>1 DEF IInv, Alone, HasAccount
  <2>5. ASSUME NEW i \in DOMAIN db'.accounts
        PROVE  \/ db'.plans[db'.accounts[i].plan].status = "ACTIVE"
               \/ \E d \in Calls : Opening(calls'[d]) /\ calls'[d].p = db'.accounts[i].plan
    <3>1. CASE i = size
      BY <1>5, <1>6, <1>9, <2>2, <3>1 DEF Opening
    <3>2. CASE i \in DOMAIN db.accounts
      <4>1. ~Opening(calls[c]) /\ \A d \in Calls \ {c} : ~Opening(calls[d])
        BY <1>1, <1>3, <2>2 DEF Opening
      <4> QED BY <1>9, <1>11, <3>2, <4>1 DEF IInv, Alone
    <3> QED BY <1>9, <3>1, <3>2
  <2> QED BY <2>3, <2>4, <2>5 DEF Alone, Opening
<1>18. memory' \in Memory
  BY <1>3 DEF IInv, Types
<1> QED BY <1>3, <1>6, <1>11, <1>12, <1>13, <1>14, <1>15, <1>16, <1>17, <1>18, PlanStepIInv

LEMMA ActivateReadIInv ==
  ASSUME IInv, NEW c \in Calls, ActivateRead(c)
  PROVE  IInv'
<1>1. PICK old \in Call : old = calls[c]
  BY CallFacts
<1>2. old.at = "active" /\ old.p \in DOMAIN db.plans /\ HasAccount(old.p)
  BY <1>1, CallFacts DEF ActivateRead, PlanCallOK, Opening
<1>3. PICK may \in BOOLEAN : may <=> "ACTIVE" \in BILLING_PLAN_STATUS_TRANSITIONS[db.plans[old.p].status]
  OBVIOUS
<1> DEFINE write == [old EXCEPT !.at = "planWrite", !.to = "ACTIVE"]
<1>4. UNCHANGED <<use, db, memory, events>> /\ (IF may THEN GoTo(c, write) ELSE GoTo(c, Idle))
  BY <1>1, <1>3 DEF ActivateRead, Return
<1>5. write \in Call /\ write.at = "planWrite" /\ write.p = old.p /\ write.to = "ACTIVE"
  BY DEF Call, Places, PlanStatus
<1> HIDE DEF write
<1>6. use.load = 1 /\ use.restarts = 0 => db.plans[old.p].status = "HUMAN_APPROVED" /\ may
  <2>1. use.load = 1 /\ use.restarts = 0 => db.plans[old.p].status = "HUMAN_APPROVED"
    BY <1>1, <1>2, CallFacts DEF AloneCallOK, Opening
  <2>2. "ACTIVE" \in BILLING_PLAN_STATUS_TRANSITIONS["HUMAN_APPROVED"]
    BY DEF BILLING_PLAN_STATUS_TRANSITIONS, PlanStatus
  <2> QED BY <1>3, <2>1, <2>2
<1>7. PlanCallOK(write)
  BY <1>2, <1>5 DEF PlanCallOK
<1>8. use.load = 1 /\ use.restarts = 0 => AloneCallOK(write)
  BY <1>5, <1>6 DEF AloneCallOK
<1>9. CASE may
  <2>1. Moves(c, write) /\ calls[c].at # "metric" /\ Opening(write) /\ write.p = calls[c].p
    BY <1>1, <1>2, <1>4, <1>5, <1>9 DEF Moves, Opening
  <2> QED BY <1>4, <1>5, <1>7, <1>8, <2>1, PlanReadIInv
<1>10. CASE ~may
  <2>1. Moves(c, Idle) /\ calls[c].at # "metric"
    BY <1>1, <1>2, <1>4, <1>10, IdleFacts DEF Moves
  <2> QED BY <1>4, <1>6, <1>10, <2>1, IdleFacts, PlanReadIInv
<1> QED BY <1>9, <1>10

-----------------------------------------------------------------------------
(* Steps of a webhook's call.                                              *)

LEMMA WebhookStepIInv ==
  ASSUME IInv, NEW c \in Calls, NEW call, Moves(c, call), UNCHANGED <<use, memory, events>>, db' \in DB,
         {calls[c].at, call.at} \subseteq {"idle", "delivery", "metric"},
         db'.claims = db.claims, db'.models = db.models, db'.plans = db.plans, db'.approvals = db.approvals,
         db'.accounts = db.accounts, Webhooks'
  PROVE  IInv'
<1>1. /\ calls' \in [Calls -> Call] /\ calls'[c] = call /\ OneInFlight'
      /\ \A d \in Calls \ {c} : calls'[d] = calls[d]
  BY MovesFacts DEF IInv
<1>2. Types'
  BY <1>1 DEF IInv, Types
<1>3. Grown
  BY DEF Grown
<1>4. (\A d \in Calls : PlanCallOK(calls[d]))'
  <2>1. \A d \in Calls \cap {c} : PlanCallOK(calls[d])'
    BY <1>1 DEF PlanCallOK, Opening
  <2> QED BY <1>1, <1>3, <2>1, PlanCalls DEF IInv
<1>5. Planning'
  BY <1>4 DEF IInv, Planning, ModelsOK, PlansOK, ApprovalsOK, AccountsOK, Granted, HasAccount
<1>6. Alone'
  BY <1>3, AloneQuiet DEF Opening
<1> QED BY <1>1, <1>2, <1>5, <1>6 DEF IInv

LEMMA WebhookIInv ==
  ASSUME IsFiniteSet(Calls), IInv, NEW c \in Calls, NEW e \in DOMAIN events, Webhook(c, e)
  PROVE  IInv'
<1> DEFINE call == [Idle EXCEPT !.at = "delivery", !.e = e]
<1>1. e \in Nat
  BY DEF IInv, Types
<1>2. call \in Call /\ call.at = "delivery" /\ call.e = e
  <2>1. call \in Call
    BY <1>1, IdleFacts DEF Call, Places
  <2> QED BY <2>1 DEF Idle
<1>3. GoTo(c, call) /\ UNCHANGED <<use, db, memory, events>> /\ calls[c].at = "idle"
  BY DEF Webhook
<1> HIDE DEF call
<1>4. Moves(c, call)
  BY <1>2, <1>3, MayFacts DEF Webhook, IInv, Moves
<1>5. calls'[c] = call /\ \A d \in Calls \ {c} : calls'[d] = calls[d]
  BY <1>3, <1>4, MovesFacts DEF IInv
<1>6. WebhookCallOK(calls[c])'
  BY <1>2, <1>3, <1>5 DEF WebhookCallOK
<1>7. Webhooks'
  <2>1. \A d \in Calls \cap {c} : calls[d].at # "metric" /\ calls'[d].at # "metric" /\ WebhookCallOK(calls[d])'
    BY <1>2, <1>3, <1>5, <1>6
  <2> QED BY <1>3, <1>5, <2>1, WebhooksFrame DEF IInv
<1>8. db' \in DB
  BY <1>3 DEF IInv, Types
<1> QED BY <1>2, <1>3, <1>4, <1>7, <1>8, WebhookStepIInv

LEMMA DeliveryCreateIInv ==
  ASSUME IInv, NEW c \in Calls, NEW late \in BOOLEAN, DeliveryCreate(c, late)
  PROVE  IInv'
<1>1. PICK old \in Call : old = calls[c]
  BY CallFacts
<1>2. PICK e : e = old.e
  OBVIOUS
<1>3. old.at = "delivery" /\ e \in DOMAIN events /\ e \in Nat
  BY <1>1, <1>2 DEF DeliveryCreate, IInv, Webhooks, WebhookCallOK, Call
<1>4. PICK valid \in BOOLEAN : valid = verifyWebhookSignature(late)
  BY DEF verifyWebhookSignature
<1> DEFINE new == NewWebhookDelivery(e, valid)
<1> DEFINE count == [old EXCEPT !.at = "metric"]
<1>5. count \in Call /\ count.at = "metric" /\ count.e = e
  BY <1>2 DEF Call, Places
<1>6. new \in Delivery /\ new.event = e /\ new.valid = valid /\ new = [event |-> e, valid |-> valid]
  BY <1>3 DEF NewWebhookDelivery, Delivery
<1>7. UNCHANGED <<use, memory, events>>
  BY DEF DeliveryCreate
<1>8. CASE Seen(e)
  <2>1. GoTo(c, Idle) /\ UNCHANGED db
    BY <1>1, <1>2, <1>8 DEF DeliveryCreate, Return
  <2>2. Moves(c, Idle)
    BY <1>1, <1>3, <2>1, IdleFacts DEF Moves
  <2>3. calls'[c] = Idle /\ \A d \in Calls \ {c} : calls'[d] = calls[d]
    BY <1>7, <2>2, MovesFacts DEF IInv
  <2>4. \A d \in Calls \cap {c} : calls[d].at # "metric" /\ calls'[d].at # "metric" /\ WebhookCallOK(calls[d])'
    BY <1>1, <1>3, <2>3, IdleFacts DEF WebhookCallOK
  <2>5. Webhooks'
    BY <1>7, <2>1, <2>3, <2>4, WebhooksFrame DEF IInv
  <2>6. db' \in DB
    BY <2>1 DEF IInv, Types
  <2> QED BY <1>1, <1>3, <1>7, <2>1, <2>2, <2>5, <2>6, IdleFacts, WebhookStepIInv
<1>9. CASE ~Seen(e)
  <2>1. PICK kept \in BOOLEAN : kept <=> (valid /\ events[e].type = "subscription.created")
    OBVIOUS
  <2>2. /\ db' = [db EXCEPT !.deliveries = @ \cup {new}]
        /\ IF kept THEN GoTo(c, count) ELSE GoTo(c, Idle)
    BY <1>1, <1>2, <1>4, <1>9, <2>1 DEF DeliveryCreate, Return
  <2> HIDE DEF new, count
  <2>3. PICK call \in Call : GoTo(c, call) /\ (IF kept THEN call = count ELSE call = Idle)
    BY <1>5, <2>2, IdleFacts
  <2>4. Moves(c, call) /\ call.at \in {"idle", "metric"} /\ (call.at = "metric" <=> kept) /\ (kept => call.e = e)
    BY <1>1, <1>3, <1>5, <2>3, IdleFacts DEF Moves
  <2>5. calls'[c] = call /\ \A d \in Calls \ {c} : calls'[d] = calls[d]
    BY <1>7, <2>4, MovesFacts DEF IInv
  <2>6. /\ db' \in DB /\ db'.deliveries = db.deliveries \cup {new} /\ db'.revenue = db.revenue
        /\ db'.claims = db.claims /\ db'.models = db.models /\ db'.plans = db.plans /\ db'.approvals = db.approvals
        /\ db'.accounts = db.accounts
    BY <1>6, <2>2 DEF IInv, Types, DB
  <2>7. \A f : Accepted(f) => Accepted(f)'
    BY <1>7, <2>6 DEF Accepted
  <2>8. \A f : Counted(f)' <=> Counted(f)
    BY <2>6 DEF Counted
  <2>9. kept => Accepted(e)'
    BY <1>3, <1>6, <1>7, <2>1, <2>6 DEF Accepted
  <2>10. ~Counted(e) /\ \A d \in Calls : ~Counting(d, e)
    <3>1. ~Accepted(e)
      BY <1>9 DEF Accepted, Seen
    <3> QED BY <3>1 DEF IInv, Webhooks, RevenueOK, Counted, Counting, WebhookCallOK
  <2>11. \A d \in Calls \ {c} : \A f : Counting(d, f)' <=> Counting(d, f)
    BY <2>5 DEF Counting
  <2>12. \A f : Counting(c, f)' <=> (kept /\ f = e)
    BY <2>4, <2>5 DEF Counting
  <2>13. \A f : ~Counting(c, f)
    BY <1>1, <1>3 DEF Counting
  <2>14. ASSUME NEW d \in Calls PROVE WebhookCallOK(calls[d])'
    <3>1. CASE d = c
      BY <2>4, <2>5, <2>8, <2>9, <2>10, <3>1 DEF WebhookCallOK
    <3>2. CASE d # c
      <4>1. PICK other : other = calls[d]
        OBVIOUS
      <4>2. WebhookCallOK(other)
        BY <4>1 DEF IInv, Webhooks
      <4>3. WebhookCallOK(other)'
        BY <1>7, <2>7, <2>8, <4>2 DEF WebhookCallOK
      <4>4. calls'[d] = other
        BY <2>5, <3>2, <4>1
      <4> QED BY <4>3, <4>4 DEF WebhookCallOK, Accepted, Counted
    <3> QED BY <3>1, <3>2
  <2>15. EventsOK' /\ DeliveriesOK' /\ RevenueOK'
    BY <1>3, <1>6, <1>7, <2>6, <2>7 DEF IInv, Webhooks, EventsOK, DeliveriesOK, RevenueOK
  <2>16. CountedOnce'
    <3> SUFFICES ASSUME NEW b \in Calls, NEW d \in Calls, NEW f \in DOMAIN events, Counting(b, f)', Counting(d, f)'
                 PROVE  b = d
      BY <1>7 DEF CountedOnce
    <3>1. CASE f = e
      BY <2>10, <2>11, <3>1
    <3>2. CASE f # e
      BY <2>11, <2>12, <3>2 DEF IInv, Webhooks, CountedOnce
    <3> QED BY <3>1, <3>2
  <2>17. NoneMissing'
    <3> SUFFICES ASSUME use.restarts = use.crashes, NEW d \in db'.deliveries, d.valid,
                        events[d.event].type = "subscription.created"
                 PROVE  (Counted(d.event) \/ \E b \in Calls : Counting(b, d.event))'
      BY <1>7 DEF NoneMissing
    <3>1. PICK f : f = d.event
      OBVIOUS
    <3>2. CASE d = new
      BY <1>6, <2>1, <2>12, <3>1, <3>2
    <3>3. CASE d \in db.deliveries
      <4>1. Counted(f) \/ \E b \in Calls : Counting(b, f)
        BY <3>1, <3>3 DEF IInv, Webhooks, NoneMissing
      <4>2. Counted(f)' \/ \E b \in Calls : Counting(b, f)'
        BY <2>8, <2>11, <2>13, <4>1
      <4> QED BY <3>1, <4>2
    <3> QED BY <2>6, <3>2, <3>3
  <2>18. Webhooks'
    BY <2>14, <2>15, <2>16, <2>17 DEF Webhooks
  <2> QED BY <1>1, <1>3, <1>7, <2>4, <2>6, <2>18, WebhookStepIInv
<1> QED BY <1>8, <1>9

LEMMA MetricCreateIInv ==
  ASSUME IInv, NEW c \in Calls, MetricCreate(c)
  PROVE  IInv'
<1>1. PICK old \in Call : old = calls[c]
  BY CallFacts
<1>2. PICK e : e = old.e
  OBVIOUS
<1>3. old.at = "metric" /\ Accepted(e) /\ ~Counted(e) /\ e \in Nat
  BY <1>1, <1>2 DEF MetricCreate, IInv, Webhooks, WebhookCallOK, Call
<1>4. /\ GoTo(c, Idle) /\ UNCHANGED <<use, memory, events>>
      /\ db' = [db EXCEPT !.revenue = Append(@, e)]
  BY <1>1, <1>2 DEF MetricCreate, Return
<1>5. db.revenue \in Seq(Nat) /\ db'.revenue = Append(db.revenue, e) /\ db' = [db EXCEPT !.revenue = db'.revenue]
  BY <1>4 DEF IInv, Types, DB
<1>6. PICK size \in Nat : size = Len(db.revenue) + 1 /\ DOMAIN db.revenue = 1 .. (size - 1)
  <2>1. Len(db.revenue) \in Nat /\ DOMAIN db.revenue = 1 .. Len(db.revenue)
    BY <1>5, LenProperties
  <2>2. Len(db.revenue) + 1 \in Nat /\ DOMAIN db.revenue = 1 .. ((Len(db.revenue) + 1) - 1)
    BY <2>1
  <2> QED BY <2>2
<1>7. /\ db'.revenue \in Seq(Nat) /\ DOMAIN db'.revenue = 1 .. size /\ db'.revenue[size] = e
      /\ \A i \in DOMAIN db.revenue : db'.revenue[i] = db.revenue[i]
      /\ \A i \in DOMAIN db'.revenue : i = size \/ i \in DOMAIN db.revenue
  BY <1>3, <1>5, <1>6
<1>8. PICK revenue : revenue = db'.revenue
  OBVIOUS
<1>9. /\ db' \in DB /\ db'.deliveries = db.deliveries
      /\ db'.claims = db.claims /\ db'.models = db.models /\ db'.plans = db.plans /\ db'.approvals = db.approvals
      /\ db'.accounts = db.accounts
  BY <1>5, <1>7, <1>8 DEF IInv, Types, DB
<1>10. Moves(c, Idle)
  BY <1>1, <1>3, <1>4, IdleFacts DEF Moves
<1>11. calls'[c] = Idle /\ \A d \in Calls \ {c} : calls'[d] = calls[d]
  BY <1>4, <1>10, MovesFacts DEF IInv
<1>12. \A f : Accepted(f)' <=> Accepted(f)
  BY <1>4, <1>9 DEF Accepted
<1>13. \A f : Counted(f)' <=> (Counted(f) \/ f = e)
  BY <1>6, <1>7, SMTT(60) DEF Counted
<1>14. \A d \in Calls \ {c} : \A f : Counting(d, f)' <=> Counting(d, f)
  BY <1>11 DEF Counting
<1>15. \A f : ~Counting(c, f)'
  BY <1>11, IdleFacts DEF Counting
<1>16. Counting(c, e) /\ e \in DOMAIN events /\ \A f : Counting(c, f) => f = e
  BY <1>1, <1>2, <1>3 DEF Counting, Accepted
<1>17. \A d \in Calls \ {c} : ~Counting(d, e)
  BY <1>16 DEF IInv, Webhooks, CountedOnce
<1>18. ASSUME NEW d \in Calls PROVE WebhookCallOK(calls[d])'
  <2>1. CASE d = c
    BY <1>11, <2>1, IdleFacts DEF WebhookCallOK
  <2>2. CASE d # c
    <3>1. PICK other : other = calls[d]
      OBVIOUS
    <3>2. WebhookCallOK(other) /\ (other.at = "metric" => other.e # e)
      BY <1>17, <2>2, <3>1 DEF IInv, Webhooks, Counting
    <3>3. WebhookCallOK(other)'
      BY <1>4, <1>12, <1>13, <3>2 DEF WebhookCallOK
    <3>4. calls'[d] = other
      BY <1>11, <2>2, <3>1
    <3> QED BY <3>3, <3>4 DEF WebhookCallOK, Accepted, Counted
  <2> QED BY <2>1, <2>2
<1>19. EventsOK' /\ DeliveriesOK'
  BY <1>4, <1>9 DEF IInv, Webhooks, EventsOK, DeliveriesOK
<1>20. RevenueOK'
  <2>1. ASSUME NEW i \in DOMAIN db'.revenue PROVE Accepted(db'.revenue[i])
    BY <1>3, <1>7 DEF IInv, Webhooks, RevenueOK
  <2>2. ASSUME NEW i \in DOMAIN db'.revenue, NEW j \in DOMAIN db'.revenue, db'.revenue[i] = db'.revenue[j] PROVE i = j
    BY <1>3, <1>7, <2>2 DEF IInv, Webhooks, RevenueOK, Counted
  <2> QED BY <1>4, <1>9, <2>1, <2>2 DEF RevenueOK, Accepted
<1>21. CountedOnce'
  BY <1>4, <1>14, <1>15 DEF IInv, Webhooks, CountedOnce
<1>22. NoneMissing'
  <2> SUFFICES ASSUME use.restarts = use.crashes, NEW d \in db.deliveries, d.valid,
                      events[d.event].type = "subscription.created"
               PROVE  (Counted(d.event) \/ \E b \in Calls : Counting(b, d.event))'
    BY <1>4, <1>9 DEF NoneMissing
  <2>1. PICK f : f = d.event
    OBVIOUS
  <2>2. Counted(f) \/ \E b \in Calls : Counting(b, f)
    BY <2>1 DEF IInv, Webhooks, NoneMissing
  <2>3. Counted(f)' \/ \E b \in Calls : Counting(b, f)'
    BY <1>13, <1>14, <1>16, <2>2
  <2> QED BY <1>9, <2>1, <2>3
<1>23. Webhooks'
  BY <1>18, <1>19, <1>20, <1>21, <1>22 DEF Webhooks
<1> QED BY <1>1, <1>3, <1>4, <1>9, <1>10, <1>23, IdleFacts, WebhookStepIInv

-----------------------------------------------------------------------------
(* The beginning.                                                          *)

LEMMA Least ==
  ASSUME NEW S \in SUBSET Nat, S # {}
  PROVE  \E i \in S : \A j \in S : i <= j
<1> DEFINE R == OpToRel(<, Nat)
<1>1. IsWellFoundedOn(R, Nat)
  BY NatLessThanWellFounded, Zenon
<1>2. \A x, y \in Nat : x < y => <<x, y>> \in R
  BY DEF OpToRel
<1> HIDE DEF R
<1>3. \E x \in S : \A y \in S : <<y, x>> \notin R
  BY <1>1, WFMin, Zenon
<1>4. PICK x \in S : \A y \in S : <<y, x>> \notin R
  BY <1>3
<1>5. \A y \in S : ~(y < x)
  BY <1>2, <1>4, Zenon
<1>6. \A y \in S : y \in Nat /\ x \in Nat
  OBVIOUS
<1> QED BY <1>5, <1>6

(* The pricing of the fixture rests on a claim the opportunity has.        *)
LEMMA FixtureFacts ==
  ASSUME NEW claims \in Seq(Claim), claims # <<>>
  PROVE  /\ DevPricingFixture(claims).price \in Nat
         /\ DevPricingFixture(claims).grounds \subseteq DOMAIN claims
<1> DEFINE willingness == {i \in DOMAIN claims : claims[i].type = "WILLINGNESS_TO_PAY"}
<1> DEFINE first(S) == CHOOSE i \in S : \A j \in S : i <= j
<1> DEFINE ground == IF willingness # {} THEN first(willingness) ELSE 1
<1>1. 1 \in DOMAIN claims
  <2>1. Len(claims) \in Nat /\ DOMAIN claims = 1 .. Len(claims) /\ Len(claims) # 0
    BY LenProperties, EmptySeq
  <2> QED BY <2>1
<1>2. willingness \in SUBSET Nat
  OBVIOUS
<1>3. willingness # {} => first(willingness) \in willingness
  BY <1>2, Least
<1>4. ground \in DOMAIN claims
  BY <1>1, <1>3
<1>5. DevPricingFixture(claims).grounds = {ground}
  BY DEF DevPricingFixture
<1>6. DevPricingFixture(claims).price \in Nat
  BY DEF DevPricingFixture
<1> QED BY <1>4, <1>5, <1>6

LEMMA InitIInv ==
  ASSUME BillingConstants, BillingInit
  PROVE  IInv
<1>1. use \in Use /\ use.crashes = use.restarts /\ ("price" \notin use.ops => use.claims # <<>>)
  BY DEF BillingConstants, BillingInit
<1>2. use.claims \in Seq(Claim) /\ use.crashes \in Nat
  BY <1>1 DEF Use
<1>3. PICK models : models = IF "price" \in use.ops THEN <<>>
                             ELSE <<NewPricingModel(DevPricingFixture(use.claims).price, DevPricingFixture(use.claims).grounds)>>
  OBVIOUS
<1>4. db = [claims |-> use.claims, models |-> models, plans |-> <<>>, approvals |-> <<>>, accounts |-> <<>>,
            deliveries |-> {}, revenue |-> <<>>, halted |-> FALSE]
  BY <1>3 DEF BillingInit
<1>5. models \in Seq(Model) /\ \A m \in DOMAIN models : models[m].grounds \subseteq DOMAIN use.claims
  <2>1. CASE "price" \in use.ops
    BY <1>3, <2>1
  <2>2. CASE "price" \notin use.ops
    <3>1. PICK price \in Nat, grounds \in SUBSET DOMAIN use.claims :
            price = DevPricingFixture(use.claims).price /\ grounds = DevPricingFixture(use.claims).grounds
      BY <1>1, <1>2, <2>2, FixtureFacts
    <3>2. DOMAIN use.claims \subseteq Nat
      BY <1>2
    <3>3. NewPricingModel(price, grounds) \in Model /\ NewPricingModel(price, grounds).grounds = grounds
      BY <3>2 DEF NewPricingModel, Model
    <3>4. models = <<NewPricingModel(price, grounds)>>
      BY <1>3, <2>2, <3>1
    <3> QED BY <3>3, <3>4
  <2> QED BY <2>1, <2>2
<1>6. db \in DB
  BY <1>2, <1>4, <1>5 DEF DB
<1>7. memory \in Memory /\ events \in Seq(Event) /\ events = <<>> /\ \A c \in Calls : calls[c] = Idle
  BY DEF BillingInit, Memory
<1>8. Types
  BY <1>1, <1>2, <1>6, <1>7, IdleFacts DEF Types, BillingInit
<1>9. OneInFlight /\ \A c \in Calls : PlanCallOK(calls[c])
  BY <1>7, IdleFacts DEF OneInFlight
<1>10. Planning
  BY <1>4, <1>5, <1>9 DEF Planning, ModelsOK, PlansOK, ApprovalsOK, AccountsOK
<1>11. Alone
  BY <1>4, <1>7, IdleFacts DEF Alone, AloneCallOK, Opening
<1>12. Webhooks
  BY <1>4, <1>7, IdleFacts DEF Webhooks, EventsOK, DeliveriesOK, RevenueOK, CountedOnce, Counting, NoneMissing, WebhookCallOK
<1> QED BY <1>8, <1>9, <1>10, <1>11, <1>12 DEF IInv

LEMMA NextIInv ==
  ASSUME BillingConstants, IInv, [BillingNext]_vars
  PROVE  IInv'
<1> USE DEF BillingConstants
<1>1. CASE UNCHANGED vars
  <2>1. Types' /\ OneInFlight'
    BY <1>1 DEF vars, IInv, Types, OneInFlight
  <2>2. Planning'
    BY <1>1 DEF vars, IInv, Planning, ModelsOK, PlansOK, ApprovalsOK, AccountsOK, PlanCallOK, Granted, HasAccount, Opening
  <2>3. Alone'
    BY <1>1 DEF vars, IInv, Alone, AloneCallOK, HasAccount, Opening
  <2>4. Webhooks'
    BY <1>1 DEF vars, IInv, Webhooks, EventsOK, DeliveriesOK, RevenueOK, CountedOnce, Counting, NoneMissing,
       WebhookCallOK, Accepted, Counted
  <2> QED BY <2>1, <2>2, <2>3, <2>4 DEF IInv
<1>2. CASE \E answer \in PricingAnswers(db.claims) : RunPricingAgent(answer)
  BY <1>2, RunPricingAgentIInv
<1>3. CASE \E model \in DOMAIN db.models : CreatePlan(model)
  BY <1>3, CreatePlanIInv
<1>4. CASE \E account \in DOMAIN db.accounts : RecordSubscriptionFixture(account) \/ OtherEvent(account)
  BY <1>4, ProviderIInv
<1>5. CASE \E a \in DOMAIN db.approvals : Lapse(a)
  BY <1>5, LapseIInv
<1>6. CASE Halt \/ Restart
  BY <1>6, HaltIInv, RestartIInv
<1>7. ASSUME NEW c \in Calls, PlanStep(c) PROVE IInv'
  BY <1>7, RequestApprovalIInv, AttachApprovalIInv, DecideIInv, ApplyDecisionIInv, ApplyReadIInv, PlanWriteIInv DEF PlanStep
<1>8. ASSUME NEW c \in Calls, ActivationStep(c) PROVE IInv'
  BY <1>8, ActivateIInv, ActivateCheckIInv, ActivatePriceIInv, ActivateAccountIInv, ActivateReadIInv DEF ActivationStep
<1>9. ASSUME NEW c \in Calls, WebhookStep(c) PROVE IInv'
  BY <1>9, WebhookIInv, DeliveryCreateIInv, MetricCreateIInv DEF WebhookStep
<1> QED BY <1>1, <1>2, <1>3, <1>4, <1>5, <1>6, <1>7, <1>8, <1>9 DEF BillingNext

-----------------------------------------------------------------------------
(* The theorems.                                                           *)

(* Every row of the tables is of its type and refers to rows that are      *)
(* there (billing-plan.service, billing-activation.service, webhook).      *)
THEOREM RowsAreTyped == BillingConstants /\ BillingSpec => []BillingTypeOK
<1> SUFFICES ASSUME BillingConstants PROVE BillingSpec => []BillingTypeOK
  OBVIOUS
<1>1. IInv => BillingTypeOK
  <2> SUFFICES ASSUME IInv PROVE BillingTypeOK
    OBVIOUS
  <2>1. \A p \in DOMAIN db.plans : db.plans[p] \in Plan
    BY DEF IInv, Types, DB
  <2>2. \A a \in DOMAIN db.approvals : db.approvals[a] \in Approval
    BY DEF IInv, Types, DB
  <2>3. DOMAIN BILLING_PLAN_STATUS_TRANSITIONS = PlanStatus
    BY DEF BILLING_PLAN_STATUS_TRANSITIONS
  <2>4. db.deliveries \subseteq [event : DOMAIN events, valid : BOOLEAN]
    <3>1. \A d \in db.deliveries : d \in Delivery /\ d.event \in DOMAIN events
      BY DEF IInv, Types, DB, Webhooks, DeliveriesOK
    <3> QED BY <3>1 DEF Delivery
  <2> QED BY <2>1, <2>2, <2>3, <2>4 DEF IInv, Planning, PlansOK, ApprovalsOK, BillingTypeOK, Plan, Approval
<1>2. BillingInit => IInv
  BY InitIInv
<1>3. IInv /\ [BillingNext]_vars => IInv'
  BY NextIInv
<1> QED BY <1>1, <1>2, <1>3, PTL DEF BillingSpec

(* A customer is charged what a human agreed to, and revenue is what was   *)
(* really earned: every account was opened under an approved request of    *)
(* its own plan, at a price that rests on claims the opportunity has, only *)
(* a plan with an account is ACTIVE, and calls made one after the other    *)
(* without a restart open one account for each plan; each event is counted *)
(* once, if its message verified, whatever the network does with it, and   *)
(* an accepted subscription is missing only while its call is on the way,  *)
(* or after a restart.                                                     *)
THEOREM ChargesAndRevenueHold == BillingConstants /\ BillingSpec => []AccountsAndRevenueAreBacked
<1> SUFFICES ASSUME BillingConstants PROVE BillingSpec => []AccountsAndRevenueAreBacked
  OBVIOUS
<1>1. IInv => AccountsAndRevenueAreBacked
  <2> SUFFICES ASSUME IInv PROVE AccountsAndRevenueAreBacked
    OBVIOUS
  <2>1. AccountsAreBacked
    <3>1. ASSUME NEW i \in DOMAIN db.accounts
          PROVE  /\ db.accounts[i].approval # 0
                 /\ db.approvals[db.accounts[i].approval].plan = db.accounts[i].plan
                 /\ db.approvals[db.accounts[i].approval].status = "APPROVED"
                 /\ db.models[db.plans[db.accounts[i].plan].model].grounds \subseteq DOMAIN db.claims
      <4>1. DOMAIN db.approvals \subseteq Nat \ {0}
        BY DEF IInv, Types, DB
      <4> QED BY <4>1 DEF IInv, Planning, ModelsOK, PlansOK, AccountsOK, Granted
    <3>2. \A p \in DOMAIN db.plans : db.plans[p].status = "ACTIVE" => HasAccount(p)
      BY DEF IInv, Planning, PlansOK
    <3>3. use.load = 1 /\ use.restarts = 0 =>
            \A i, j \in DOMAIN db.accounts : db.accounts[i].plan = db.accounts[j].plan => i = j
      BY DEF IInv, Alone
    <3> QED BY <3>1, <3>2, <3>3 DEF AccountsAreBacked, HasAccount
  <2>2. EventsCountOnce
    <3>1. \A i \in DOMAIN db.revenue : events[db.revenue[i]].account \in DOMAIN db.accounts /\ Accepted(db.revenue[i])
      BY DEF IInv, Webhooks, RevenueOK, EventsOK, Accepted
    <3>2. \A i, j \in DOMAIN db.revenue : db.revenue[i] = db.revenue[j] => i = j
      BY DEF IInv, Webhooks, RevenueOK
    <3>3. NoneMissing
      BY DEF IInv, Webhooks
    <3> QED BY <3>1, <3>2, <3>3 DEF EventsCountOnce, NoneMissing, Counted, Counting, Accepted
  <2> QED BY <2>1, <2>2 DEF AccountsAndRevenueAreBacked
<1>2. BillingInit => IInv
  BY InitIInv
<1>3. IInv /\ [BillingNext]_vars => IInv'
  BY NextIInv
<1> QED BY <1>1, <1>2, <1>3, PTL DEF BillingSpec
=============================================================================
