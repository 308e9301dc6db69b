------------------------------- MODULE Access -------------------------------
(***************************************************************************)
(* Who may do what: identities and their bearer tokens, the middleware     *)
(* that resolves a token to an actor, the routers' guards, and the agent   *)
(* registry with its status and permission grants.                         *)
(*                                                                         *)
(* The middleware runs before the handler: an identity can be revoked, or  *)
(* expire, while a call it made is on the way. A call gives way at every   *)
(* write and between a read and the write that rests on it; the audit      *)
(* entry is a write of its own, after the one it reports.                  *)
(***************************************************************************)
EXTENDS Integers, Sequences, FiniteSets

CONSTANTS
  Calls,                                     \* requests that may be in flight
  MaxIdentities, MaxAgents, MaxGrants,       \* bounds
  Uses                                       \* the ways the component is used, one for each behaviour

VARIABLES
  use,        \* [ops, load, crashes, restarts, identities, agents]: what may be called, how many calls at a time, ...
  db,         \* the tables, see AccessInit
  calls,      \* call -> where it is
  performed   \* history: the last route that was let through, and for whom

vars == <<use, db, calls, performed>>

IdentityTypes == {"HUMAN", "AGENT", "SYSTEM"}
Status        == {"ACTIVE", "PAUSED", "SUSPENDED", "RETIRED"}

AGENT_STATUS_TRANSITIONS == [s \in Status |-> IF s = "RETIRED" THEN {} ELSE Status \ {s}]

(* The rows of the tables, and the ways to use the component.              *)
Identity == [type : IdentityTypes, agent : Nat, by : Nat, status : {"ACTIVE", "REVOKED"}, expired : BOOLEAN]
Agent    == [status : Status]
Grant    == [agent : Nat, by : Nat, revoked : BOOLEAN]
Use      == [ops : SUBSET STRING, load : Nat, crashes : Nat, restarts : Nat, identities : Seq(Identity), agents : Seq(Agent)]

(* A maker is an earlier HUMAN; whoever has none is HUMAN, and the first   *)
(* if alone.                                                               *)
MadeByHumans(identities, alone) ==
  \A i \in DOMAIN identities :
    LET by == identities[i].by
    IN  IF by = 0 THEN identities[i].type = "HUMAN" /\ (alone => i = 1)
        ELSE by < i /\ identities[by].type = "HUMAN"

(* The tables a behaviour starts from are such as the component leaves     *)
(* behind, with nothing revoked and every agent ACTIVE.                    *)
Founded(u) ==
  /\ u \in Use /\ u.crashes = u.restarts
  /\ \A i \in DOMAIN u.identities : u.identities[i].status = "ACTIVE" /\ u.identities[i].agent \in {0} \cup DOMAIN u.agents
  /\ \A x \in DOMAIN u.agents : u.agents[x].status = "ACTIVE"
  /\ MadeByHumans(u.identities, u.load = 1)

(* What is assumed of the constants.                                       *)
AccessConstants == IsFiniteSet(Calls) /\ \A u \in Uses : Founded(u)

Anonymous == [type |-> "NONE", id |-> 0, identity |-> 0]
Idle == [at |-> "idle", actor |-> Anonymous, x |-> 0, to |-> "none", was |-> "none"]
May(op, c) ==
  /\ op \in use.ops /\ calls[c].at = "idle"
  /\ Cardinality({d \in Calls : calls[d].at # "idle"}) < use.load
GoTo(c, call) == calls' = [calls EXCEPT ![c] = call]
Return(c) == GoTo(c, Idle)

NewIdentity(type, agent, by) == [type |-> type, agent |-> agent, by |-> by, status |-> "ACTIVE", expired |-> FALSE]
NewAgent == [status |-> "ACTIVE"]
NewGrant(x, by) == [agent |-> x, by |-> by, revoked |-> FALSE]
AuditEntry(action, x, actor) == [action |-> action, x |-> x, type |-> actor.type, id |-> actor.id]

AccessInit ==
  /\ use \in Uses
  /\ db = [identities |-> use.identities, agents |-> use.agents, grants |-> <<>>, audit |-> {}]
  /\ calls = [c \in Calls |-> Idle]
  /\ performed = [route |-> <<"none", "none">>, type |-> "NONE"]

-----------------------------------------------------------------------------
(* The middleware. identityService.authenticate; the id of an AGENT actor  *)
(* is its agent's, whatever the agent's status.                            *)

Authentic(i) == i \in DOMAIN db.identities /\ db.identities[i].status = "ACTIVE" /\ ~db.identities[i].expired

authenticate(i) ==
  LET identity == db.identities[i]
  IN  [type |-> identity.type, id |-> IF identity.type = "AGENT" THEN identity.agent ELSE i, identity |-> i]

assertHumanActor(actor) == actor.type = "HUMAN"

(* What lets a request of identity i into a handler.                       *)
requireAuth(i) == Authentic(i)

(* Mutation of requireHuman: any verified identity will do.                *)
requireHuman_Any(i) == Authentic(i)

requireHuman(i) == Authentic(i) /\ assertHumanActor(authenticate(i))

(* No header at all is an anonymous caller; a bad token is refused.        *)
tryAuthenticate(i) == i = 0 \/ Authentic(i)

Actor(i) == IF i = 0 THEN Anonymous ELSE authenticate(i)
Callers == {0} \cup DOMAIN db.identities

-----------------------------------------------------------------------------
(* The routers: the operations that change state, by the guard in front of *)
(* them. What the handlers do is in the module of the component. The one   *)
(* other that changes state is the billing webhook, which asks for the     *)
(* sender's signature in place of a token.                                 *)

Human(router, ops) == {[route |-> <<router, op>>, guard |-> "human"] : op \in ops}
Any(router, ops) == {[route |-> <<router, op>>, guard |-> "any"] : op \in ops}

alertsRouter == Any("alerts", {"acknowledge"})
authorizeRouter == Any("authorize", {"authorize"})
billingAccountsRouter == Human("billing-accounts", {"subscription-fixture"})
billingPlansRouter == Any("billing-plans", {"create", "request-approval"}) \cup Human("billing-plans", {"apply-decision", "activate"})
businessMetricsRouter == Any("business-metrics", {"create"})
businessReviewMemosRouter == Human("business-review-memos", {"decision"})
ceoRecommendationsRouter == Any("ceo-recommendations", {"request-approval", "investment-memo"})
claimsRouter == Any("claims", {"validate"})
companyRouter == Any("company", {"briefing"}) \cup Human("company", {"decide"})
controlPlaneRouter == Human("control-plane", {"emergency-stop", "resume"})
customerDiscoveryInteractionsRouter ==
  Any("customer-discovery-interactions", {"findings"}) \cup Human("customer-discovery-interactions", {"create", "outcome"})
customerDiscoveryMemosRouter == Any("customer-discovery-memos", {"create"}) \cup Human("customer-discovery-memos", {"decide"})
customerResponsesRouter == Any("customer-responses", {"analyze"}) \cup Human("customer-responses", {"create"})
decisionCyclesRouter == Human("decision-cycles", {"create"})
decisionRecordsRouter == Human("decision-records", {"create"})
decisionsRouter == Human("decisions", {"approve", "reject", "modify", "defer", "request-more-evidence", "requeue"})
deploymentPlansRouter == Any("deployment-plans", {"request-approval"}) \cup Human("deployment-plans", {"apply-decision", "execute"})
deploymentsRouter == Any("deployments", {"health-check"}) \cup Human("deployments", {"rollback"})
discoveryExperimentsRouter == Any("discovery-experiments", {"run"})
evidenceRouter == Any("evidence", {"create", "verification"})
founderRouter == Any("founder", {"refresh", "review"})
growthExperimentsRouter ==
  Any("growth-experiments", {"request-approval", "complete"}) \cup Human("growth-experiments", {"apply-decision", "approve-to-run"})
icpProfilesRouter == Any("icp-profiles", {"create"})
incidentsRouter == Any("incidents", {"create", "status"})
launchReviewMemosRouter == Human("launch-review-memos", {"decide"})
learningRouter == Any("learning", {"outcomes", "evaluate"})
operatingCyclesRouter ==
  Any("operating-cycles", {"create", "begin", "advance", "run-next-stage", "route-to-awaiting-human", "resume", "retry"})
  \cup Human("operating-cycles", {"resume-from-awaiting-human", "pause", "cancel"})
opportunitiesRouter ==
  Any("opportunities", {"create", "evidence", "score", "status", "validation-level", "chairman-review", "request-approval",
                        "ceo-customer-discovery-recommendation"})
outreachExperimentsRouter == Human("outreach-experiments", {"create", "approve", "status"})
outreachMessagesRouter ==
  Any("outreach-messages", {"create", "request-approval"}) \cup Human("outreach-messages", {"apply-decision", "mark-contacted"})
portfolioRouter == Any("portfolio", {"analyze"})
predictionOutcomesRouter == Any("prediction-outcomes", {"create", "resolve"})
productReviewMemosRouter == Human("product-review-memos", {"decide"})
productsRouter ==
  Any("products", {"create", "analyze-business", "propose-experiment"}) \cup Human("products", {"approve", "build", "plan-launch"})
prospectResearchImportRouter == Human("prospect-research", {"import"})
prospectsRouter == Any("prospects", {"create", "qualify"}) \cup Human("prospects", {"do-not-contact"})
researchCyclesRouter == Human("research-cycles", {"create"})
researchRouter == Human("research", {"create"})
researchSignalsRouter == Any("research-signals", {"create"})
supportCasesRouter == Any("support-cases", {"create", "triage", "status"})
tasksRouter == Any("tasks", {"create", "transition"})

Routes ==
  alertsRouter \cup authorizeRouter \cup billingAccountsRouter \cup billingPlansRouter \cup businessMetricsRouter
  \cup businessReviewMemosRouter \cup ceoRecommendationsRouter \cup claimsRouter \cup companyRouter \cup controlPlaneRouter \cup customerDiscoveryInteractionsRouter
  \cup customerDiscoveryMemosRouter \cup customerResponsesRouter \cup decisionCyclesRouter \cup decisionRecordsRouter
  \cup decisionsRouter \cup deploymentPlansRouter \cup deploymentsRouter \cup discoveryExperimentsRouter \cup evidenceRouter
  \cup founderRouter \cup growthExperimentsRouter \cup icpProfilesRouter \cup incidentsRouter \cup launchReviewMemosRouter
  \cup learningRouter \cup operatingCyclesRouter \cup opportunitiesRouter \cup outreachExperimentsRouter
  \cup outreachMessagesRouter \cup portfolioRouter \cup predictionOutcomesRouter \cup productReviewMemosRouter \cup productsRouter
  \cup prospectResearchImportRouter \cup prospectsRouter \cup researchCyclesRouter \cup researchRouter \cup researchSignalsRouter
  \cup supportCasesRouter \cup tasksRouter

(* A request on its way to the handler of another component.               *)
Perform(c, i, r) ==
  /\ May("perform", c)
  /\ IF r.guard = "human" THEN requireHuman(i) ELSE requireAuth(i)
  /\ performed' = [route |-> r.route, type |-> db.identities[i].type]
  /\ UNCHANGED <<use, db, calls>>

-----------------------------------------------------------------------------
(* identityService. The table is counted, the agent looked up, the row     *)
(* written.                                                                *)

CreateIdentity(c, i, type, agent) ==
  /\ May("createIdentity", c) /\ tryAuthenticate(i)
  /\ IF db.identities = <<>> THEN type = "HUMAN" ELSE assertHumanActor(Actor(i))
  /\ type = "AGENT" <=> agent # 0
  /\ GoTo(c, [Idle EXCEPT !.at = "identity", !.actor = Actor(i), !.x = agent, !.to = type])
  /\ UNCHANGED <<use, db, performed>>

CreateIdentityWrite(c) ==
  LET call == calls[c]
  IN  /\ call.at = "identity" /\ Len(db.identities) < MaxIdentities
      /\ db' = [db EXCEPT !.identities = Append(@, NewIdentity(call.to, call.x, call.actor.identity))]
      /\ GoTo(c, [call EXCEPT !.at = "audit", !.x = Len(db.identities) + 1, !.to = "CREATE_IDENTITY"])
      /\ UNCHANGED <<use, performed>>

RevokeIdentity(c, i, x) ==
  /\ May("revokeIdentity", c) /\ requireHuman(i) /\ assertHumanActor(Actor(i))
  /\ db' = [db EXCEPT !.identities[x].status = "REVOKED"]
  /\ GoTo(c, [Idle EXCEPT !.at = "audit", !.actor = Actor(i), !.x = x, !.to = "REVOKE_IDENTITY"])
  /\ UNCHANGED <<use, performed>>

Expire(x) ==
  /\ "expire" \in use.ops /\ Authentic(x)
  /\ db' = [db EXCEPT !.identities[x].expired = TRUE]
  /\ UNCHANGED <<use, calls, performed>>

-----------------------------------------------------------------------------
(* agentService.                                                           *)

CreateAgent(c, i) ==
  /\ May("createAgent", c) /\ requireHuman(i) /\ assertHumanActor(Actor(i)) /\ Len(db.agents) < MaxAgents
  /\ db' = [db EXCEPT !.agents = Append(@, NewAgent)]
  /\ GoTo(c, [Idle EXCEPT !.at = "audit", !.actor = Actor(i), !.x = Len(db.agents) + 1, !.to = "CREATE_AGENT"])
  /\ UNCHANGED <<use, performed>>

TransitionStatus(c, i, x, to) ==
  /\ May("status", c) /\ requireAuth(i)
  /\ to \in AGENT_STATUS_TRANSITIONS[db.agents[x].status]
  /\ GoTo(c, [Idle EXCEPT !.at = "status", !.actor = Actor(i), !.x = x, !.to = to, !.was = db.agents[x].status])
  /\ UNCHANGED <<use, db, performed>>

TransitionStatusWrite(c) ==
  LET call == calls[c]
  IN  /\ call.at = "status"
      /\ db' = [db EXCEPT !.agents[call.x].status = call.to]
      /\ GoTo(c, [call EXCEPT !.at = "audit"])
      /\ UNCHANGED <<use, performed>>

hasActivePermission(x) == \E g \in DOMAIN db.grants : db.grants[g].agent = x /\ ~db.grants[g].revoked

(* Mutation of GrantPermission: the same permission again.                 *)
GrantPermission_Again(c, i, x) ==
  /\ May("grant", c) /\ requireHuman(i) /\ assertHumanActor(Actor(i))
  /\ GoTo(c, [Idle EXCEPT !.at = "grant", !.actor = Actor(i), !.x = x])
  /\ UNCHANGED <<use, db, performed>>

GrantPermission(c, i, x) ==
  /\ May("grant", c) /\ requireHuman(i) /\ assertHumanActor(Actor(i))
  /\ ~hasActivePermission(x)
  /\ GoTo(c, [Idle EXCEPT !.at = "grant", !.actor = Actor(i), !.x = x])
  /\ UNCHANGED <<use, db, performed>>

GrantPermissionWrite(c) ==
  LET call == calls[c]
  IN  /\ call.at = "grant" /\ Len(db.grants) < MaxGrants
      /\ db' = [db EXCEPT !.grants = Append(@, NewGrant(call.x, call.actor.id))]
      /\ GoTo(c, [call EXCEPT !.at = "audit", !.to = "GRANT_PERMISSION"])
      /\ UNCHANGED <<use, performed>>

RevokePermission(c, i, g) ==
  /\ May("revoke", c) /\ requireHuman(i) /\ assertHumanActor(Actor(i))
  /\ ~db.grants[g].revoked
  /\ GoTo(c, [Idle EXCEPT !.at = "revoke", !.actor = Actor(i), !.x = g])
  /\ UNCHANGED <<use, db, performed>>

RevokePermissionWrite(c) ==
  LET call == calls[c]
  IN  /\ call.at = "revoke"
      /\ db' = [db EXCEPT !.grants[call.x].revoked = TRUE]
      /\ GoTo(c, [call EXCEPT !.at = "audit", !.x = db.grants[call.x].agent, !.to = "REVOKE_PERMISSION"])
      /\ UNCHANGED <<use, performed>>

-----------------------------------------------------------------------------
(* auditService.record; of two equal entries one is kept.                  *)
Record(c) ==
  /\ calls[c].at = "audit"
  /\ db' = [db EXCEPT !.audit = @ \cup {AuditEntry(calls[c].to, calls[c].x, calls[c].actor)}]
  /\ Return(c)
  /\ UNCHANGED <<use, performed>>

Restart ==
  /\ use.crashes > 0
  /\ use' = [use EXCEPT !.crashes = @ - 1]
  /\ calls' = [c \in Calls |-> Idle]
  /\ UNCHANGED <<db, performed>>

IdentityStep(c) ==
  \/ \E i \in Callers, type \in IdentityTypes, agent \in {0} \cup DOMAIN db.agents : CreateIdentity(c, i, type, agent)
  \/ CreateIdentityWrite(c)
  \/ \E i \in Callers, x \in DOMAIN db.identities : RevokeIdentity(c, i, x)

AgentStep(c) ==
  \/ \E i \in Callers : CreateAgent(c, i)
  \/ \E i \in Callers, x \in DOMAIN db.agents, to \in DOMAIN AGENT_STATUS_TRANSITIONS : TransitionStatus(c, i, x, to)
  \/ TransitionStatusWrite(c)
  \/ \E i \in Callers, x \in DOMAIN db.agents : GrantPermission(c, i, x)
  \/ GrantPermissionWrite(c)
  \/ \E i \in Callers, g \in DOMAIN db.grants : RevokePermission(c, i, g)
  \/ RevokePermissionWrite(c)

AccessNext ==
  \/ \E x \in DOMAIN db.identities : Expire(x)
  \/ Restart
  \/ \E c \in Calls :
       \/ IdentityStep(c) \/ AgentStep(c) \/ Record(c)
       \/ \E i \in Callers, r \in Routes : Perform(c, i, r)

AccessSpec == AccessInit /\ [][AccessNext]_vars

-----------------------------------------------------------------------------
(* Properties.                                                             *)

AccessTypeOK ==
  /\ \A i \in DOMAIN db.identities :
       /\ db.identities[i].type \in IdentityTypes /\ db.identities[i].status \in {"ACTIVE", "REVOKED"}
       /\ db.identities[i].agent \in {0} \cup DOMAIN db.agents
  /\ \A x \in DOMAIN db.agents : db.agents[x].status \in DOMAIN AGENT_STATUS_TRANSITIONS
  /\ \A g \in DOMAIN db.grants : db.grants[g].agent \in DOMAIN db.agents /\ db.grants[g].by \in DOMAIN db.identities

(* What the code reserves to a human: the verdicts, the steps that act on  *)
(* the world, and the switch.                                              *)
HumanDecisions ==
  {<<"decisions", op>> : op \in {"approve", "reject", "modify", "defer", "request-more-evidence", "requeue"}}
  \cup {<<r, "apply-decision">> : r \in {"billing-plans", "deployment-plans", "growth-experiments", "outreach-messages"}}
  \cup {<<r, "decide">> : r \in {"company", "customer-discovery-memos", "launch-review-memos", "product-review-memos"}}
  \cup {<<"business-review-memos", "decision">>, <<"decision-records", "create">>, <<"deployment-plans", "execute">>,
        <<"deployments", "rollback">>, <<"billing-plans", "activate">>, <<"growth-experiments", "approve-to-run">>,
        <<"products", "approve">>, <<"products", "build">>, <<"outreach-experiments", "approve">>,
        <<"prospects", "do-not-contact">>, <<"control-plane", "emergency-stop">>, <<"control-plane", "resume">>,
        <<"operating-cycles", "pause">>, <<"operating-cycles", "cancel">>, <<"operating-cycles", "resume-from-awaiting-human">>}

(* Authority comes from a human. Every identity but the first was made by  *)
(* an earlier identity that is HUMAN, the first is HUMAN itself and alone  *)
(* in having no maker when calls come one at a time; a permission was      *)
(* granted by a HUMAN; and what the code reserves to a human was let       *)
(* through for a HUMAN.                                                    *)
AuthorityIsHuman ==
  /\ MadeByHumans(db.identities, use.load = 1)
  /\ \A g \in DOMAIN db.grants : db.identities[db.grants[g].by].type = "HUMAN"
  /\ performed.route \in HumanDecisions => performed.type = "HUMAN"

(* Credentials, grants and the registry agree with the audit log: an       *)
(* identity, an agent or a grant that is there, a revocation, and a status *)
(* other than the first each have their entry, unless the call that wrote  *)
(* it is on the way to the log or a restart ended it; and when calls come  *)
(* one at a time an agent holds a permission at most once.                 *)
ChangesAreAudited ==
  LET logged(action, x) ==
        \/ \E e \in db.audit : e.action = action /\ e.x = x
        \/ \E c \in Calls : calls[c].at = "audit" /\ calls[c].to = action /\ calls[c].x = x
  IN  /\ use.restarts = use.crashes =>
           /\ \A i \in DOMAIN db.identities \ DOMAIN use.identities : logged("CREATE_IDENTITY", i)
           /\ \A i \in DOMAIN db.identities : db.identities[i].status = "REVOKED" => logged("REVOKE_IDENTITY", i)
           /\ \A x \in DOMAIN db.agents \ DOMAIN use.agents : logged("CREATE_AGENT", x)
           /\ \A x \in DOMAIN db.agents : db.agents[x].status # "ACTIVE" => logged(db.agents[x].status, x)
           /\ \A g \in DOMAIN db.grants :
                /\ logged("GRANT_PERMISSION", db.grants[g].agent)
                /\ db.grants[g].revoked => logged("REVOKE_PERMISSION", db.grants[g].agent)
      /\ use.load = 1 => \A g, h \in DOMAIN db.grants :
                           db.grants[g].agent = db.grants[h].agent /\ ~db.grants[g].revoked /\ ~db.grants[h].revoked => g = h

(* Both together: who has authority, and that what gave it is on record.   *)
AuthorityIsHumanAndAudited == AuthorityIsHuman /\ ChangesAreAudited
=============================================================================
