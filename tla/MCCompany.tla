----------------------------- MODULE MCCompany -----------------------------
(***************************************************************************)
(* A small instance of Company: the ways each component is used.           *)
(***************************************************************************)
EXTENDS Company, TLC

CONSTANTS c1, c2

TwoCalls == {c1, c2}
CallSymmetry == Permutations(TwoCalls)

-----------------------------------------------------------------------------
(* Outreach.                                                               *)

OutreachUse(ops, load, crashes, rows, auto, found) ==
  [ops |-> ops, load |-> load, crashes |-> crashes, restarts |-> crashes, rows |-> rows, auto |-> auto, found |-> found]

Prospect(status) == <<[status |-> status, source |-> "s1"]>>
Messaging == {"draft", "request", "decide"}
AllOutreach ==
  Messaging \cup {"discover", "qualify", "doNotContact", "experiment", "apply", "contact", "send", "respond", "analyze"}

OutreachInstance ==
  {OutreachUse({"discover", "import", "doNotContact", "experiment"}, 2, 0, 1, FALSE, <<>>),
   OutreachUse({"qualify", "doNotContact", "draft"}, 2, 0, 2, FALSE, Prospect("DISCOVERED")),
   OutreachUse(Messaging \cup {"apply", "contact"}, 2, 0, 1, FALSE, Prospect("QUALIFIED")),
   OutreachUse(Messaging \cup {"send"}, 2, 0, 1, TRUE, Prospect("QUALIFIED")),
   OutreachUse(Messaging \cup {"respond"}, 2, 0, 1, TRUE, Prospect("QUALIFIED")),
   OutreachUse(Messaging \cup {"apply", "contact", "send", "respond", "analyze", "lapse", "halt"}, 1, 1, 1, TRUE, Prospect("QUALIFIED")),
   OutreachUse(AllOutreach, 1, 0, 2, FALSE, <<>>)}

-----------------------------------------------------------------------------
(* Billing.                                                                *)

BillingUse(ops, load, crashes, rows, auto, claims) ==
  [ops |-> ops, load |-> load, crashes |-> crashes, restarts |-> crashes, rows |-> rows, auto |-> auto, claims |-> claims]

Pain(status) == <<[type |-> "PAIN", status |-> status]>>
Willing(status) == Pain("SUPPORTED") \o <<[type |-> "WILLINGNESS_TO_PAY", status |-> status]>>
Billed == {"plan", "request", "decide"}

BillingInstance ==
  {BillingUse(Billed \cup {"apply"}, 2, 0, 2, FALSE, Pain("WEAK")),
   BillingUse(Billed \cup {"apply", "activate", "lapse"}, 2, 0, 2, TRUE, Willing("WEAK")),
   BillingUse(Billed \cup {"events"}, 2, 0, 1, TRUE, Willing("SUPPORTED")),
   BillingUse(Billed \cup {"price", "apply", "activate", "lapse", "halt"}, 1, 0, 1, FALSE, Willing("SUPPORTED")),
   BillingUse(Billed \cup {"activate", "events"}, 1, 1, 1, TRUE, Willing("WEAK"))}

-----------------------------------------------------------------------------
(* Product factory.                                                        *)

FactoryUse(ops, load, builds, restarts, faults, vary) ==
  [ops |-> ops, load |-> load, builds |-> builds, restarts |-> restarts, faults |-> faults, vary |-> vary]

FactoryInstance ==
  {FactoryUse({"create", "approve", "build"}, 2, 2, 0, 0, {}),
   FactoryUse({"create", "approve", "build", "decide"}, 2, 1, 0, 0, {}),
   FactoryUse({"create", "approve", "build", "decide"}, 1, 1, 1, 2, {"specify", "design"}),
   FactoryUse({"create", "approve", "build", "decide"}, 1, 1, 0, 1, {"engineer"}),
   FactoryUse({"create", "approve", "build"}, 1, 1, 0, 1, {"review", "qa", "secure"}),
   FactoryUse({"create", "approve", "build"}, 1, 1, 0, 0, {"engineer", "secure", "recommend"})}

-----------------------------------------------------------------------------
(* Claims, evidence and the decision about an opportunity.                 *)

Said(signal) == [source |-> "CUSTOMER", org |-> "acme", tone |-> "for", said |-> signal, conf |-> 60]
Objection == [source |-> "CUSTOMER", org |-> "acme", tone |-> "against", said |-> "OBJECTION", conf |-> 60]
Found(tone) == [source |-> "WEB", org |-> "none", tone |-> tone, said |-> "none", conf |-> 50]
DecisionUse(ops, load, starts, crashes, faults, vary, extracted) ==
  [ops |-> ops, load |-> load, starts |-> starts, crashes |-> crashes, restarts |-> crashes, faults |-> faults, vary |-> vary,
   items |-> {Said("INTEREST"), Said("WTP")}, types |-> <<"CUSTOMER_PROBLEM", "WILLINGNESS_TO_PAY">>,
   found |-> {Found("for"), Found("against")}, extracted |-> extracted, recs |-> <<>>,
   budget |-> [claims |-> 1, searches |-> 1, models |-> 2, research |-> 1]]
KillRecommended == [action |-> "KILL", cited |-> {1}]

DecisionInstance ==
  {[DecisionUse({"evidence", "validate"}, 2, 4, 0, 0, {}, TRUE) EXCEPT !.budget.searches = 0],
   DecisionUse({"evidence", "validate"}, 1, 3, 0, 1, {"validate"}, TRUE),
   [DecisionUse({"evidence", "validate"}, 1, 3, 0, 0, {}, TRUE) EXCEPT !.items = {Objection, Said("WTP")}],
   [DecisionUse({"cycle"}, 1, 2, 1, 0, {"ceo", "grant", "slow"}, FALSE) EXCEPT !.types = @ \o <<"CUSTOMER_SEGMENT">>],
   [DecisionUse({"cycle"}, 1, 1, 0, 2, {"validate"}, FALSE) EXCEPT !.types = @ \o <<"CUSTOMER_SEGMENT">>, !.budget.models = 1],
   [DecisionUse({"cycle"}, 2, 2, 0, 0, {}, TRUE) EXCEPT !.found = {}],
   [DecisionUse({"request", "ask", "decide", "apply", "move"}, 2, 6, 0, 0, {}, TRUE) EXCEPT !.recs = <<KillRecommended>>],
   [DecisionUse({"request", "decide", "apply", "move"}, 1, 5, 1, 0, {}, TRUE) EXCEPT !.recs = <<KillRecommended>>],
   [DecisionUse({"score", "level", "review", "memo", "discovery", "evidence", "request", "decide", "apply"}, 1, 4, 0, 0, {}, TRUE)
      EXCEPT !.recs = <<KillRecommended>>]}

-----------------------------------------------------------------------------
(* Identities, guards and the agent registry.                              *)

AccessUse(ops, load, crashes, identities, agents) ==
  [ops |-> ops, load |-> load, crashes |-> crashes, restarts |-> crashes, identities |-> identities, agents |-> agents]
Owner == [type |-> "HUMAN", agent |-> 0, by |-> 0, status |-> "ACTIVE", expired |-> FALSE]
Worker == [Owner EXCEPT !.type = "AGENT", !.agent = 1, !.by = 1]
Registered == [status |-> "ACTIVE"]

AccessInstance ==
  {AccessUse({"createIdentity"}, 2, 0, <<>>, <<>>),
   AccessUse({"createIdentity", "revokeIdentity"}, 2, 0, <<Owner, [Owner EXCEPT !.by = 1]>>, <<>>),
   AccessUse({"createIdentity", "createAgent", "expire"}, 1, 1, <<>>, <<>>),
   AccessUse({"perform", "revokeIdentity"}, 1, 0, <<Owner, Worker, [Worker EXCEPT !.type = "SYSTEM", !.agent = 0]>>, <<Registered>>),
   AccessUse({"status"}, 2, 0, <<Owner>>, <<Registered>>),
   AccessUse({"grant", "revoke", "status"}, 1, 1, <<Owner>>, <<Registered>>),
   AccessUse({"grant", "revoke"}, 2, 0, <<Owner>>, <<Registered>>)}

-----------------------------------------------------------------------------
(* The founder's desk.                                                     *)

DeskUse(ops, load, crashes) == [ops |-> ops, load |-> load, crashes |-> crashes, restarts |-> crashes]

DeskInstance ==
  {DeskUse({"raise", "day", "acknowledge"}, 2, 0),
   DeskUse({"incident", "raise", "day", "status"}, 1, 1),
   DeskUse({"task", "status"}, 2, 0),
   DeskUse({"case", "triage", "status"}, 1, 0),
   DeskUse({"decide", "refresh", "review"}, 1, 0),
   DeskUse({"refresh", "raise", "acknowledge"}, 2, 0)}

-----------------------------------------------------------------------------
(* Research.                                                               *)

ResearchUse(ops, load, starts, crashes, faults, vary, batches, models, seeded) ==
  [ops |-> ops, load |-> load, starts |-> starts, crashes |-> crashes, restarts |-> crashes, mishaps |-> faults, faults |-> faults,
   vary |-> vary, batches |-> batches, budget |-> [signals |-> 3, tools |-> 2, models |-> models], seeded |-> seeded]
Post(text, near, url, group) == [text |-> text, near |-> near, url |-> url, group |-> group, theme |-> "t", source |-> "web"]
P1 == Post("a", "a", "u1", "g1")
P2 == Post("b", "b", "u2", "g2")
SameThread == Post("c", "c", "none", "g1")
NearlyP1 == Post("d", "a", "u4", "none")
RepostOfP2 == Post("e", "e", "u2", "none")
Alone == Post("f", "f", "u5", "none")
Elsewhere == [Alone EXCEPT !.theme = "u"]
Empty == Post("empty", "empty", "u6", "none")
Unnamed == [Alone EXCEPT !.source = "none"]

ResearchInstance ==
  {ResearchUse({"cycle"}, 1, 2, 0, 0, {"grant", "slow", "confidence"}, {<<P1, P2, Empty>>, <<P1, SameThread>>, <<P1, P2, Elsewhere>>}, 2, TRUE),
   ResearchUse({"cycle", "requeue"}, 1, 3, 1, 0, {}, {<<P1, P2>>, <<Alone>>}, 9, TRUE),
   ResearchUse({"cycle"}, 1, 2, 0, 1, {}, {<<P1, P2>>, <<Alone>>}, 9, TRUE),
   ResearchUse({"cycle", "import", "collect"}, 1, 3, 0, 0, {}, {<<P1, RepostOfP2>>, <<P2, NearlyP1, Unnamed>>, <<P2, Elsewhere>>}, 9, FALSE),
   ResearchUse({"cycle", "import", "intake"}, 1, 3, 0, 1, {}, {<<P1, P2>>, <<Elsewhere, SameThread>>}, 9, FALSE),
   ResearchUse({"cycle", "validate"}, 1, 3, 0, 0, {}, {<<P1, P2>>, <<Alone, Empty>>}, 9, TRUE),
   ResearchUse({"import", "collect"}, 2, 2, 0, 0, {}, {<<P1, NearlyP1>>, <<P2, SameThread>>}, 9, FALSE),
   ResearchUse({"cycle"}, 2, 2, 0, 0, {}, {<<P1>>}, 1, TRUE),
   [ResearchUse({"cycle"}, 1, 1, 0, 1, {"queries"}, {<<P1, P2>>, <<P1, SameThread>>}, 3, TRUE) EXCEPT !.budget.tools = 1],
   ResearchUse({"cycle", "import"}, 2, 2, 0, 0, {}, {<<P1>>, <<P2>>}, 9, FALSE),
   ResearchUse({"collect", "import"}, 2, 2, 0, 0, {}, {<<P1, P2>>, <<RepostOfP2, SameThread>>}, 9, FALSE),
   ResearchUse({"requeue", "cycle"}, 2, 2, 0, 0, {}, {<<>>}, 9, TRUE)}

-----------------------------------------------------------------------------
(* Growth experiments.                                                     *)

GrowthUse(ops, load, crashes, faults, rows, auto, measured) ==
  [ops |-> ops, load |-> load, crashes |-> crashes, restarts |-> crashes, mishaps |-> faults, faults |-> faults, rows |-> rows, auto |-> auto,
   claims |-> <<[importance |-> "HIGH", status |-> "UNVERIFIED"], [importance |-> "CRITICAL", status |-> "SUPPORTED"]>>,
   measured |-> measured]
Saw(baseline, value, sample) == [baseline |-> baseline, value |-> value, sample |-> sample]
Deciding == {"propose", "request", "decide", "apply", "run"}

GrowthInstance ==
  {GrowthUse(Deciding, 2, 0, 0, 1, FALSE, {}),
   GrowthUse(Deciding \cup {"complete"}, 2, 0, 0, 1, TRUE, {Saw(20, 23, 30)}),
   GrowthUse(Deciding \cup {"complete", "lapse", "halt"}, 1, 0, 1, 1, FALSE, {Saw(20, 22, 30), Saw(0, 9, 30), Saw(20, 9, 29)}),
   GrowthUse(Deciding \cup {"complete"}, 1, 1, 0, 2, TRUE, {Saw(20, 17, 40)})}

-----------------------------------------------------------------------------
(* Predictions, memos and lessons.                                         *)

PredictionUse(ops, load, crashes, rows, types, values, memos) ==
  [ops |-> ops, load |-> load, crashes |-> crashes, restarts |-> crashes, rows |-> rows, types |-> types, values |-> values, memos |-> memos]
Memo(action) == [action |-> action, decision |-> "none"]

PredictionInstance ==
  {PredictionUse({"record", "metric", "sweep"}, 2, 0, 1, {"MRR", "CHURN_RATE"}, {0, 6, 8}, <<>>),
   PredictionUse({"record", "metric", "sweep", "resolve"}, 1, 1, 1, {"MRR"}, {6, 8}, <<>>),
   PredictionUse({"record", "metric", "sweep"}, 1, 0, 2, {"MRR"}, {6, 8}, <<>>),
   PredictionUse({"memo"}, 2, 0, 1, {}, {}, <<Memo("KILL"), Memo("INVEST")>>),
   PredictionUse({"memo", "learn", "expect", "evaluate"}, 1, 1, 1, {}, {6, 8}, <<Memo("PREPARE_KILL_REVIEW"), Memo("INVEST")>>)}

-----------------------------------------------------------------------------
(* Customer discovery.                                                     *)

DiscoveryUse(ops, load, starts, crashes, faults, vary, prospects) ==
  [ops |-> ops, load |-> load, starts |-> starts, crashes |-> crashes, restarts |-> crashes, mishaps |-> faults, faults |-> faults,
   vary |-> vary, told |-> {}, talks |-> <<>>, unfound |-> {}, target |-> 0, prospects |-> prospects, agents |-> <<>>]
Known(org) == [org |-> org, status |-> "CONTACTED"]
Talk(field, provenance) == [field |-> field, provenance |-> provenance]
Talked == [i \in 1 .. 3 |-> [prospect |-> i, reality |-> "REAL", outcome |-> IF i = 1 THEN "PROBLEM_CONFIRMED" ELSE "none"]]
Staff == <<"ICP Analyst", "Prospect Researcher", "Prospect Qualification", "Message Drafter">>

DiscoveryInstance ==
  {[DiscoveryUse({"record", "find"}, 2, 4, 0, 0, {}, <<Known("acme")>>)
      EXCEPT !.told = {Talk("WORKFLOW", "OBSERVED"), Talk("WORKFLOW", "INFERRED"), Talk("CUSTOMER_LANGUAGE", "OBSERVED")}],
   [DiscoveryUse({"record", "find"}, 1, 3, 1, 0, {"strength"}, <<Known("acme")>>) EXCEPT !.told = {Talk("WORKFLOW", "OBSERVED")}],
   [DiscoveryUse({"outcome", "find", "evaluate"}, 1, 3, 0, 0, {}, <<Known("acme"), Known("acme"), Known("bolt")>>)
      EXCEPT !.talks = Talked, !.told = {Talk("TIME_COST", "OBSERVED"), Talk("VOLUME", "OBSERVED"), Talk("EXISTING_SPEND", "INFERRED")}],
   [DiscoveryUse({"outcome", "find", "evaluate"}, 2, 3, 0, 0, {}, <<Known("acme"), Known("bolt"), Known("none")>>)
      EXCEPT !.talks = Talked, !.told = {Talk("WILLINGNESS_TO_PAY", "OBSERVED")}],
   DiscoveryUse({"icp", "validate"}, 2, 3, 0, 0, {}, <<>>),
   DiscoveryUse({"icp", "validate"}, 1, 4, 1, 1, {}, <<>>),
   DiscoveryUse({"icp"}, 1, 2, 0, 0, {"icp"}, <<>>),
   [DiscoveryUse({"run"}, 2, 2, 0, 0, {}, <<>>) EXCEPT !.unfound = {"acme"}, !.target = 1, !.agents = SubSeq(Staff, 1, 3)],
   [DiscoveryUse({"run", "end", "doNotContact"}, 2, 2, 0, 1, {}, <<>>)
      EXCEPT !.unfound = {"acme", "bolt"}, !.target = 2, !.agents = Staff],
   [DiscoveryUse({"run"}, 1, 2, 1, 1, {}, <<>>) EXCEPT !.unfound = {"acme", "bolt", "cask"}, !.target = 2],
   DiscoveryUse({"memo", "decide"}, 1, 3, 1, 0, {}, <<>>),
   DiscoveryUse({"memo", "decide"}, 2, 3, 0, 0, {}, <<>>)}

-----------------------------------------------------------------------------
(* Rows, channels and limits.                                              *)

OneRow == {1}
TwoRows == 1 .. 2
OneSource == {"s1"}
Channels == [s \in OneSource |-> "thread"]
=============================================================================
