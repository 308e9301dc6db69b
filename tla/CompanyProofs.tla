--------------------------- MODULE CompanyProofs ---------------------------
(***************************************************************************)
(* What holds of a component holds of the company: a behaviour with its    *)
(* focus is a behaviour of the component, and any other says nothing of it.*)
(***************************************************************************)
EXTENDS Company, HumanApprovalsProofs, AccountabilityProofs

Auditing == focus = "access"
Charging == focus = "billing"

LEMMA AuditingBehaves ==
  /\ Spec /\ Auditing => A!AccessSpec
  /\ Spec /\ ~Auditing => []~Auditing
<1>1. Init /\ Auditing => A!AccessInit
  BY DEF Init, Auditing
<1>2. Auditing /\ [Next]_vars => Auditing' /\ [A!AccessNext]_(A!vars)
  BY DEF Auditing, Next, vars, A!vars
<1>3. ~Auditing /\ [Next]_vars => ~Auditing'
  BY DEF Auditing, Next, vars
<1> QED BY <1>1, <1>2, <1>3, PTL DEF Spec, A!AccessSpec

LEMMA ChargingBehaves ==
  /\ Spec /\ Charging => B!BillingSpec
  /\ Spec /\ ~Charging => []~Charging
<1>1. Init /\ Charging => B!BillingInit
  BY DEF Init, Charging
<1>2. Charging /\ [Next]_vars => Charging' /\ [B!BillingNext]_(B!vars)
  BY DEF Charging, Next, vars, B!vars
<1>3. ~Charging /\ [Next]_vars => ~Charging'
  BY DEF Charging, Next, vars
<1> QED BY <1>1, <1>2, <1>3, PTL DEF Spec, B!BillingSpec

-----------------------------------------------------------------------------
(* Every identity and permission leads back to a human, nobody else is let *)
(* into what the routers reserve to one, and every change has its audit    *)
(* entry, for any number of requests, identities, agents and restarts.     *)
THEOREM AuthorityHolds == Spec => []AuthorityIsHumanAndAudited
<1>1. A!AccessSpec => []A!AuthorityIsHumanAndAudited
  BY AccessAuthorityHolds, AccessAssumption
<1>2. A!AuthorityIsHumanAndAudited \/ ~Auditing => AuthorityIsHumanAndAudited
  BY DEF AuthorityIsHumanAndAudited, Auditing
<1> QED BY <1>1, <1>2, AuditingBehaves, PTL

(* Every account was opened under a human's approval of its plan and at a  *)
(* grounded price, and revenue counts each event that verified once, for   *)
(* any number of requests, plans and events, and whatever the network does.*)
THEOREM ChargesAndRevenueHold == Spec => []AccountsAndRevenueAreBacked
<1>1. B!BillingSpec => []B!AccountsAndRevenueAreBacked
  BY B!ChargesAndRevenueHold, BillingAssumption
<1>2. B!AccountsAndRevenueAreBacked \/ ~Charging => AccountsAndRevenueAreBacked
  BY DEF AccountsAndRevenueAreBacked, Charging
<1> QED BY <1>1, <1>2, ChargingBehaves, PTL

-----------------------------------------------------------------------------
(* What a human approved.                                                  *)

Growing == focus = "growth"
Resolving == focus = "decision"
Contacting == focus = "outreach"

LEMMA GrowingBehaves ==
  /\ Init /\ Growing => G!GrowthInit
  /\ Growing /\ [Next]_vars => Growing' /\ [G!GrowthNext]_(G!vars)
  /\ ~Growing /\ [Next]_vars => ~Growing'
<1>1. Init /\ Growing => G!GrowthInit
  BY DEF Init, Growing
<1>2. Growing /\ [Next]_vars => Growing' /\ [G!GrowthNext]_(G!vars)
  BY DEF Growing, Next, vars, G!vars
<1>3. ~Growing /\ [Next]_vars => ~Growing'
  BY DEF Growing, Next, vars
<1> QED BY <1>1, <1>2, <1>3

LEMMA ResolvingBehaves ==
  /\ Init /\ Resolving => D!DecisionInit
  /\ Resolving /\ [Next]_vars => Resolving' /\ [D!DecisionNext]_(D!vars)
  /\ ~Resolving /\ [Next]_vars => ~Resolving'
<1>1. Init /\ Resolving => D!DecisionInit
  BY DEF Init, Resolving
<1>2. Resolving /\ [Next]_vars => Resolving' /\ [D!DecisionNext]_(D!vars)
  BY DEF Resolving, Next, vars, D!vars
<1>3. ~Resolving /\ [Next]_vars => ~Resolving'
  BY DEF Resolving, Next, vars
<1> QED BY <1>1, <1>2, <1>3

LEMMA ContactingBehaves ==
  /\ Init /\ Contacting => O!OutreachInit
  /\ Contacting /\ [Next]_vars => Contacting' /\ [O!OutreachNext]_(O!vars)
  /\ ~Contacting /\ [Next]_vars => ~Contacting'
<1>1. Init /\ Contacting => O!OutreachInit
  BY DEF Init, Contacting
<1>2. Contacting /\ [Next]_vars => Contacting' /\ [O!OutreachNext]_(O!vars)
  BY DEF Contacting, Next, vars, O!vars
<1>3. ~Contacting /\ [Next]_vars => ~Contacting'
  BY DEF Contacting, Next, vars
<1> QED BY <1>1, <1>2, <1>3

(* A message went out only under a human's approval of that very message,  *)
(* an opportunity was killed by a decision only when a human decided just  *)
(* that, and an experiment ran only under a human's approval of it, for    *)
(* any number of requests, rows, races and restarts.                       *)
THEOREM HumansApproved == Spec => []HumansApprovedWhatMatters
<1> DEFINE Inv == /\ Growing => GrowthInv
                  /\ Resolving => DecisionInv
                  /\ Contacting => OutreachInv
<1>1. Init => Inv
  BY GrowingBehaves, ResolvingBehaves, ContactingBehaves, GrowthInitInv, DecisionInitInv, OutreachInitInv,
     GrowthAssumption, DecisionAssumption
<1>2. Inv /\ [Next]_vars => Inv'
  <2> SUFFICES ASSUME Inv, [Next]_vars PROVE Inv'
    OBVIOUS
  <2>1. Growing' => GrowthInv'
    BY GrowingBehaves, GrowthNextInv, GrowthAssumption
  <2>2. Resolving' => DecisionInv'
    BY ResolvingBehaves, DecisionNextInv, DecisionAssumption
  <2>3. Contacting' => OutreachInv'
    BY ContactingBehaves, OutreachNextInv
  <2> QED BY <2>1, <2>2, <2>3
<1>3. Inv => HumansApprovedWhatMatters
  BY GrowthInvImplies, DecisionInvImplies, OutreachInvImplies DEF HumansApprovedWhatMatters, Growing, Resolving, Contacting
<1> QED BY <1>1, <1>2, <1>3, PTL DEF Spec

-----------------------------------------------------------------------------
(* What was built.                                                         *)

Building == focus = "factory"

LEMMA BuildingBehaves ==
  /\ Init /\ Building => F!FactoryInit
  /\ Building /\ [Next]_vars => Building' /\ [F!FactoryNext]_(F!vars)
  /\ ~Building /\ [Next]_vars => ~Building'
<1>1. Init /\ Building => F!FactoryInit
  BY DEF Init, Building
<1>2. Building /\ [Next]_vars => Building' /\ [F!FactoryNext]_(F!vars)
  BY DEF Building, Next, vars, F!vars
<1>3. ~Building /\ [Next]_vars => ~Building'
  BY DEF Building, Next, vars
<1> QED BY <1>1, <1>2, <1>3

(* What is ready for deployment was approved by a human on the memo of a   *)
(* build carried through from thesis to review, and a memo counts what the *)
(* reviews and tests found and, where one build runs at a time, what the   *)
(* scan can still see, for any number of requests, builds, retries, faults *)
(* and restarts.                                                           *)
THEOREM BuildsWereWholeAndShown == Spec => []ApprovedBuildsWereWholeAndShown
<1> DEFINE Inv == Building => FactoryInv
<1>1. Init => Inv
  BY BuildingBehaves, FactoryInitInv, FactoryAssumption
<1>2. Inv /\ [Next]_vars => Inv'
  <2> SUFFICES ASSUME Inv, [Next]_vars PROVE Inv'
    OBVIOUS
  <2> QED BY BuildingBehaves, FactoryNextInv, FactoryAssumption
<1>3. Inv => ApprovedBuildsWereWholeAndShown
  BY FactoryInvImplies DEF ApprovedBuildsWereWholeAndShown, Building
<1> QED BY <1>1, <1>2, <1>3, PTL DEF Spec

-----------------------------------------------------------------------------
(* What was learnt.                                                        *)

Predicting == focus = "predictions"
Discovering == focus = "discovery"

LEMMA PredictingBehaves ==
  /\ Init /\ Predicting => P!PredictionsInit
  /\ Predicting /\ [Next]_vars => Predicting' /\ [P!PredictionsNext]_(P!vars)
  /\ ~Predicting /\ [Next]_vars => ~Predicting'
<1>1. Init /\ Predicting => P!PredictionsInit
  BY DEF Init, Predicting
<1>2. Predicting /\ [Next]_vars => Predicting' /\ [P!PredictionsNext]_(P!vars)
  BY DEF Predicting, Next, vars, P!vars
<1>3. ~Predicting /\ [Next]_vars => ~Predicting'
  BY DEF Predicting, Next, vars
<1> QED BY <1>1, <1>2, <1>3

LEMMA DiscoveringBehaves ==
  /\ Init /\ Discovering => V!DiscoveryInit
  /\ Discovering /\ [Next]_vars => Discovering' /\ [V!CustomerDiscoveryNext]_(V!vars)
  /\ ~Discovering /\ [Next]_vars => ~Discovering'
<1>1. Init /\ Discovering => V!DiscoveryInit
  BY DEF Init, Discovering
<1>2. Discovering /\ [Next]_vars => Discovering' /\ [V!CustomerDiscoveryNext]_(V!vars)
  BY DEF Discovering, Next, vars, V!vars
<1>3. ~Discovering /\ [Next]_vars => ~Discovering'
  BY DEF Discovering, Next, vars
<1> QED BY <1>1, <1>2, <1>3

(* What an experiment taught was measured on one that ran, and what waits  *)
(* for a human was put to one; a prediction is resolved only by what was   *)
(* recorded when its period was over, a bad one is a lesson, and a memo    *)
(* that was decided has its effect: for any number of experiments, rows,   *)
(* requests and restarts, whatever the clock does between two steps.       *)
THEOREM LessonsFollow == Spec => []LessonsFollowOutcomes
<1> DEFINE Inv == /\ Growing => GrowthInv /\ MeasuredInv
                  /\ Predicting => PredictionsInv
                  /\ Discovering => DiscoveryInv
<1>1. Init => Inv
  BY GrowingBehaves, PredictingBehaves, DiscoveringBehaves, GrowthInitInv, MeasuredInitInv, PredictionsInitInv, DiscoveryInitInv,
     GrowthAssumption, PredictionAssumption, DiscoveryAssumption
<1>2. Inv /\ [Next]_vars => Inv'
  <2> SUFFICES ASSUME Inv, [Next]_vars PROVE Inv'
    OBVIOUS
  <2>1. Growing' => GrowthInv' /\ MeasuredInv'
    BY GrowingBehaves, MeasuredNextInv, GrowthAssumption
  <2>2. Predicting' => PredictionsInv'
    BY PredictingBehaves, PredictionsNextInv, PredictionAssumption
  <2>3. Discovering' => DiscoveryInv'
    BY DiscoveringBehaves, DiscoveryNextInv, DiscoveryAssumption
  <2> QED BY <2>1, <2>2, <2>3
<1>3. Inv => LessonsFollowOutcomes
  BY GrowthMeasured, PredictionsInvImplies, DiscoveryInvImplies, PredictionAssumption DEF LessonsFollowOutcomes, Growing, Predicting, Discovering
<1> QED BY <1>1, <1>2, <1>3, PTL DEF Spec

-----------------------------------------------------------------------------
(* Whom the company writes to, and how often.                              *)

(* Who counts as contacted was written to with an approval of that very    *)
(* message, and who counts as having answered has an answer recorded;      *)
(* the messages of a day, of an experiment and the attempts to send one    *)
(* stay within their limits; and a run of a discovery experiment drafts    *)
(* once for a prospect, asks a human once for a draft, stops at its target *)
(* and leaves no prospect unaccounted: for any number of requests, rows,   *)
(* faults, races and restarts.                                             *)
THEOREM ContactsHold == Spec => []ContactsAreBackedAndBounded
<1> DEFINE Inv == /\ Contacting => ContactsInv
                  /\ Discovering => RunsInv
<1>1. Init => Inv
  BY ContactingBehaves, DiscoveringBehaves, ContactsInitInv, RunsInitInv, OutreachAssumption, DiscoveryAssumption
<1>2. Inv /\ [Next]_vars => Inv'
  <2> SUFFICES ASSUME Inv, [Next]_vars PROVE Inv'
    OBVIOUS
  <2>1. Contacting' => ContactsInv'
    BY ContactingBehaves, ContactsNextInv, OutreachAssumption
  <2>2. Discovering' => RunsInv'
    BY DiscoveringBehaves, RunsNextInv, DiscoveryAssumption
  <2> QED BY <2>1, <2>2
<1>3. Inv => ContactsAreBackedAndBounded
  BY ContactsInvImplies, RunsInvImplies, OutreachAssumption DEF ContactsAreBackedAndBounded, Contacting, Discovering
<1> QED BY <1>1, <1>2, <1>3, PTL DEF Spec

-----------------------------------------------------------------------------
(* Research cycles and their budgets.                                      *)

(* Where a cycle has spent nothing, where it is about to, and how far past *)
(* its calls of models it can be elsewhere.                                *)
Unspent == {"idle", "authorize", "next", "checkItem", "markInProgress", "begin", "search"}
ToSpend == {"extract", "compete"}
OnePast == {"clusters", "problem", "market"}
TwoPast == {"dedup", "store", "place", "assign", "open", "join", "count", "recount", "budget", "promote", "createEvidence"}
Ending == {"checkDone", "markDone", "totals", "finish"}

Spending(call) ==
  /\ call.models \in Nat /\ call.tools \in Nat /\ call.stopped \in BOOLEAN
  /\ call.tools <= use.budget.tools + 1 \/ call.tools <= R!MAX_QUERIES
  /\ call.models <= use.budget.models + 3
  /\ call.at \in Unspent => call.models = 0 /\ call.tools = 0
  /\ call.at \in ToSpend => R!withinBudget(call)
  /\ call.at \in OnePast => call.models <= use.budget.models + 1
  /\ call.at \in TwoPast => call.models <= use.budget.models + 2
  /\ call.op = "intake" => call.models = 0 /\ call.at \in {"createEvidence", "attach"}
  /\ call.at = "attach" => call.op = "intake" \/ call.ids = <<>>
  /\ call.stopped => call.at \in Ending /\ ("slow" \in use.vary \/ ~R!withinBudget(call))

(* The row of a cycle that runs is its own, and not stopped yet.           *)
OnItsRow(call) ==
  call.cycle # 0 =>
    /\ call.cycle \in DOMAIN db.cycles /\ db.cycles[call.cycle].status # "STOPPED"
    /\ call.at = "finish" =>
         LET row == db.cycles[call.cycle]
         IN  row.signals = call.signals /\ row.tools = call.tools /\ row.models = call.models

ResearchUseOK ==
  /\ DOMAIN use = {"ops", "load", "starts", "crashes", "restarts", "mishaps", "faults", "vary", "batches", "budget", "seeded"}
  /\ use.budget \in [signals : Nat, tools : Nat, models : Nat]
ResearchTables ==
  /\ DOMAIN db = {"signals", "clusters", "problems", "evidence", "opps", "gaps", "items", "cycles"}
  /\ \E T : db.cycles \in Seq(T)
  /\ \A k \in DOMAIN db.cycles : DOMAIN db.cycles[k] = DOMAIN R!NewResearchCycle

StoppedInTime ==
  \A k \in DOMAIN db.cycles :
    (db.cycles[k].status = "STOPPED" /\ "slow" \notin use.vary) =>
      ~R!withinBudget([signals |-> db.cycles[k].signals, tools |-> db.cycles[k].tools, models |-> db.cycles[k].models])

ResearchBudgetInv ==
  /\ ResearchUseOK /\ ResearchTables /\ StoppedInTime
  /\ DOMAIN calls = Calls
  /\ \A c \in Calls : DOMAIN calls[c] = DOMAIN R!Idle /\ Spending(calls[c]) /\ OnItsRow(calls[c])
  /\ \A c, d \in Calls : calls[c].cycle = calls[d].cycle /\ calls[c].cycle # 0 => c = d

(* Steps that count or note something leave what the budgets look at.      *)
SameUse == DOMAIN use' = DOMAIN use /\ use'.budget = use.budget /\ use'.vary = use.vary

LEMMA ResearchIdle ==
  ASSUME ResearchUseOK
  PROVE  Spending(R!Idle) /\ R!Idle.cycle = 0 /\ R!Idle.at = "idle" /\ R!Idle.op = "none"
BY DEF R!Idle, Spending, Unspent, ToSpend, OnePast, TwoPast, Ending, ResearchUseOK

LEMMA ResearchUseSteps ==
  ASSUME ResearchUseOK
  PROVE  /\ \A c \in Calls : \A op : R!Begin(op, c) => SameUse /\ calls[c].at = "idle"
         /\ R!Spend => SameUse
         /\ UNCHANGED use => SameUse
<1>1. \A c \in Calls : \A op : R!Begin(op, c) => SameUse /\ calls[c].at = "idle"
  BY DEF R!Begin, SameUse, ResearchUseOK
<1>2. R!Spend => SameUse
  BY DEF R!Spend, SameUse, ResearchUseOK
<1> QED BY <1>1, <1>2 DEF SameUse

(* A step of one call that leaves the cycles' rows.                        *)
Passes(c, call) ==
  /\ calls' = [calls EXCEPT ![c] = call]
  /\ DOMAIN call = DOMAIN R!Idle /\ Spending(call)
  /\ call.cycle = 0 \/ (call.cycle = calls[c].cycle /\ call.at # "finish")

LEMMA PassesInv ==
  ASSUME ResearchBudgetInv, SameUse, DOMAIN db' = DOMAIN db, db'.cycles = db.cycles,
         NEW c \in Calls, NEW call, Passes(c, call)
  PROVE  ResearchBudgetInv'
<1>1. ResearchUseOK' /\ ResearchTables' /\ StoppedInTime'
  <2>1. ResearchUseOK'
    BY DEF ResearchBudgetInv, ResearchUseOK, SameUse
  <2>2. ResearchTables'
    BY DEF ResearchBudgetInv, ResearchTables, R!NewResearchCycle
  <2>3. StoppedInTime'
    BY DEF ResearchBudgetInv, StoppedInTime, SameUse, R!withinBudget
  <2> QED BY <2>1, <2>2, <2>3
<1>2. DOMAIN calls' = Calls /\ calls'[c] = call /\ \A d \in Calls \ {c} : calls'[d] = calls[d]
  BY DEF Passes, ResearchBudgetInv
<1>3. \A k : Spending(k) => Spending(k)'
  BY DEF Spending, SameUse, R!withinBudget
<1>4. \A k : OnItsRow(k) => OnItsRow(k)'
  BY DEF OnItsRow
<1>5. OnItsRow(call)
  BY DEF ResearchBudgetInv, Passes, OnItsRow
<1>6. ASSUME NEW d \in Calls PROVE (DOMAIN calls[d] = DOMAIN R!Idle /\ Spending(calls[d]) /\ OnItsRow(calls[d]))'
  <2>1. CASE d = c
    BY <1>2, <1>3, <1>4, <1>5, <2>1 DEF Passes, R!Idle
  <2>2. CASE d # c
    BY <1>2, <1>3, <1>4, <2>2 DEF ResearchBudgetInv, R!Idle
  <2> QED BY <2>1, <2>2
<1>7. ASSUME NEW d \in Calls, NEW e \in Calls, calls'[d].cycle = calls'[e].cycle, calls'[d].cycle # 0 PROVE d = e
  BY <1>2, <1>7 DEF ResearchBudgetInv, Passes
<1> QED BY <1>1, <1>2, <1>6, <1>7 DEF ResearchBudgetInv

LEMMA ResearchReturns ==
  ASSUME ResearchBudgetInv, SameUse, DOMAIN db' = DOMAIN db, db'.cycles = db.cycles, NEW c \in Calls, R!Return(c)
  PROVE  ResearchBudgetInv'
<1>1. Passes(c, R!Idle)
  BY ResearchIdle DEF Passes, R!Return, R!GoTo, ResearchBudgetInv
<1> QED BY <1>1, PassesInv

LEMMA ResearchGoesOn ==
  ASSUME ResearchBudgetInv, SameUse, DOMAIN db' = DOMAIN db, db'.cycles = db.cycles, NEW c \in Calls, NEW call, R!GoTo(c, call),
         DOMAIN call = DOMAIN R!Idle, Spending(call), call.cycle = 0 \/ (call.cycle = calls[c].cycle /\ call.at # "finish")
  PROVE  ResearchBudgetInv'
<1>1. Passes(c, call)
  BY DEF Passes, R!GoTo
<1> QED BY <1>1, PassesInv

(* Signals are collected.                                                   *)
LEMMA CollectingSteps ==
  ASSUME ResearchBudgetInv, NEW c \in Calls,
         \/ \E batch \in use.batches, op \in {"collect", "import"} : R!CollectSignals(c, op, batch)
         \/ \E batch \in use.batches, opp \in DOMAIN db.opps : R!SearchForClaim(c, opp, batch)
         \/ R!IngestRead(c) \/ R!NameASource(c) \/ R!IngestWrite(c) \/ R!Collected(c)
  PROVE  ResearchBudgetInv'
<1> DEFINE call == calls[c]
<1>0. ResearchUseOK /\ ResearchTables /\ DOMAIN call = DOMAIN R!Idle /\ Spending(call)
  BY DEF ResearchBudgetInv
<1>1. ASSUME NEW batch \in use.batches, NEW op \in {"collect", "import"}, R!CollectSignals(c, op, batch) PROVE ResearchBudgetInv'
  <2> DEFINE next == [R!Idle EXCEPT !.op = op, !.at = "dedup", !.rest = batch]
  <2>1. SameUse /\ DOMAIN db' = DOMAIN db /\ db'.cycles = db.cycles /\ R!GoTo(c, next)
    BY <1>0, <1>1, ResearchUseSteps DEF R!CollectSignals, ResearchTables
  <2>2. DOMAIN next = DOMAIN R!Idle /\ Spending(next) /\ next.cycle = 0 /\ next.at # "finish"
    BY <1>0, <1>1, <2>1 DEF R!Idle, Spending, Unspent, ToSpend, OnePast, TwoPast, Ending, ResearchUseOK
  <2> QED BY <2>1, <2>2, ResearchGoesOn
<1>2. ASSUME NEW batch \in use.batches, NEW opp \in DOMAIN db.opps, R!SearchForClaim(c, opp, batch) PROVE ResearchBudgetInv'
  <2> DEFINE next == [R!Idle EXCEPT !.op = "validate", !.at = "dedup", !.rest = batch, !.opp = opp]
  <2>1. SameUse /\ DOMAIN db' = DOMAIN db /\ db'.cycles = db.cycles /\ R!GoTo(c, next)
    BY <1>0, <1>2, ResearchUseSteps DEF R!SearchForClaim, ResearchTables
  <2>2. DOMAIN next = DOMAIN R!Idle /\ Spending(next) /\ next.cycle = 0 /\ next.at # "finish"
    BY <1>0, <1>2, <2>1 DEF R!Idle, Spending, Unspent, ToSpend, OnePast, TwoPast, Ending, ResearchUseOK
  <2> QED BY <2>1, <2>2, ResearchGoesOn
<1>3. CASE R!IngestRead(c)
  <2> DEFINE next == [call EXCEPT !.at = "store", !.verdict = R!Verdict(R!Head(call.rest))]
  <2>1. SameUse /\ DOMAIN db' = DOMAIN db /\ db'.cycles = db.cycles /\ R!GoTo(c, next) /\ call.at = "dedup"
    BY <1>0, <1>3, ResearchUseSteps DEF R!IngestRead, ResearchTables
  <2>2. DOMAIN next = DOMAIN R!Idle /\ Spending(next) /\ next.cycle = call.cycle /\ next.at # "finish"
    BY <1>0, <1>3, <2>1 DEF R!Idle, Spending, Unspent, ToSpend, OnePast, TwoPast, Ending
  <2> QED BY <2>1, <2>2, ResearchGoesOn
<1>4. CASE R!NameASource(c)
  <2> DEFINE next == [call EXCEPT !.rest = R!Tail(@)]
  <2>1. SameUse /\ DOMAIN db' = DOMAIN db /\ db'.cycles = db.cycles /\ R!GoTo(c, next) /\ call.at = "dedup"
    BY <1>0, <1>4, ResearchUseSteps DEF R!NameASource, ResearchTables
  <2>2. DOMAIN next = DOMAIN R!Idle /\ Spending(next) /\ next.cycle = call.cycle /\ next.at # "finish"
    BY <1>0, <1>4, <2>1 DEF R!Idle, Spending, Unspent, ToSpend, OnePast, TwoPast, Ending
  <2> QED BY <2>1, <2>2, ResearchGoesOn
<1>5. CASE R!IngestWrite(c)
  <2> DEFINE next == [call EXCEPT !.rest = R!Tail(@), !.verdict = "none", !.ids = R!Append(@, R!Len(db.signals) + 1),
                              !.at = IF call.op = "import" /\ call.verdict = "PROCESSED" THEN "assign" ELSE "dedup"]
  <2>1. SameUse /\ DOMAIN db' = DOMAIN db /\ db'.cycles = db.cycles /\ R!GoTo(c, next) /\ call.at = "store"
    BY <1>0, <1>5, ResearchUseSteps DEF R!IngestWrite, ResearchTables
  <2>2. DOMAIN next = DOMAIN R!Idle /\ Spending(next) /\ next.cycle = call.cycle /\ next.at # "finish"
    BY <1>0, <1>5, <2>1 DEF R!Idle, Spending, Unspent, ToSpend, OnePast, TwoPast, Ending
  <2> QED BY <2>1, <2>2, ResearchGoesOn
<1>6. CASE R!Collected(c)
  <2>1. CASE call.op = "cycle"
    <3> DEFINE next == [call EXCEPT !.at = "place", !.ids = R!Of(@, {"PROCESSED"}), !.signals = R!Len(call.ids)]
    <3>1. SameUse /\ DOMAIN db' = DOMAIN db /\ db'.cycles = db.cycles /\ R!GoTo(c, next) /\ call.at = "dedup"
      BY <1>0, <1>6, <2>1, ResearchUseSteps DEF R!Collected, ResearchTables
    <3>2. DOMAIN next = DOMAIN R!Idle /\ Spending(next) /\ next.cycle = call.cycle /\ next.at # "finish"
      BY <1>0, <1>6, <2>1, <3>1 DEF R!Idle, Spending, Unspent, ToSpend, OnePast, TwoPast, Ending
    <3> QED BY <3>1, <3>2, ResearchGoesOn
  <2>2. CASE call.op = "validate"
    <3> DEFINE next == [call EXCEPT !.at = "promote", !.ids = R!Of(@, {"PROCESSED", "REJECTED"})]
    <3>1. SameUse /\ DOMAIN db' = DOMAIN db /\ db'.cycles = db.cycles /\ R!GoTo(c, next) /\ call.at = "dedup"
      BY <1>0, <1>6, <2>2, ResearchUseSteps DEF R!Collected, ResearchTables
    <3>2. DOMAIN next = DOMAIN R!Idle /\ Spending(next) /\ next.cycle = call.cycle /\ next.at # "finish"
      BY <1>0, <1>6, <2>2, <3>1 DEF R!Idle, Spending, Unspent, ToSpend, OnePast, TwoPast, Ending, ResearchUseOK
    <3> QED BY <3>1, <3>2, ResearchGoesOn
  <2>3. CASE call.op \notin {"cycle", "validate"}
    <3>1. SameUse /\ DOMAIN db' = DOMAIN db /\ db'.cycles = db.cycles /\ R!Return(c)
      BY <1>0, <1>6, <2>3, ResearchUseSteps DEF R!Collected, ResearchTables
    <3> QED BY <3>1, ResearchReturns
  <2> QED BY <2>1, <2>2, <2>3, <1>6
<1> QED BY <1>1, <1>2, <1>3, <1>4, <1>5, <1>6

(* Signals are placed in clusters.                                          *)
LEMMA PlacingSteps ==
  ASSUME ResearchBudgetInv, NEW c \in Calls,
         \/ R!PlaceNext(c) \/ R!AssignRead(c) \/ R!CreateCluster(c) \/ R!markClustered(c) \/ R!RecomputeRead(c) \/ R!RecomputeWrite(c)
  PROVE  ResearchBudgetInv'
<1> DEFINE call == calls[c]
<1>0. ResearchUseOK /\ ResearchTables /\ DOMAIN call = DOMAIN R!Idle /\ Spending(call)
  BY DEF ResearchBudgetInv
<1>1. CASE R!PlaceNext(c)
  <2> DEFINE next == [call EXCEPT !.at = IF call.ids = <<>> THEN "budget" ELSE "assign"]
  <2>1. SameUse /\ DOMAIN db' = DOMAIN db /\ db'.cycles = db.cycles /\ R!GoTo(c, next) /\ call.at = "place"
    BY <1>0, <1>1, ResearchUseSteps DEF R!PlaceNext, ResearchTables
  <2>2. DOMAIN next = DOMAIN R!Idle /\ Spending(next) /\ next.cycle = call.cycle /\ next.at # "finish"
    BY <1>0, <1>1, <2>1 DEF R!Idle, Spending, Unspent, ToSpend, OnePast, TwoPast, Ending
  <2> QED BY <2>1, <2>2, ResearchGoesOn
<1>2. CASE R!AssignRead(c)
  <2>1. CASE R!GoTo(c, [call EXCEPT !.at = "open"])
    <3> DEFINE next == [call EXCEPT !.at = "open"]
    <3>1. SameUse /\ DOMAIN db' = DOMAIN db /\ db'.cycles = db.cycles /\ R!GoTo(c, next) /\ call.at = "assign"
      BY <1>0, <1>2, <2>1, ResearchUseSteps DEF R!AssignRead, ResearchTables
    <3>2. DOMAIN next = DOMAIN R!Idle /\ Spending(next) /\ next.cycle = call.cycle /\ next.at # "finish"
      BY <1>0, <1>2, <2>1, <3>1 DEF R!Idle, Spending, Unspent, ToSpend, OnePast, TwoPast, Ending
    <3> QED BY <3>1, <3>2, ResearchGoesOn
  <2>2. ASSUME NEW k, R!GoTo(c, [call EXCEPT !.at = "join", !.cluster = k]) PROVE ResearchBudgetInv'
    <3> DEFINE next == [call EXCEPT !.at = "join", !.cluster = k]
    <3>1. SameUse /\ DOMAIN db' = DOMAIN db /\ db'.cycles = db.cycles /\ R!GoTo(c, next) /\ call.at = "assign"
      BY <1>0, <1>2, <2>2, ResearchUseSteps DEF R!AssignRead, ResearchTables
    <3>2. DOMAIN next = DOMAIN R!Idle /\ Spending(next) /\ next.cycle = call.cycle /\ next.at # "finish"
      BY <1>0, <1>2, <2>2, <3>1 DEF R!Idle, Spending, Unspent, ToSpend, OnePast, TwoPast, Ending
    <3> QED BY <3>1, <3>2, ResearchGoesOn
  <2> QED BY <2>1, <2>2, <1>2 DEF R!AssignRead
<1>3. CASE R!CreateCluster(c)
  <2> DEFINE next == [call EXCEPT !.at = "join", !.cluster = R!Len(db.clusters) + 1]
  <2>1. SameUse /\ DOMAIN db' = DOMAIN db /\ db'.cycles = db.cycles /\ R!GoTo(c, next) /\ call.at = "open"
    BY <1>0, <1>3, ResearchUseSteps DEF R!CreateCluster, ResearchTables
  <2>2. DOMAIN next = DOMAIN R!Idle /\ Spending(next) /\ next.cycle = call.cycle /\ next.at # "finish"
    BY <1>0, <1>3, <2>1 DEF R!Idle, Spending, Unspent, ToSpend, OnePast, TwoPast, Ending
  <2> QED BY <2>1, <2>2, ResearchGoesOn
<1>4. CASE R!markClustered(c)
  <2> DEFINE next == [call EXCEPT !.at = "count"]
  <2>1. SameUse /\ DOMAIN db' = DOMAIN db /\ db'.cycles = db.cycles /\ R!GoTo(c, next) /\ call.at = "join"
    BY <1>0, <1>4, ResearchUseSteps DEF R!markClustered, ResearchTables
  <2>2. DOMAIN next = DOMAIN R!Idle /\ Spending(next) /\ next.cycle = call.cycle /\ next.at # "finish"
    BY <1>0, <1>4, <2>1 DEF R!Idle, Spending, Unspent, ToSpend, OnePast, TwoPast, Ending
  <2> QED BY <2>1, <2>2, ResearchGoesOn
<1>5. CASE R!RecomputeRead(c)
  <2> DEFINE next == [call EXCEPT !.at = "recount", !.count = R!Cardinality(R!Members(call.cluster)),
                              !.independent = R!Independent(R!Members(call.cluster))]
  <2>1. SameUse /\ DOMAIN db' = DOMAIN db /\ db'.cycles = db.cycles /\ R!GoTo(c, next) /\ call.at = "count"
    BY <1>0, <1>5, ResearchUseSteps DEF R!RecomputeRead, ResearchTables
  <2>2. DOMAIN next = DOMAIN R!Idle /\ Spending(next) /\ next.cycle = call.cycle /\ next.at # "finish"
    BY <1>0, <1>5, <2>1 DEF R!Idle, Spending, Unspent, ToSpend, OnePast, TwoPast, Ending
  <2> QED BY <2>1, <2>2, ResearchGoesOn
<1>6. CASE R!RecomputeWrite(c)
  <2>1. CASE call.op = "import"
    <3> DEFINE next == [[call EXCEPT !.cluster = 0, !.count = 0, !.independent = 0] EXCEPT !.at = "dedup"]
    <3>1. SameUse /\ DOMAIN db' = DOMAIN db /\ db'.cycles = db.cycles /\ R!GoTo(c, next) /\ call.at = "recount"
      BY <1>0, <1>6, <2>1, ResearchUseSteps DEF R!RecomputeWrite, ResearchTables
    <3>2. DOMAIN next = DOMAIN R!Idle /\ Spending(next) /\ next.cycle = call.cycle /\ next.at # "finish"
      BY <1>0, <1>6, <2>1, <3>1 DEF R!Idle, Spending, Unspent, ToSpend, OnePast, TwoPast, Ending
    <3> QED BY <3>1, <3>2, ResearchGoesOn
  <2>2. ASSUME call.op # "import", NEW touched,
               R!GoTo(c, [[call EXCEPT !.cluster = 0, !.count = 0, !.independent = 0] EXCEPT !.at = "place", !.ids = R!Tail(@), !.touched = touched])
        PROVE  ResearchBudgetInv'
    <3> DEFINE next == [[call EXCEPT !.cluster = 0, !.count = 0, !.independent = 0] EXCEPT !.at = "place", !.ids = R!Tail(@), !.touched = touched]
    <3>1. SameUse /\ DOMAIN db' = DOMAIN db /\ db'.cycles = db.cycles /\ R!GoTo(c, next) /\ call.at = "recount"
      BY <1>0, <1>6, <2>2, ResearchUseSteps DEF R!RecomputeWrite, ResearchTables
    <3>2. DOMAIN next = DOMAIN R!Idle /\ Spending(next) /\ next.cycle = call.cycle /\ next.at # "finish"
      BY <1>0, <1>6, <2>2, <3>1 DEF R!Idle, Spending, Unspent, ToSpend, OnePast, TwoPast, Ending
    <3> QED BY <3>1, <3>2, ResearchGoesOn
  <2> QED BY <2>1, <2>2, <1>6 DEF R!RecomputeWrite
<1> QED BY <1>1, <1>2, <1>3, <1>4, <1>5, <1>6

(* A cycle takes an item and searches.                                      *)
LEMMA ItemSteps ==
  ASSUME ResearchBudgetInv, NEW c \in Calls,
         \/ R!Authorize(c, TRUE) \/ R!NextItem(c) \/ R!CheckItem(c, "IN_PROGRESS") \/ R!markInProgress(c)
         \/ \E batch \in use.batches : R!Search(c, batch)
         \/ \E opp \in DOMAIN db.opps : R!Requeue(c, opp)
         \/ R!Intake(c) \/ R!Undirected(c) \/ R!CheckDone(c) \/ R!markDone(c)
  PROVE  ResearchBudgetInv'
<1> DEFINE call == calls[c]
<1>0. ResearchUseOK /\ ResearchTables /\ DOMAIN call = DOMAIN R!Idle /\ Spending(call)
  BY DEF ResearchBudgetInv
<1>1. CASE R!Authorize(c, TRUE)
  <2> DEFINE next == [call EXCEPT !.at = "next"]
  <2>1. SameUse /\ DOMAIN db' = DOMAIN db /\ db'.cycles = db.cycles /\ R!GoTo(c, next) /\ call.at = "authorize"
    BY <1>0, <1>1, ResearchUseSteps DEF R!Authorize, ResearchTables
  <2>2. DOMAIN next = DOMAIN R!Idle /\ Spending(next) /\ next.cycle = call.cycle /\ next.at # "finish"
    BY <1>0, <1>1, <2>1 DEF R!Idle, Spending, Unspent, ToSpend, OnePast, TwoPast, Ending
  <2> QED BY <2>1, <2>2, ResearchGoesOn
<1>2. CASE R!NextItem(c)
  <2>1. CASE R!GoTo(c, [call EXCEPT !.at = "begin"])
    <3> DEFINE next == [call EXCEPT !.at = "begin"]
    <3>1. SameUse /\ DOMAIN db' = DOMAIN db /\ db'.cycles = db.cycles /\ R!GoTo(c, next) /\ call.at = "next"
      BY <1>0, <1>2, <2>1, ResearchUseSteps DEF R!NextItem, ResearchTables
    <3>2. DOMAIN next = DOMAIN R!Idle /\ Spending(next) /\ next.cycle = call.cycle /\ next.at # "finish"
      BY <1>0, <1>2, <2>1, <3>1 DEF R!Idle, Spending, Unspent, ToSpend, OnePast, TwoPast, Ending
    <3> QED BY <3>1, <3>2, ResearchGoesOn
  <2>2. ASSUME NEW i, R!GoTo(c, [call EXCEPT !.at = "checkItem", !.item = i]) PROVE ResearchBudgetInv'
    <3> DEFINE next == [call EXCEPT !.at = "checkItem", !.item = i]
    <3>1. SameUse /\ DOMAIN db' = DOMAIN db /\ db'.cycles = db.cycles /\ R!GoTo(c, next) /\ call.at = "next"
      BY <1>0, <1>2, <2>2, ResearchUseSteps DEF R!NextItem, ResearchTables
    <3>2. DOMAIN next = DOMAIN R!Idle /\ Spending(next) /\ next.cycle = call.cycle /\ next.at # "finish"
      BY <1>0, <1>2, <2>2, <3>1 DEF R!Idle, Spending, Unspent, ToSpend, OnePast, TwoPast, Ending
    <3> QED BY <3>1, <3>2, ResearchGoesOn
  <2> QED BY <2>1, <2>2, <1>2 DEF R!NextItem
<1>3. CASE R!CheckItem(c, "IN_PROGRESS")
  <2>1. CASE R!GoTo(c, [call EXCEPT !.at = "markInProgress"])
    <3> DEFINE next == [call EXCEPT !.at = "markInProgress"]
    <3>1. SameUse /\ DOMAIN db' = DOMAIN db /\ db'.cycles = db.cycles /\ R!GoTo(c, next) /\ call.at = "checkItem"
      BY <1>0, <1>3, <2>1, ResearchUseSteps DEF R!CheckItem, ResearchTables
    <3>2. DOMAIN next = DOMAIN R!Idle /\ Spending(next) /\ next.cycle = call.cycle /\ next.at # "finish"
      BY <1>0, <1>3, <2>1, <3>1 DEF R!Idle, Spending, Unspent, ToSpend, OnePast, TwoPast, Ending
    <3> QED BY <3>1, <3>2, ResearchGoesOn
  <2>2. CASE R!Return(c)
    <3>1. SameUse /\ DOMAIN db' = DOMAIN db /\ db'.cycles = db.cycles /\ R!Return(c)
      BY <1>0, <1>3, <2>2, ResearchUseSteps DEF R!CheckItem, ResearchTables
    <3> QED BY <3>1, ResearchReturns
  <2> QED BY <2>1, <2>2, <1>3 DEF R!CheckItem
<1>4. CASE R!markInProgress(c)
  <2> DEFINE next == [call EXCEPT !.at = "begin"]
  <2>1. SameUse /\ DOMAIN db' = DOMAIN db /\ db'.cycles = db.cycles /\ R!GoTo(c, next) /\ call.at = "markInProgress"
    BY <1>0, <1>4, ResearchUseSteps DEF R!markInProgress, ResearchTables
  <2>2. DOMAIN next = DOMAIN R!Idle /\ Spending(next) /\ next.cycle = call.cycle /\ next.at # "finish"
    BY <1>0, <1>4, <2>1 DEF R!Idle, Spending, Unspent, ToSpend, OnePast, TwoPast, Ending
  <2> QED BY <2>1, <2>2, ResearchGoesOn
<1>5. ASSUME NEW batch \in use.batches, R!Search(c, batch) PROVE ResearchBudgetInv'
  <2>1. PICK queries \in 1 .. R!MAX_QUERIES, asked \in 1 .. 2 :
          R!GoTo(c, [call EXCEPT !.at = "dedup", !.rest = batch, !.tools = queries, !.models = asked])
    BY <1>5, Zenon DEF R!Search
  <2> DEFINE next == [call EXCEPT !.at = "dedup", !.rest = batch, !.tools = queries, !.models = asked]
  <2>2. SameUse /\ DOMAIN db' = DOMAIN db /\ db'.cycles = db.cycles /\ R!GoTo(c, next) /\ call.at = "search"
    BY <1>0, <1>5, <2>1, ResearchUseSteps DEF R!Search, ResearchTables
  <2>3. DOMAIN next = DOMAIN R!Idle /\ Spending(next) /\ next.cycle = call.cycle /\ next.at # "finish"
    BY <1>0, <2>2 DEF R!Idle, Spending, Unspent, ToSpend, OnePast, TwoPast, Ending, ResearchUseOK, R!MAX_QUERIES
  <2> QED BY <2>2, <2>3, ResearchGoesOn
<1>6. ASSUME NEW opp \in DOMAIN db.opps, R!Requeue(c, opp) PROVE ResearchBudgetInv'
  <2> DEFINE next == [R!Idle EXCEPT !.op = "requeue", !.at = "queue", !.opp = opp]
  <2>1. SameUse /\ DOMAIN db' = DOMAIN db /\ db'.cycles = db.cycles /\ R!GoTo(c, next)
    BY <1>0, <1>6, ResearchUseSteps DEF R!Requeue, ResearchTables
  <2>2. DOMAIN next = DOMAIN R!Idle /\ Spending(next) /\ next.cycle = 0 /\ next.at # "finish"
    BY <1>0, <1>6, <2>1 DEF R!Idle, Spending, Unspent, ToSpend, OnePast, TwoPast, Ending, ResearchUseOK
  <2> QED BY <2>1, <2>2, ResearchGoesOn
<1>7. CASE R!Intake(c)
  <2> DEFINE next == [R!Idle EXCEPT !.op = "intake", !.at = "createEvidence", !.ids = <<0, 0>>, !.opp = R!Len(db.opps) + 1]
  <2>1. SameUse /\ DOMAIN db' = DOMAIN db /\ db'.cycles = db.cycles /\ R!GoTo(c, next)
    BY <1>0, <1>7, ResearchUseSteps DEF R!Intake, ResearchTables
  <2>2. DOMAIN next = DOMAIN R!Idle /\ Spending(next) /\ next.cycle = 0 /\ next.at # "finish"
    BY <1>0, <1>7, <2>1 DEF R!Idle, Spending, Unspent, ToSpend, OnePast, TwoPast, Ending, ResearchUseOK
  <2> QED BY <2>1, <2>2, ResearchGoesOn
<1>8. CASE R!Undirected(c)
  <2> DEFINE next == [call EXCEPT !.at = "totals"]
  <2>1. SameUse /\ DOMAIN db' = DOMAIN db /\ db'.cycles = db.cycles /\ R!GoTo(c, next) /\ call.at = "checkDone"
    BY <1>0, <1>8, ResearchUseSteps DEF R!Undirected, ResearchTables
  <2>2. DOMAIN next = DOMAIN R!Idle /\ Spending(next) /\ next.cycle = call.cycle /\ next.at # "finish"
    BY <1>0, <1>8, <2>1 DEF R!Idle, Spending, Unspent, ToSpend, OnePast, TwoPast, Ending, R!withinBudget
  <2> QED BY <2>1, <2>2, ResearchGoesOn
<1>9. CASE R!CheckDone(c)
  <2>1. CASE R!GoTo(c, [call EXCEPT !.at = "markDone"])
    <3> DEFINE next == [call EXCEPT !.at = "markDone"]
    <3>1. SameUse /\ DOMAIN db' = DOMAIN db /\ db'.cycles = db.cycles /\ R!GoTo(c, next) /\ call.at = "checkDone"
      BY <1>0, <1>9, <2>1, ResearchUseSteps DEF R!CheckDone, R!CheckItem, ResearchTables
    <3>2. DOMAIN next = DOMAIN R!Idle /\ Spending(next) /\ next.cycle = call.cycle /\ next.at # "finish"
      BY <1>0, <1>9, <2>1, <3>1 DEF R!Idle, Spending, Unspent, ToSpend, OnePast, TwoPast, Ending, R!withinBudget
    <3> QED BY <3>1, <3>2, ResearchGoesOn
  <2>2. CASE R!Return(c)
    <3>1. SameUse /\ DOMAIN db' = DOMAIN db /\ db'.cycles = db.cycles /\ R!Return(c)
      BY <1>0, <1>9, <2>2, ResearchUseSteps DEF R!CheckDone, R!CheckItem, ResearchTables
    <3> QED BY <3>1, ResearchReturns
  <2> QED BY <2>1, <2>2, <1>9 DEF R!CheckDone, R!CheckItem
<1>10. CASE R!markDone(c)
  <2> DEFINE next == [call EXCEPT !.at = "totals"]
  <2>1. SameUse /\ DOMAIN db' = DOMAIN db /\ db'.cycles = db.cycles /\ R!GoTo(c, next) /\ call.at = "markDone"
    BY <1>0, <1>10, ResearchUseSteps DEF R!markDone, ResearchTables
  <2>2. DOMAIN next = DOMAIN R!Idle /\ Spending(next) /\ next.cycle = call.cycle /\ next.at # "finish"
    BY <1>0, <1>10, <2>1 DEF R!Idle, Spending, Unspent, ToSpend, OnePast, TwoPast, Ending, R!withinBudget
  <2> QED BY <2>1, <2>2, ResearchGoesOn
<1> QED BY <1>1, <1>2, <1>3, <1>4, <1>5, <1>6, <1>7, <1>8, <1>9, <1>10

(* Clusters become problems, and candidates are analysed.                   *)
LEMMA SpendingSteps ==
  ASSUME ResearchBudgetInv, NEW c \in Calls,
         \/ \E onTime \in BOOLEAN : R!AfterSearch(c, onTime) \/ R!ToCluster(c, onTime) \/ R!ToProblem(c, onTime)
         \/ R!Through(c) \/ R!ReadCluster(c) \/ R!Analyse(c) \/ R!Market(c)
         \/ \E confident \in BOOLEAN : R!CreateProblem(c, confident)
  PROVE  ResearchBudgetInv'
<1> DEFINE call == calls[c]
<1>0. ResearchUseOK /\ ResearchTables /\ DOMAIN call = DOMAIN R!Idle /\ Spending(call)
  BY DEF ResearchBudgetInv
<1>1. ASSUME NEW onTime \in BOOLEAN, R!AfterSearch(c, onTime) PROVE ResearchBudgetInv'
  <2>1. CASE R!GoTo(c, [call EXCEPT !.at = "clusters"]) /\ R!withinBudget(call)
    <3> DEFINE next == [call EXCEPT !.at = "clusters"]
    <3>1. SameUse /\ DOMAIN db' = DOMAIN db /\ db'.cycles = db.cycles /\ R!GoTo(c, next) /\ call.at = "budget"
      BY <1>0, <1>1, <2>1, ResearchUseSteps DEF R!AfterSearch, R!StopOrGo, ResearchTables
    <3>2. DOMAIN next = DOMAIN R!Idle /\ Spending(next) /\ next.cycle = call.cycle /\ next.at # "finish"
      <4>1. DOMAIN next = DOMAIN R!Idle /\ next.cycle = call.cycle /\ next.at = "clusters" /\ next.models = call.models
            /\ next.tools = call.tools /\ next.op = call.op /\ next.stopped = call.stopped
        BY <1>0 DEF R!Idle
      <4>2. ~call.stopped /\ call.op # "intake"
        BY <1>0, <3>1, Zenon DEF Spending, Ending
      <4>3. call.models <= use.budget.models
        BY <2>1 DEF R!withinBudget
      <4>4. Spending(next)
        BY <1>0, <4>1, <4>2, <4>3 DEF Spending, Unspent, ToSpend, OnePast, TwoPast, Ending, ResearchUseOK
      <4> QED BY <4>1, <4>4
    <3> QED BY <3>1, <3>2, ResearchGoesOn
  <2>2. CASE R!GoTo(c, [call EXCEPT !.at = "checkDone", !.stopped = TRUE]) /\ (~R!withinBudget(call) \/ "slow" \in use.vary)
    <3> DEFINE next == [call EXCEPT !.at = "checkDone", !.stopped = TRUE]
    <3>1. SameUse /\ DOMAIN db' = DOMAIN db /\ db'.cycles = db.cycles /\ R!GoTo(c, next) /\ call.at = "budget"
      BY <1>0, <1>1, <2>2, ResearchUseSteps DEF R!AfterSearch, R!StopOrGo, ResearchTables
    <3>2. DOMAIN next = DOMAIN R!Idle /\ Spending(next) /\ next.cycle = call.cycle /\ next.at # "finish"
      BY <1>0, <1>1, <2>2, <3>1 DEF R!Idle, Spending, Unspent, ToSpend, OnePast, TwoPast, Ending, R!withinBudget
    <3> QED BY <3>1, <3>2, ResearchGoesOn
  <2> QED BY <2>1, <2>2, <1>1 DEF R!AfterSearch, R!StopOrGo
<1>2. ASSUME NEW onTime \in BOOLEAN, R!ToCluster(c, onTime) PROVE ResearchBudgetInv'
  <2>1. CASE R!GoTo(c, [call EXCEPT !.at = "extract"]) /\ R!withinBudget(call)
    <3> DEFINE next == [call EXCEPT !.at = "extract"]
    <3>1. SameUse /\ DOMAIN db' = DOMAIN db /\ db'.cycles = db.cycles /\ R!GoTo(c, next) /\ call.at = "clusters"
      BY <1>0, <1>2, <2>1, ResearchUseSteps DEF R!ToCluster, R!StopOrGo, ResearchTables
    <3>2. DOMAIN next = DOMAIN R!Idle /\ Spending(next) /\ next.cycle = call.cycle /\ next.at # "finish"
      BY <1>0, <1>2, <2>1, <3>1 DEF R!Idle, Spending, Unspent, ToSpend, OnePast, TwoPast, Ending, R!withinBudget
    <3> QED BY <3>1, <3>2, ResearchGoesOn
  <2>2. CASE R!GoTo(c, [call EXCEPT !.at = "checkDone", !.stopped = TRUE]) /\ (~R!withinBudget(call) \/ "slow" \in use.vary)
    <3> DEFINE next == [call EXCEPT !.at = "checkDone", !.stopped = TRUE]
    <3>1. SameUse /\ DOMAIN db' = DOMAIN db /\ db'.cycles = db.cycles /\ R!GoTo(c, next) /\ call.at = "clusters"
      BY <1>0, <1>2, <2>2, ResearchUseSteps DEF R!ToCluster, R!StopOrGo, ResearchTables
    <3>2. DOMAIN next = DOMAIN R!Idle /\ Spending(next) /\ next.cycle = call.cycle /\ next.at # "finish"
      BY <1>0, <1>2, <2>2, <3>1 DEF R!Idle, Spending, Unspent, ToSpend, OnePast, TwoPast, Ending, R!withinBudget
    <3> QED BY <3>1, <3>2, ResearchGoesOn
  <2> QED BY <2>1, <2>2, <1>2 DEF R!ToCluster, R!StopOrGo
<1>3. ASSUME NEW onTime \in BOOLEAN, R!ToProblem(c, onTime) PROVE ResearchBudgetInv'
  <2>1. CASE R!GoTo(c, [call EXCEPT !.at = "compete"]) /\ R!withinBudget(call)
    <3> DEFINE next == [call EXCEPT !.at = "compete"]
    <3>1. SameUse /\ DOMAIN db' = DOMAIN db /\ db'.cycles = db.cycles /\ R!GoTo(c, next) /\ call.at = "problems"
      BY <1>0, <1>3, <2>1, ResearchUseSteps DEF R!ToProblem, R!StopOrGo, ResearchTables
    <3>2. DOMAIN next = DOMAIN R!Idle /\ Spending(next) /\ next.cycle = call.cycle /\ next.at # "finish"
      BY <1>0, <1>3, <2>1, <3>1 DEF R!Idle, Spending, Unspent, ToSpend, OnePast, TwoPast, Ending, R!withinBudget
    <3> QED BY <3>1, <3>2, ResearchGoesOn
  <2>2. CASE R!GoTo(c, [call EXCEPT !.at = "checkDone", !.stopped = TRUE]) /\ (~R!withinBudget(call) \/ "slow" \in use.vary)
    <3> DEFINE next == [call EXCEPT !.at = "checkDone", !.stopped = TRUE]
    <3>1. SameUse /\ DOMAIN db' = DOMAIN db /\ db'.cycles = db.cycles /\ R!GoTo(c, next) /\ call.at = "problems"
      BY <1>0, <1>3, <2>2, ResearchUseSteps DEF R!ToProblem, R!StopOrGo, ResearchTables
    <3>2. DOMAIN next = DOMAIN R!Idle /\ Spending(next) /\ next.cycle = call.cycle /\ next.at # "finish"
      BY <1>0, <1>3, <2>2, <3>1 DEF R!Idle, Spending, Unspent, ToSpend, OnePast, TwoPast, Ending, R!withinBudget
    <3> QED BY <3>1, <3>2, ResearchGoesOn
  <2> QED BY <2>1, <2>2, <1>3 DEF R!ToProblem, R!StopOrGo
<1>4. CASE R!Through(c)
  <2>1. CASE call.at = "clusters"
    <3> DEFINE next == [call EXCEPT !.at = "problems"]
    <3>1. SameUse /\ DOMAIN db' = DOMAIN db /\ db'.cycles = db.cycles /\ R!GoTo(c, next) /\ call.at \in {"clusters", "problems"}
      BY <1>0, <1>4, <2>1, ResearchUseSteps DEF R!Through, ResearchTables
    <3>2. DOMAIN next = DOMAIN R!Idle /\ Spending(next) /\ next.cycle = call.cycle /\ next.at # "finish"
      BY <1>0, <1>4, <2>1, <3>1 DEF R!Idle, Spending, Unspent, ToSpend, OnePast, TwoPast, Ending
    <3> QED BY <3>1, <3>2, ResearchGoesOn
  <2>2. CASE call.at = "problems"
    <3> DEFINE next == [call EXCEPT !.at = "checkDone"]
    <3>1. SameUse /\ DOMAIN db' = DOMAIN db /\ db'.cycles = db.cycles /\ R!GoTo(c, next) /\ call.at \in {"clusters", "problems"}
      BY <1>0, <1>4, <2>2, ResearchUseSteps DEF R!Through, ResearchTables
    <3>2. DOMAIN next = DOMAIN R!Idle /\ Spending(next) /\ next.cycle = call.cycle /\ next.at # "finish"
      BY <1>0, <1>4, <2>2, <3>1 DEF R!Idle, Spending, Unspent, ToSpend, OnePast, TwoPast, Ending
    <3> QED BY <3>1, <3>2, ResearchGoesOn
  <2> QED BY <2>1, <2>2, <1>4 DEF R!Through
<1>5. CASE R!ReadCluster(c)
  <2> DEFINE next == [call EXCEPT !.at = "problem", !.independent = db.clusters[R!Head(call.touched)].independent, !.models = @ + 1]
  <2>1. SameUse /\ DOMAIN db' = DOMAIN db /\ db'.cycles = db.cycles /\ R!GoTo(c, next) /\ call.at = "extract"
    BY <1>0, <1>5, ResearchUseSteps DEF R!ReadCluster, ResearchTables
  <2>2. DOMAIN next = DOMAIN R!Idle /\ Spending(next) /\ next.cycle = call.cycle /\ next.at # "finish"
    BY <1>0, <1>5, <2>1 DEF R!Idle, Spending, Unspent, ToSpend, OnePast, TwoPast, Ending, ResearchUseOK, R!withinBudget
  <2> QED BY <2>1, <2>2, ResearchGoesOn
<1>6. CASE R!Analyse(c)
  <2> DEFINE next == [call EXCEPT !.at = "market", !.tools = @ + 1, !.models = @ + 1]
  <2>1. SameUse /\ DOMAIN db' = DOMAIN db /\ db'.cycles = db.cycles /\ R!GoTo(c, next) /\ call.at = "compete"
    BY <1>0, <1>6, ResearchUseSteps DEF R!Analyse, ResearchTables
  <2>2. DOMAIN next = DOMAIN R!Idle /\ Spending(next) /\ next.cycle = call.cycle /\ next.at # "finish"
    BY <1>0, <1>6, <2>1 DEF R!Idle, Spending, Unspent, ToSpend, OnePast, TwoPast, Ending, ResearchUseOK, R!withinBudget
  <2> QED BY <2>1, <2>2, ResearchGoesOn
<1>7. CASE R!Market(c)
  <2> DEFINE next == [call EXCEPT !.at = "promote", !.models = @ + 1,
                              !.ids = R!SetToSeq(R!Members(db.problems[R!Head(call.problems)].cluster))]
  <2>1. SameUse /\ DOMAIN db' = DOMAIN db /\ db'.cycles = db.cycles /\ R!GoTo(c, next) /\ call.at = "market"
    BY <1>0, <1>7, ResearchUseSteps DEF R!Market, ResearchTables
  <2>2. DOMAIN next = DOMAIN R!Idle /\ Spending(next) /\ next.cycle = call.cycle /\ next.at # "finish"
    BY <1>0, <1>7, <2>1 DEF R!Idle, Spending, Unspent, ToSpend, OnePast, TwoPast, Ending, ResearchUseOK
  <2> QED BY <2>1, <2>2, ResearchGoesOn
<1>8. ASSUME NEW confident \in BOOLEAN, R!CreateProblem(c, confident) PROVE ResearchBudgetInv'
  <2>1. ASSUME NEW problems, R!GoTo(c, [call EXCEPT !.at = "clusters", !.touched = R!Tail(@), !.independent = 0, !.problems = problems])
        PROVE  ResearchBudgetInv'
    <3> DEFINE next == [call EXCEPT !.at = "clusters", !.touched = R!Tail(@), !.independent = 0, !.problems = problems]
    <3>1. SameUse /\ DOMAIN db' = DOMAIN db /\ db'.cycles = db.cycles /\ R!GoTo(c, next) /\ call.at = "problem"
      BY <1>0, <1>8, <2>1, ResearchUseSteps DEF R!CreateProblem, ResearchTables
    <3>2. DOMAIN next = DOMAIN R!Idle /\ Spending(next) /\ next.cycle = call.cycle /\ next.at # "finish"
      BY <1>0, <1>8, <2>1, <3>1 DEF R!Idle, Spending, Unspent, ToSpend, OnePast, TwoPast, Ending
    <3> QED BY <3>1, <3>2, ResearchGoesOn
  <2> QED BY <2>1, <1>8 DEF R!CreateProblem
<1> QED BY <1>1, <1>2, <1>3, <1>4, <1>5, <1>6, <1>7, <1>8

(* Signals become evidence, and problems opportunities.                     *)
LEMMA PromotingSteps ==
  ASSUME ResearchBudgetInv, NEW c \in Calls,
         \/ R!FindEvidence(c) \/ R!CreateEvidence(c) \/ R!CreateOpportunity(c) \/ R!AttachEvidence(c) \/ R!Score(c)
         \/ R!Promote(c) \/ R!AnalyzeGaps(c) \/ R!FindItem(c) \/ R!WriteItem(c)
  PROVE  ResearchBudgetInv'
<1> DEFINE call == calls[c]
<1>0. ResearchUseOK /\ ResearchTables /\ DOMAIN call = DOMAIN R!Idle /\ Spending(call)
  BY DEF ResearchBudgetInv
<1>1. CASE R!FindEvidence(c)
  <2>1. CASE R!GoTo(c, [call EXCEPT !.at = "createEvidence"])
    <3> DEFINE next == [call EXCEPT !.at = "createEvidence"]
    <3>1. SameUse /\ DOMAIN db' = DOMAIN db /\ db'.cycles = db.cycles /\ R!GoTo(c, next) /\ call.at = "promote"
      BY <1>0, <1>1, <2>1, ResearchUseSteps DEF R!FindEvidence, ResearchTables
    <3>2. DOMAIN next = DOMAIN R!Idle /\ Spending(next) /\ next.cycle = call.cycle /\ next.at # "finish"
      BY <1>0, <1>1, <2>1, <3>1 DEF R!Idle, Spending, Unspent, ToSpend, OnePast, TwoPast, Ending
    <3> QED BY <3>1, <3>2, ResearchGoesOn
  <2>2. ASSUME NEW e, R!GoTo(c, [call EXCEPT !.ids = R!Tail(@), !.rest = R!Append(@, e)]) PROVE ResearchBudgetInv'
    <3> DEFINE next == [call EXCEPT !.ids = R!Tail(@), !.rest = R!Append(@, e)]
    <3>1. SameUse /\ DOMAIN db' = DOMAIN db /\ db'.cycles = db.cycles /\ R!GoTo(c, next) /\ call.at = "promote"
      BY <1>0, <1>1, <2>2, ResearchUseSteps DEF R!FindEvidence, ResearchTables
    <3>2. DOMAIN next = DOMAIN R!Idle /\ Spending(next) /\ next.cycle = call.cycle /\ next.at # "finish"
      BY <1>0, <1>1, <2>2, <3>1 DEF R!Idle, Spending, Unspent, ToSpend, OnePast, TwoPast, Ending
    <3> QED BY <3>1, <3>2, ResearchGoesOn
  <2> QED BY <2>1, <2>2, <1>1 DEF R!FindEvidence
<1>2. CASE R!CreateEvidence(c)
  <2> DEFINE next == [call EXCEPT !.at = IF call.op = "intake" THEN "attach" ELSE "promote",
                              !.ids = R!Tail(@), !.rest = R!Append(@, R!Len(db.evidence) + 1)]
  <2>1. SameUse /\ DOMAIN db' = DOMAIN db /\ db'.cycles = db.cycles /\ R!GoTo(c, next) /\ call.at = "createEvidence"
    BY <1>0, <1>2, ResearchUseSteps DEF R!CreateEvidence, ResearchTables
  <2>2. DOMAIN next = DOMAIN R!Idle /\ Spending(next) /\ next.cycle = call.cycle /\ next.at # "finish"
    BY <1>0, <1>2, <2>1 DEF R!Idle, Spending, Unspent, ToSpend, OnePast, TwoPast, Ending, ResearchUseOK
  <2> QED BY <2>1, <2>2, ResearchGoesOn
<1>3. CASE R!CreateOpportunity(c)
  <2>1. CASE call.op = "validate"
    <3> DEFINE next == [call EXCEPT !.at = "attach"]
    <3>1. SameUse /\ DOMAIN db' = DOMAIN db /\ db'.cycles = db.cycles /\ R!GoTo(c, next) /\ call.at = "promote" /\ call.ids = <<>>
      BY <1>0, <1>3, <2>1, ResearchUseSteps DEF R!CreateOpportunity, ResearchTables
    <3>2. DOMAIN next = DOMAIN R!Idle /\ Spending(next) /\ next.cycle = call.cycle /\ next.at # "finish"
      BY <1>0, <1>3, <2>1, <3>1 DEF R!Idle, Spending, Unspent, ToSpend, OnePast, TwoPast, Ending
    <3> QED BY <3>1, <3>2, ResearchGoesOn
  <2>2. CASE call.op # "validate"
    <3> DEFINE next == [call EXCEPT !.at = "attach", !.opp = R!Len(db.opps) + 1, !.models = @ + 1]
    <3>1. SameUse /\ DOMAIN db' = DOMAIN db /\ db'.cycles = db.cycles /\ R!GoTo(c, next) /\ call.at = "promote" /\ call.ids = <<>>
      BY <1>0, <1>3, <2>2, ResearchUseSteps DEF R!CreateOpportunity, ResearchTables
    <3>2. DOMAIN next = DOMAIN R!Idle /\ Spending(next) /\ next.cycle = call.cycle /\ next.at # "finish"
      BY <1>0, <1>3, <2>2, <3>1 DEF R!Idle, Spending, Unspent, ToSpend, OnePast, TwoPast, Ending, ResearchUseOK
    <3> QED BY <3>1, <3>2, ResearchGoesOn
  <2> QED BY <2>1, <2>2, <1>3
<1>4. CASE R!AttachEvidence(c)
  <2> DEFINE next == [call EXCEPT !.rest = R!Tail(@), !.at = IF call.ids = <<>> THEN "attach" ELSE "createEvidence"]
  <2>1. SameUse /\ DOMAIN db' = DOMAIN db /\ db'.cycles = db.cycles /\ R!GoTo(c, next) /\ call.at = "attach"
    BY <1>0, <1>4, ResearchUseSteps DEF R!AttachEvidence, ResearchTables
  <2>2. DOMAIN next = DOMAIN R!Idle /\ Spending(next) /\ next.cycle = call.cycle /\ next.at # "finish"
    BY <1>0, <1>4, <2>1 DEF R!Idle, Spending, Unspent, ToSpend, OnePast, TwoPast, Ending, ResearchUseOK
  <2> QED BY <2>1, <2>2, ResearchGoesOn
<1>5. CASE R!Score(c)
  <2>1. CASE call.op \in {"validate", "intake"}
    <3>1. SameUse /\ DOMAIN db' = DOMAIN db /\ db'.cycles = db.cycles /\ R!Return(c)
      BY <1>0, <1>5, <2>1, ResearchUseSteps DEF R!Score, ResearchTables
    <3> QED BY <3>1, ResearchReturns
  <2>2. CASE call.op \notin {"validate", "intake"}
    <3> DEFINE next == [call EXCEPT !.at = "transition"]
    <3>1. SameUse /\ DOMAIN db' = DOMAIN db /\ db'.cycles = db.cycles /\ R!GoTo(c, next) /\ call.at = "attach"
      BY <1>0, <1>5, <2>2, ResearchUseSteps DEF R!Score, ResearchTables
    <3>2. DOMAIN next = DOMAIN R!Idle /\ Spending(next) /\ next.cycle = call.cycle /\ next.at # "finish"
      BY <1>0, <1>5, <2>2, <3>1 DEF R!Idle, Spending, Unspent, ToSpend, OnePast, TwoPast, Ending
    <3> QED BY <3>1, <3>2, ResearchGoesOn
  <2> QED BY <2>1, <2>2, <1>5
<1>6. CASE R!Promote(c)
  <2> DEFINE next == [call EXCEPT !.at = "gap"]
  <2>1. SameUse /\ DOMAIN db' = DOMAIN db /\ db'.cycles = db.cycles /\ R!GoTo(c, next) /\ call.at = "transition"
    BY <1>0, <1>6, ResearchUseSteps DEF R!Promote, ResearchTables
  <2>2. DOMAIN next = DOMAIN R!Idle /\ Spending(next) /\ next.cycle = call.cycle /\ next.at # "finish"
    BY <1>0, <1>6, <2>1 DEF R!Idle, Spending, Unspent, ToSpend, OnePast, TwoPast, Ending
  <2> QED BY <2>1, <2>2, ResearchGoesOn
<1>7. CASE R!AnalyzeGaps(c)
  <2> DEFINE next == [call EXCEPT !.at = "queue", !.opps = @ + 1]
  <2>1. SameUse /\ DOMAIN db' = DOMAIN db /\ db'.cycles = db.cycles /\ R!GoTo(c, next) /\ call.at = "gap"
    BY <1>0, <1>7, ResearchUseSteps DEF R!AnalyzeGaps, ResearchTables
  <2>2. DOMAIN next = DOMAIN R!Idle /\ Spending(next) /\ next.cycle = call.cycle /\ next.at # "finish"
    BY <1>0, <1>7, <2>1 DEF R!Idle, Spending, Unspent, ToSpend, OnePast, TwoPast, Ending
  <2> QED BY <2>1, <2>2, ResearchGoesOn
<1>8. CASE R!FindItem(c)
  <2>1. ASSUME NEW found, R!GoTo(c, [call EXCEPT !.at = "writeItem", !.found = found]) PROVE ResearchBudgetInv'
    <3> DEFINE next == [call EXCEPT !.at = "writeItem", !.found = found]
    <3>1. SameUse /\ DOMAIN db' = DOMAIN db /\ db'.cycles = db.cycles /\ R!GoTo(c, next) /\ call.at = "queue"
      BY <1>0, <1>8, <2>1, ResearchUseSteps DEF R!FindItem, ResearchTables
    <3>2. DOMAIN next = DOMAIN R!Idle /\ Spending(next) /\ next.cycle = call.cycle /\ next.at # "finish"
      BY <1>0, <1>8, <2>1, <3>1 DEF R!Idle, Spending, Unspent, ToSpend, OnePast, TwoPast, Ending
    <3> QED BY <3>1, <3>2, ResearchGoesOn
  <2> QED BY <2>1, <1>8 DEF R!FindItem
<1>9. CASE R!WriteItem(c)
  <2>1. CASE call.op = "requeue"
    <3>1. SameUse /\ DOMAIN db' = DOMAIN db /\ db'.cycles = db.cycles /\ R!Return(c)
      BY <1>0, <1>9, <2>1, ResearchUseSteps DEF R!WriteItem, ResearchTables
    <3> QED BY <3>1, ResearchReturns
  <2>2. CASE call.op # "requeue"
    <3> DEFINE next == [call EXCEPT !.at = "problems", !.problems = R!Tail(@), !.opp = 0, !.found = 0]
    <3>1. SameUse /\ DOMAIN db' = DOMAIN db /\ db'.cycles = db.cycles /\ R!GoTo(c, next) /\ call.at = "writeItem"
      BY <1>0, <1>9, <2>2, ResearchUseSteps DEF R!WriteItem, ResearchTables
    <3>2. DOMAIN next = DOMAIN R!Idle /\ Spending(next) /\ next.cycle = call.cycle /\ next.at # "finish"
      BY <1>0, <1>9, <2>2, <3>1 DEF R!Idle, Spending, Unspent, ToSpend, OnePast, TwoPast, Ending
    <3> QED BY <3>1, <3>2, ResearchGoesOn
  <2> QED BY <2>1, <2>2, <1>9
<1> QED BY <1>1, <1>2, <1>3, <1>4, <1>5, <1>6, <1>7, <1>8, <1>9

(* Runs, items and cycles fail.                                             *)
LEMMA FailingSteps ==
  ASSUME ResearchBudgetInv, NEW c \in Calls,
         \/ R!RunFails(c) \/ R!ItemFails(c) \/ R!Throws(c)
  PROVE  ResearchBudgetInv'
<1> DEFINE call == calls[c]
<1>0. ResearchUseOK /\ ResearchTables /\ DOMAIN call = DOMAIN R!Idle /\ Spending(call)
  BY DEF ResearchBudgetInv
<1>1. CASE R!RunFails(c)
  <2>0. SameUse /\ DOMAIN db' = DOMAIN db /\ db'.cycles = db.cycles
    BY <1>0, <1>1, ResearchUseSteps DEF R!RunFails, ResearchTables
  <2>1. CASE call.at = "search" /\ \E tools \in 0 .. R!MAX_QUERIES, models \in 0 .. 2 :
               R!GoTo(c, [call EXCEPT !.at = "budget", !.tools = tools, !.models = models])
    <3>1. PICK tools \in 0 .. R!MAX_QUERIES, models \in 0 .. 2 :
            R!GoTo(c, [call EXCEPT !.at = "budget", !.tools = tools, !.models = models])
      BY <2>1
    <3> DEFINE next == [call EXCEPT !.at = "budget", !.tools = tools, !.models = models]
    <3>2. DOMAIN next = DOMAIN R!Idle /\ Spending(next) /\ next.cycle = call.cycle /\ next.at # "finish"
      BY <1>0, <2>1, <3>1 DEF R!Idle, Spending, Unspent, ToSpend, OnePast, TwoPast, Ending, ResearchUseOK, R!MAX_QUERIES
    <3> QED BY <2>0, <3>1, <3>2, ResearchGoesOn
  <2>2. CASE R!GoTo(c, [call EXCEPT !.at = "budget", !.rest = <<>>, !.ids = <<>>, !.verdict = "none"]) /\ call.at \in {"dedup", "store"}
    <3> DEFINE next == [call EXCEPT !.at = "budget", !.rest = <<>>, !.ids = <<>>, !.verdict = "none"]
    <3>1. DOMAIN next = DOMAIN R!Idle /\ Spending(next) /\ next.cycle = call.cycle /\ next.at # "finish"
      BY <1>0, <2>2 DEF R!Idle, Spending, Unspent, ToSpend, OnePast, TwoPast, Ending
    <3> QED BY <2>0, <2>2, <3>1, ResearchGoesOn
  <2>3. CASE R!Return(c)
    BY <2>0, <2>3, ResearchReturns
  <2>4. CASE call.at \in {"extract", "problem"} /\ R!GoTo(c, R!NextCluster(call))
    <3> DEFINE next == R!NextCluster(call)
    <3>1. DOMAIN next = DOMAIN R!Idle /\ Spending(next) /\ next.cycle = call.cycle /\ next.at # "finish"
      BY <1>0, <2>4 DEF R!Idle, Spending, Unspent, ToSpend, OnePast, TwoPast, Ending, ResearchUseOK, R!NextCluster, R!withinBudget
    <3> QED BY <2>0, <2>4, <3>1, ResearchGoesOn
  <2>5. CASE call.at = "compete" /\ \E tools \in 0 .. 1 : R!GoTo(c, [call EXCEPT !.at = "market", !.tools = @ + tools])
    <3>1. PICK tools \in 0 .. 1 : R!GoTo(c, [call EXCEPT !.at = "market", !.tools = @ + tools])
      BY <2>5
    <3> DEFINE next == [call EXCEPT !.at = "market", !.tools = @ + tools]
    <3>2. DOMAIN next = DOMAIN R!Idle /\ Spending(next) /\ next.cycle = call.cycle /\ next.at # "finish"
      BY <1>0, <2>5, <3>1 DEF R!Idle, Spending, Unspent, ToSpend, OnePast, TwoPast, Ending, ResearchUseOK, R!withinBudget
    <3> QED BY <2>0, <3>1, <3>2, ResearchGoesOn
  <2>6. CASE call.at \in {"market", "promote"} /\ R!GoTo(c, [R!NextProblem(call) EXCEPT !.models = @ + 1])
    <3> DEFINE next == [R!NextProblem(call) EXCEPT !.models = @ + 1]
    <3>1. DOMAIN next = DOMAIN R!Idle /\ Spending(next) /\ next.cycle = call.cycle /\ next.at # "finish" /\ next.at = "problems"
      <4>1. DOMAIN next = DOMAIN R!Idle /\ next.cycle = call.cycle /\ next.at = "problems" /\ next.models = call.models + 1
            /\ next.tools = call.tools /\ next.op = call.op /\ next.stopped = call.stopped
        BY <1>0 DEF R!NextProblem, R!Idle
      <4>2. ~call.stopped /\ call.op # "intake" /\ call.models <= use.budget.models + 2
        <5>1. call.at \notin Ending /\ call.at \notin {"createEvidence", "attach"} /\ call.at \in OnePast \cup TwoPast
          BY <2>6 DEF Ending, OnePast, TwoPast
        <5>2. call.models \in Nat /\ use.budget.models \in Nat
          BY <1>0 DEF Spending, ResearchUseOK
        <5>3. ~call.stopped /\ call.op # "intake" /\ (call.models <= use.budget.models + 1 \/ call.models <= use.budget.models + 2)
          BY <1>0, <5>1, Zenon DEF Spending
        <5> QED BY <5>2, <5>3
      <4>3. Spending(next)
        <5>1. next.models \in Nat /\ next.models <= use.budget.models + 3
          BY <1>0, <4>1, <4>2 DEF Spending, ResearchUseOK
        <5>2. call.tools \in Nat /\ call.stopped \in BOOLEAN /\ (call.tools <= use.budget.tools + 1 \/ call.tools <= R!MAX_QUERIES)
          BY <1>0, Zenon DEF Spending
        <5>3. next.at \notin Unspent /\ next.at \notin ToSpend /\ next.at \notin OnePast /\ next.at \notin TwoPast /\ next.at # "attach"
          BY <4>1 DEF Unspent, ToSpend, OnePast, TwoPast
        <5> QED BY <4>1, <4>2, <5>1, <5>2, <5>3, Zenon DEF Spending
      <4> QED BY <4>1, <4>3
    <3> QED BY <2>0, <2>6, <3>1, ResearchGoesOn
  <2>7. CASE R!GoTo(c, R!NextProblem(call)) /\ call.op = "cycle" /\ call.at \notin Ending
    <3> DEFINE next == R!NextProblem(call)
    <3>1. DOMAIN next = DOMAIN R!Idle /\ Spending(next) /\ next.cycle = call.cycle /\ next.at # "finish"
      BY <1>0, <2>7 DEF R!Idle, Spending, Unspent, ToSpend, OnePast, TwoPast, Ending, R!NextProblem
    <3> QED BY <2>0, <2>7, <3>1, ResearchGoesOn
  <2> QED BY <2>1, <2>2, <2>3, <2>4, <2>5, <2>6, <2>7, <1>1 DEF R!RunFails, Ending
<1>2. CASE R!ItemFails(c)
  <2>1. CASE R!GoTo(c, [call EXCEPT !.at = "dedup", !.rest = R!Tail(@), !.verdict = "none"])
    <3> DEFINE next == [call EXCEPT !.at = "dedup", !.rest = R!Tail(@), !.verdict = "none"]
    <3>1. SameUse /\ DOMAIN db' = DOMAIN db /\ db'.cycles = db.cycles /\ R!GoTo(c, next) /\ call.at \in TwoPast
      BY <1>0, <1>2, <2>1, ResearchUseSteps DEF R!ItemFails, TwoPast, ResearchTables
    <3>2. DOMAIN next = DOMAIN R!Idle /\ Spending(next) /\ next.cycle = call.cycle /\ next.at # "finish"
      <4>1. DOMAIN next = DOMAIN R!Idle /\ next.cycle = call.cycle /\ next.at = "dedup" /\ next.models = call.models
            /\ next.tools = call.tools /\ next.op = call.op /\ next.stopped = call.stopped
        BY <1>0 DEF R!Idle
      <4>2. call.op = "import"
        BY <1>2 DEF R!ItemFails
      <4>3. ~call.stopped /\ call.models <= use.budget.models + 2
        BY <1>0, <3>1, Zenon DEF Spending, TwoPast, Ending
      <4>4. Spending(next)
        BY <1>0, <4>1, <4>2, <4>3 DEF Spending, Unspent, ToSpend, OnePast, TwoPast, Ending, ResearchUseOK
      <4> QED BY <4>1, <4>4
    <3> QED BY <3>1, <3>2, ResearchGoesOn
  <2>2. CASE R!GoTo(c, [call EXCEPT !.at = "dedup", !.cluster = 0, !.count = 0, !.independent = 0])
    <3> DEFINE next == [call EXCEPT !.at = "dedup", !.cluster = 0, !.count = 0, !.independent = 0]
    <3>1. SameUse /\ DOMAIN db' = DOMAIN db /\ db'.cycles = db.cycles /\ R!GoTo(c, next) /\ call.at \in TwoPast
      BY <1>0, <1>2, <2>2, ResearchUseSteps DEF R!ItemFails, TwoPast, ResearchTables
    <3>2. DOMAIN next = DOMAIN R!Idle /\ Spending(next) /\ next.cycle = call.cycle /\ next.at # "finish"
      <4>1. DOMAIN next = DOMAIN R!Idle /\ next.cycle = call.cycle /\ next.at = "dedup" /\ next.models = call.models
            /\ next.tools = call.tools /\ next.op = call.op /\ next.stopped = call.stopped
        BY <1>0 DEF R!Idle
      <4>2. call.op = "import"
        BY <1>2 DEF R!ItemFails
      <4>3. ~call.stopped /\ call.models <= use.budget.models + 2
        BY <1>0, <3>1, Zenon DEF Spending, TwoPast, Ending
      <4>4. Spending(next)
        BY <1>0, <4>1, <4>2, <4>3 DEF Spending, Unspent, ToSpend, OnePast, TwoPast, Ending, ResearchUseOK
      <4> QED BY <4>1, <4>4
    <3> QED BY <3>1, <3>2, ResearchGoesOn
  <2> QED BY <2>1, <2>2, <1>2 DEF R!ItemFails, TwoPast
<1>3. CASE R!Throws(c)
  <2>1. SameUse /\ DOMAIN db' = DOMAIN db /\ db'.cycles = db.cycles /\ R!Return(c)
    BY <1>0, <1>3, ResearchUseSteps DEF R!Throws, ResearchTables
  <2> QED BY <2>1, ResearchReturns
<1> QED BY <1>1, <1>2, <1>3

(* The rows of the cycles: one is added, and a cycle writes its own.       *)
LEMMA RunCycleInv == ASSUME ResearchBudgetInv, NEW c \in Calls, R!RunCycle(c) PROVE ResearchBudgetInv'
<1> DEFINE row == R!NewResearchCycle
           rows == db.cycles
<1>0. PICK call : call = [R!Idle EXCEPT !.op = "cycle", !.at = "authorize", !.cycle = Len(rows) + 1]
  OBVIOUS
<1>1. SameUse /\ db' = [db EXCEPT !.cycles = Append(rows, row)] /\ calls' = [calls EXCEPT ![c] = call]
  <2>1. \A s, t : R!Append(s, t) = Append(s, t) /\ R!Len(s) = Len(s)
    OBVIOUS
  <2> QED BY <1>0, <2>1, ResearchUseSteps DEF R!RunCycle, R!GoTo, ResearchBudgetInv
<1>2. PICK T : rows \in Seq(T)
  BY DEF ResearchBudgetInv, ResearchTables
<1>3. PICK n \in Nat : n = Len(rows)
  BY <1>2
<1>4. db'.cycles = Append(rows, row) /\ DOMAIN db' = DOMAIN db /\ DOMAIN rows = 1 .. n /\ DOMAIN db'.cycles = 1 .. n + 1
      /\ (\A k \in 1 .. n : db'.cycles[k] = rows[k]) /\ db'.cycles[n + 1] = row
  <2>1. db'.cycles = Append(rows, row) /\ DOMAIN db' = DOMAIN db
    BY <1>1 DEF ResearchBudgetInv, ResearchTables
  <2> QED BY <1>2, <1>3, <2>1
<1>5. ResearchUseOK' /\ ResearchTables' /\ StoppedInTime'
  <2>1. ResearchUseOK'
    BY <1>1 DEF ResearchBudgetInv, ResearchUseOK, SameUse
  <2>2. db'.cycles \in Seq(T \cup {row})
    <3>1. rows \in Seq(T \cup {row})
      BY <1>2
    <3> QED BY <1>4, <3>1
  <2>3. \A k \in DOMAIN db'.cycles : DOMAIN db'.cycles[k] = DOMAIN R!NewResearchCycle
    BY <1>3, <1>4 DEF ResearchBudgetInv, ResearchTables
  <2>4. row.status # "STOPPED"
    BY DEF R!NewResearchCycle
  <2>5. \A k : R!withinBudget(k)' <=> R!withinBudget(k)
    BY <1>1 DEF R!withinBudget, SameUse
  <2>6. StoppedInTime'
    <3> SUFFICES ASSUME NEW k \in DOMAIN db'.cycles, db'.cycles[k].status = "STOPPED", "slow" \notin use.vary
                 PROVE  ~R!withinBudget([signals |-> db'.cycles[k].signals, tools |-> db'.cycles[k].tools, models |-> db'.cycles[k].models])
      BY <1>1, <2>5 DEF StoppedInTime, SameUse
    <3>1. k \in 1 .. n
      BY <1>3, <1>4, <2>4
    <3> QED BY <1>4, <3>1 DEF ResearchBudgetInv, StoppedInTime
  <2> QED BY <1>4, <2>1, <2>2, <2>3, <2>6 DEF ResearchBudgetInv, ResearchTables, R!NewResearchCycle
<1>6. DOMAIN calls' = Calls /\ calls'[c] = call /\ \A d \in Calls \ {c} : calls'[d] = calls[d]
  BY <1>1 DEF ResearchBudgetInv
<1>7. \A d \in Calls : calls[d].cycle # 0 => calls[d].cycle \in 1 .. n
  BY <1>4 DEF ResearchBudgetInv, OnItsRow
<1>8. DOMAIN call = DOMAIN R!Idle /\ Spending(call) /\ call.cycle = n + 1 /\ call.at = "authorize"
  BY <1>0, <1>3 DEF R!Idle, Spending, Unspent, ToSpend, OnePast, TwoPast, Ending, ResearchBudgetInv, ResearchUseOK
<1>9. ASSUME NEW d \in Calls PROVE (DOMAIN calls[d] = DOMAIN R!Idle /\ Spending(calls[d]) /\ OnItsRow(calls[d]))'
  <2>1. \A k : Spending(k) => Spending(k)'
    BY <1>1 DEF Spending, SameUse, R!withinBudget
  <2>2. CASE d = c
    <3>1. OnItsRow(call)'
      BY <1>3, <1>4, <1>8 DEF OnItsRow, R!NewResearchCycle
    <3> QED BY <1>6, <1>8, <2>1, <2>2, <3>1 DEF R!Idle
  <2>3. CASE d # c
    <3>1. OnItsRow(calls[d])'
      BY <1>3, <1>4, <1>6, <1>7, <2>3 DEF OnItsRow, ResearchBudgetInv
    <3> QED BY <1>6, <2>1, <2>3, <3>1 DEF R!Idle, ResearchBudgetInv
  <2> QED BY <2>2, <2>3
<1>10. ASSUME NEW d \in Calls, NEW e \in Calls, calls'[d].cycle = calls'[e].cycle, calls'[d].cycle # 0 PROVE d = e
  BY <1>3, <1>6, <1>7, <1>8, <1>10 DEF ResearchBudgetInv
<1> QED BY <1>5, <1>6, <1>9, <1>10 DEF ResearchBudgetInv

LEMMA RowWritten ==
  ASSUME ResearchBudgetInv, SameUse, NEW c \in Calls, NEW row, NEW call, DOMAIN call = DOMAIN R!Idle,
         db' = [db EXCEPT !.cycles[calls[c].cycle] = row], calls' = [calls EXCEPT ![c] = call], Spending(call),
         calls[c].cycle # 0 => DOMAIN row = DOMAIN R!NewResearchCycle,
         \/ /\ call.cycle = calls[c].cycle /\ (call.cycle # 0 => row.status # "STOPPED")
            /\ call.at = "finish" /\ call.cycle # 0 => row.signals = call.signals /\ row.tools = call.tools /\ row.models = call.models
         \/ /\ call.cycle = 0
            /\ (row.status = "STOPPED" /\ "slow" \notin use.vary /\ calls[c].cycle # 0) =>
                 ~R!withinBudget([signals |-> row.signals, tools |-> row.tools, models |-> row.models])
  PROVE  ResearchBudgetInv'
<1> DEFINE k == calls[c].cycle
           rows == db.cycles
<1>1. PICK T : rows \in Seq(T)
  BY DEF ResearchBudgetInv, ResearchTables
<1>2. PICK n \in Nat : n = Len(rows) /\ DOMAIN rows = 1 .. n
  BY <1>1
<1>3. k # 0 => k \in 1 .. n
  BY <1>2 DEF ResearchBudgetInv, OnItsRow
<1>4. DOMAIN db' = DOMAIN db /\ db'.cycles = [rows EXCEPT ![k] = row]
  BY DEF ResearchBudgetInv, ResearchTables
<1>5. DOMAIN db'.cycles = 1 .. n /\ (k # 0 => db'.cycles[k] = row) /\ \A j \in 1 .. n : j # k => db'.cycles[j] = rows[j]
  BY <1>2, <1>3, <1>4
<1>6. ResearchUseOK' /\ ResearchTables' /\ StoppedInTime'
  <2>1. ResearchUseOK'
    BY DEF ResearchBudgetInv, ResearchUseOK, SameUse
  <2>2. db'.cycles \in Seq(T \cup {row})
    <3>1. rows \in Seq(T \cup {row})
      BY <1>1
    <3>2. CASE k = 0
      <4>1. db'.cycles = rows
        BY <1>1, <1>2, <1>4, <3>2
      <4> QED BY <3>1, <4>1
    <3>3. CASE k # 0
      BY <1>2, <1>3, <1>4, <3>1, <3>3, ExceptSeq
    <3> QED BY <3>2, <3>3
  <2>3. \A j \in DOMAIN db'.cycles : DOMAIN db'.cycles[j] = DOMAIN R!NewResearchCycle
    BY <1>2, <1>3, <1>5 DEF ResearchBudgetInv, ResearchTables
  <2>4. \A j : R!withinBudget(j)' <=> R!withinBudget(j)
    BY DEF R!withinBudget, SameUse
  <2>5. StoppedInTime'
    <3> SUFFICES ASSUME NEW j \in 1 .. n, db'.cycles[j].status = "STOPPED", "slow" \notin use.vary
                 PROVE  ~R!withinBudget([signals |-> db'.cycles[j].signals, tools |-> db'.cycles[j].tools, models |-> db'.cycles[j].models])
      BY <1>5, <2>4 DEF StoppedInTime, SameUse
    <3>1. CASE j = k
      BY <1>2, <1>5, <3>1
    <3>2. CASE j # k
      BY <1>2, <1>5, <3>2 DEF ResearchBudgetInv, StoppedInTime
    <3> QED BY <3>1, <3>2
  <2> QED BY <1>4, <2>1, <2>2, <2>3, <2>5 DEF ResearchBudgetInv, ResearchTables, R!NewResearchCycle
<1>7. DOMAIN calls' = Calls /\ calls'[c] = call /\ \A d \in Calls \ {c} : calls'[d] = calls[d]
  BY DEF ResearchBudgetInv
<1>8. ASSUME NEW d \in Calls PROVE (DOMAIN calls[d] = DOMAIN R!Idle /\ Spending(calls[d]) /\ OnItsRow(calls[d]))'
  <2>1. \A i : Spending(i) => Spending(i)'
    BY DEF Spending, SameUse, R!withinBudget
  <2>2. CASE d = c
    <3>1. OnItsRow(call)'
      BY <1>3, <1>5 DEF OnItsRow
    <3> QED BY <1>7, <2>1, <2>2, <3>1 DEF R!Idle
  <2>3. CASE d # c
    <3>1. calls[d].cycle # 0 => calls[d].cycle \in 1 .. n /\ calls[d].cycle # k
      BY <1>2, <2>3 DEF ResearchBudgetInv, OnItsRow
    <3>2. OnItsRow(calls[d])'
      BY <1>2, <1>5, <3>1 DEF OnItsRow, ResearchBudgetInv
    <3> QED BY <1>7, <2>1, <2>3, <3>2 DEF R!Idle, ResearchBudgetInv
  <2> QED BY <2>2, <2>3
<1>9. ASSUME NEW d \in Calls, NEW e \in Calls, calls'[d].cycle = calls'[e].cycle, calls'[d].cycle # 0 PROVE d = e
  BY <1>7, <1>9 DEF ResearchBudgetInv
<1> QED BY <1>6, <1>7, <1>8, <1>9 DEF ResearchBudgetInv

(* The row a cycle writes, whatever it writes of it.                       *)
LEMMA RowOfCycle ==
  ASSUME ResearchBudgetInv, NEW c \in Calls
  PROVE  LET k == calls[c].cycle
             row == db.cycles[k]
         IN  /\ "cycles" \in DOMAIN db /\ (k # 0 => DOMAIN row = DOMAIN R!NewResearchCycle) /\ (k # 0 <=> k \in DOMAIN db.cycles)
             /\ \A s : [db EXCEPT !.cycles[k].status = s] = [db EXCEPT !.cycles[k] = [row EXCEPT !.status = s]]
<1> DEFINE k == calls[c].cycle
           row == db.cycles[k]
<1>1. PICK T : db.cycles \in Seq(T)
  BY DEF ResearchBudgetInv, ResearchTables
<1>2. k # 0 => k \in DOMAIN db.cycles /\ DOMAIN row = DOMAIN R!NewResearchCycle
  BY DEF ResearchBudgetInv, ResearchTables, OnItsRow
<1>3. "cycles" \in DOMAIN db
  BY DEF ResearchBudgetInv, ResearchTables
<1>4. k = 0 => k \notin DOMAIN db.cycles
  BY <1>1
<1>5. \A s : [db EXCEPT !.cycles[k].status = s] = [db EXCEPT !.cycles[k] = [row EXCEPT !.status = s]]
  BY <1>2, <1>3, <1>4
<1> QED BY <1>2, <1>3, <1>4, <1>5

LEMMA CycleSteps ==
  ASSUME ResearchBudgetInv, NEW c \in Calls, R!Authorize(c, FALSE) \/ R!BeginCycle(c) \/ R!WriteTotals(c) \/ R!FinishCycle(c)
  PROVE  ResearchBudgetInv'
<1> DEFINE call == calls[c]
           row == db.cycles[call.cycle]
<1>0. ResearchUseOK /\ ResearchTables /\ DOMAIN call = DOMAIN R!Idle /\ Spending(call) /\ OnItsRow(call)
  BY DEF ResearchBudgetInv
<1>1. call.cycle # 0 => DOMAIN row = DOMAIN R!NewResearchCycle
  BY RowOfCycle
<1>2. "cycles" \in DOMAIN db /\ (call.cycle # 0 <=> call.cycle \in DOMAIN db.cycles)
  BY RowOfCycle
<1>3. CASE R!Authorize(c, FALSE)
  <2> DEFINE written == [row EXCEPT !.status = "AWAITING_HUMAN"]
  <2>1. SameUse /\ db' = [db EXCEPT !.cycles[call.cycle] = written] /\ calls' = [calls EXCEPT ![c] = R!Idle]
    BY <1>0, <1>3, ResearchUseSteps, RowOfCycle DEF R!Authorize, R!Return, R!GoTo
  <2>2. call.cycle # 0 => DOMAIN written = DOMAIN R!NewResearchCycle /\ written.status # "STOPPED"
    BY <1>1 DEF R!NewResearchCycle
  <2> QED BY <1>0, <2>1, <2>2, ResearchIdle, RowWritten
<1>4. CASE R!BeginCycle(c)
  <2> DEFINE written == [row EXCEPT !.status = "RUNNING", !.objective = call.item]
             next == [call EXCEPT !.at = "search"]
  <2>1. SameUse /\ db' = [db EXCEPT !.cycles[call.cycle] = written] /\ calls' = [calls EXCEPT ![c] = next] /\ call.at = "begin"
    <3>1. /\ db' = [db EXCEPT !.cycles[call.cycle].status = "RUNNING", !.cycles[call.cycle].objective = call.item]
          /\ SameUse /\ calls' = [calls EXCEPT ![c] = next] /\ call.at = "begin"
      BY <1>0, <1>4, ResearchUseSteps DEF R!BeginCycle, R!GoTo
    <3>2. [db EXCEPT !.cycles[call.cycle].status = "RUNNING", !.cycles[call.cycle].objective = call.item] =
            [db EXCEPT !.cycles[call.cycle] = written]
      BY <1>1, <1>2 DEF R!NewResearchCycle
    <3> QED BY <3>1, <3>2
  <2>2. call.cycle # 0 => DOMAIN written = DOMAIN R!NewResearchCycle /\ written.status # "STOPPED"
    BY <1>1 DEF R!NewResearchCycle
  <2>3. DOMAIN next = DOMAIN R!Idle /\ Spending(next) /\ next.cycle = call.cycle /\ next.at # "finish"
    BY <1>0, <2>1 DEF R!Idle, Spending, Unspent, ToSpend, OnePast, TwoPast, Ending
  <2> QED BY <2>1, <2>2, <2>3, RowWritten
<1>5. CASE R!WriteTotals(c)
  <2> DEFINE written == [row EXCEPT !.signals = call.signals, !.tools = call.tools, !.models = call.models, !.opps = call.opps]
             next == [call EXCEPT !.at = "finish"]
  <2>1. SameUse /\ db' = [db EXCEPT !.cycles[call.cycle] = written] /\ calls' = [calls EXCEPT ![c] = next] /\ call.at = "totals"
    BY <1>0, <1>5, ResearchUseSteps DEF R!WriteTotals, R!GoTo
  <2>2. call.cycle # 0 => /\ DOMAIN written = DOMAIN R!NewResearchCycle /\ written.status # "STOPPED"
                          /\ written.signals = call.signals /\ written.tools = call.tools /\ written.models = call.models
    BY <1>0, <1>1 DEF R!NewResearchCycle, OnItsRow
  <2>3. DOMAIN next = DOMAIN R!Idle /\ Spending(next) /\ next.cycle = call.cycle
        /\ next.signals = call.signals /\ next.tools = call.tools /\ next.models = call.models
    BY <1>0, <2>1 DEF R!Idle, Spending, Unspent, ToSpend, OnePast, TwoPast, Ending, R!withinBudget
  <2> QED BY <2>1, <2>2, <2>3, RowWritten
<1>6. CASE R!FinishCycle(c)
  <2> DEFINE written == [row EXCEPT !.status = IF call.stopped THEN "STOPPED" ELSE "COMPLETED"]
  <2>1. SameUse /\ db' = [db EXCEPT !.cycles[call.cycle] = written] /\ calls' = [calls EXCEPT ![c] = R!Idle] /\ call.at = "finish"
    BY <1>0, <1>6, ResearchUseSteps, RowOfCycle DEF R!FinishCycle, R!Return, R!GoTo
  <2>2. call.cycle # 0 => /\ DOMAIN written = DOMAIN R!NewResearchCycle /\ (written.status = "STOPPED" => call.stopped)
                          /\ written.signals = call.signals /\ written.tools = call.tools /\ written.models = call.models
    BY <1>0, <1>1, <2>1 DEF R!NewResearchCycle, OnItsRow
  <2>3. call.stopped => "slow" \in use.vary \/ ~R!withinBudget(call)
    BY <1>0 DEF Spending
  <2>4. call.cycle # 0 => (R!withinBudget([signals |-> written.signals, tools |-> written.tools, models |-> written.models])
                              <=> R!withinBudget(call))
    BY <2>2 DEF R!withinBudget
  <2>5. (written.status = "STOPPED" /\ "slow" \notin use.vary /\ call.cycle # 0) =>
          ~R!withinBudget([signals |-> written.signals, tools |-> written.tools, models |-> written.models])
    BY <2>2, <2>3, <2>4
  <2> HIDE DEF written
  <2> QED BY <1>0, <2>1, <2>2, <2>5, ResearchIdle, RowWritten
<1> QED BY <1>3, <1>4, <1>5, <1>6

LEMMA ResearchRestartInv == ASSUME ResearchBudgetInv, R!Restart PROVE ResearchBudgetInv'
<1>1. SameUse /\ UNCHANGED db /\ calls' = [c \in Calls |-> R!Idle]
  BY DEF R!Restart, SameUse, ResearchBudgetInv, ResearchUseOK
<1>2. ResearchUseOK' /\ ResearchTables' /\ StoppedInTime'
  BY <1>1 DEF ResearchBudgetInv, ResearchUseOK, ResearchTables, StoppedInTime, SameUse, R!withinBudget, R!NewResearchCycle
<1>3. Spending(R!Idle)' /\ OnItsRow(R!Idle)'
  <2>1. Spending(R!Idle) /\ R!Idle.cycle = 0
    BY ResearchIdle DEF ResearchBudgetInv
  <2>2. Spending(R!Idle)'
    BY <1>1, <2>1 DEF Spending, SameUse, R!withinBudget, R!Idle
  <2> QED BY <2>1, <2>2 DEF OnItsRow, R!Idle
<1> QED BY <1>1, <1>2, <1>3 DEF ResearchBudgetInv, R!Idle

LEMMA ResearchInitInv == ASSUME R!ResearchConstants, R!ResearchInit PROVE ResearchBudgetInv
<1>1. ResearchUseOK
  BY DEF R!ResearchConstants, R!Use, R!ResearchInit, ResearchUseOK
<1>2. db.cycles = <<>> /\ DOMAIN db = {"signals", "clusters", "problems", "evidence", "opps", "gaps", "items", "cycles"}
  BY DEF R!ResearchInit
<1>3. db.cycles \in Seq({}) /\ DOMAIN db.cycles = {}
  BY <1>2
<1>4. calls = [c \in Calls |-> R!Idle]
  BY DEF R!ResearchInit
<1>5. \A c \in Calls : calls[c] = R!Idle /\ calls[c].cycle = 0 /\ Spending(calls[c])
  BY <1>1, <1>4, ResearchIdle
<1> QED BY <1>1, <1>2, <1>3, <1>4, <1>5 DEF ResearchBudgetInv, ResearchTables, StoppedInTime, OnItsRow

LEMMA ResearchNextInv == ASSUME ResearchBudgetInv, [R!ResearchNext]_(R!vars) PROVE ResearchBudgetInv'
<1>1. CASE UNCHANGED R!vars
  <2>1. UNCHANGED <<use, db, calls>>
    BY <1>1 DEF R!vars
  <2> QED BY <2>1 DEF ResearchBudgetInv, ResearchUseOK, ResearchTables, StoppedInTime, Spending, OnItsRow, R!withinBudget, R!NewResearchCycle, R!Idle
<1>2. ASSUME NEW c \in Calls, R!Step(c) PROVE ResearchBudgetInv'
  <2>1. ASSUME NEW granted \in BOOLEAN, R!Authorize(c, granted) PROVE ResearchBudgetInv'
    BY <2>1, ItemSteps, CycleSteps
  <2>2. ASSUME NEW onTime \in BOOLEAN, R!AfterSearch(c, onTime) \/ R!ToCluster(c, onTime) \/ R!ToProblem(c, onTime) PROVE ResearchBudgetInv'
    BY <2>2, SpendingSteps
  <2>3. ASSUME NEW confident \in BOOLEAN, R!CreateProblem(c, confident) PROVE ResearchBudgetInv'
    BY <2>3, SpendingSteps
  <2>4. ASSUME NEW batch \in use.batches, R!Search(c, batch) PROVE ResearchBudgetInv'
    BY <2>4, ItemSteps
  <2> QED BY <1>2, <2>1, <2>2, <2>3, <2>4, CollectingSteps, PlacingSteps, ItemSteps, SpendingSteps, PromotingSteps, FailingSteps, CycleSteps
          DEF R!Step
<1>3. ASSUME NEW c \in Calls, NEW batch \in use.batches, NEW op \in {"collect", "import"}, R!CollectSignals(c, op, batch)
      PROVE  ResearchBudgetInv'
  BY <1>3, CollectingSteps
<1>4. ASSUME NEW c \in Calls, NEW batch \in use.batches, NEW opp \in DOMAIN db.opps, R!SearchForClaim(c, opp, batch)
      PROVE  ResearchBudgetInv'
  BY <1>4, CollectingSteps
<1>5. ASSUME NEW c \in Calls, R!RunCycle(c) PROVE ResearchBudgetInv'
  BY <1>5, RunCycleInv
<1>6. ASSUME NEW c \in Calls, R!Intake(c) PROVE ResearchBudgetInv'
  BY <1>6, ItemSteps
<1>7. ASSUME NEW c \in Calls, NEW opp \in DOMAIN db.opps, R!Requeue(c, opp) PROVE ResearchBudgetInv'
  BY <1>7, ItemSteps
<1> QED BY <1>1, <1>2, <1>3, <1>4, <1>5, <1>6, <1>7, ResearchRestartInv DEF R!ResearchNext

LEMMA ResearchBudgetInvImplies == ASSUME ResearchBudgetInv PROVE R!CyclesKeepTheirResearchBudget
BY DEF ResearchBudgetInv, Spending, StoppedInTime, R!CyclesKeepTheirResearchBudget

Researching == focus = "research"

LEMMA ResearchingBehaves ==
  /\ Init /\ Researching => R!ResearchInit
  /\ Researching /\ [Next]_vars => Researching' /\ [R!ResearchNext]_(R!vars)
  /\ ~Researching /\ [Next]_vars => ~Researching'
<1>1. Init /\ Researching => R!ResearchInit
  BY DEF Init, Researching
<1>2. Researching /\ [Next]_vars => Researching' /\ [R!ResearchNext]_(R!vars)
  BY DEF Researching, Next, vars, R!vars
<1>3. ~Researching /\ [Next]_vars => ~Researching'
  BY DEF Researching, Next, vars
<1> QED BY <1>1, <1>2, <1>3

(* No cycle passes a budget by more than the claim, cluster or problem it  *)
(* was at work on when it last looked, or by the calls of its own search,  *)
(* and none is stopped that was within its budgets and its time, for any   *)
(* number of requests, cycles, faults and restarts.                        *)
THEOREM CyclesKeepBudgets == Spec => []CyclesKeepTheirBudget
<1> DEFINE Inv == /\ Resolving => DecisionInv /\ DecisionBudgetInv
                  /\ Researching => ResearchBudgetInv
<1>1. Init => Inv
  BY ResolvingBehaves, ResearchingBehaves, DecisionInitInv, DecisionBudgetInitInv, ResearchInitInv, DecisionAssumption, ResearchAssumption
<1>2. Inv /\ [Next]_vars => Inv'
  <2> SUFFICES ASSUME Inv, [Next]_vars PROVE Inv'
    OBVIOUS
  <2>1. Resolving' => DecisionInv'
    BY ResolvingBehaves, DecisionNextInv, DecisionAssumption
  <2>2. Resolving' => DecisionBudgetInv'
    <3>1. DecisionInv' => DecisionShape'
      BY DEF DecisionInv
    <3> QED BY <2>1, <3>1, ResolvingBehaves, DecisionBudgetNextInv
  <2>3. Researching' => ResearchBudgetInv'
    BY ResearchingBehaves, ResearchNextInv
  <2> QED BY <2>1, <2>2, <2>3
<1>3. Inv => CyclesKeepTheirBudget
  BY ResearchBudgetInvImplies DEF CyclesKeepTheirBudget, DecisionBudgetInv, Resolving, Researching
<1> QED BY <1>1, <1>2, <1>3, PTL DEF Spec
=============================================================================
