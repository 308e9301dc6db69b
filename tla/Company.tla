------------------------------ MODULE Company ------------------------------
(***************************************************************************)
(* The components of the company that share no state with each other, side *)
(* by side: a behaviour is one of the component its focus names, in one of *)
(* the component's uses, and the variables are that component's.           *)
(*                                                                         *)
(* Billing is an instance of the module of its proofs, which extends it.   *)
(***************************************************************************)
EXTENDS HumanApprovals, Accountability

CONSTANTS
  MaxModels, MaxPlans, MaxAccounts, MaxEvents, BillingUses, \* Billing
  MaxAlerts, MaxRaises, MaxRows, MaxDecisions, MaxItems, DeskUses,   \* FounderDesk
  RECENT_COMPARISON_WINDOW, MAX_CLUSTERS_TO_COMPARE, ResearchUses    \* Research

VARIABLE focus

vars == <<focus, use, db, calls, memory, history>>

B == INSTANCE BillingProofs WITH events <- history, Uses <- BillingUses
K == INSTANCE FounderDesk WITH asked <- history, Uses <- DeskUses
R == INSTANCE Research WITH given <- history, Uses <- ResearchUses

(* What the theorems about the components assume of the constants.         *)
ASSUME BillingAssumption == B!BillingConstants
ASSUME ResearchAssumption == R!ResearchConstants

-----------------------------------------------------------------------------
Init ==
  \/ focus = "outreach" /\ O!OutreachInit
  \/ focus = "billing" /\ B!BillingInit
  \/ focus = "factory" /\ F!FactoryInit
  \/ focus = "decision" /\ D!DecisionInit /\ memory = {}
  \/ focus = "access" /\ A!AccessInit /\ memory = {}
  \/ focus = "desk" /\ K!DeskInit /\ memory = {}
  \/ focus = "research" /\ R!ResearchInit /\ memory = {}
  \/ focus = "growth" /\ G!GrowthInit /\ memory = {}
  \/ focus = "predictions" /\ P!PredictionsInit /\ memory = {}
  \/ focus = "discovery" /\ V!DiscoveryInit /\ memory = {}

Next ==
  /\ UNCHANGED focus
  /\ \/ focus = "outreach" /\ O!OutreachNext
     \/ focus = "billing" /\ B!BillingNext
     \/ focus = "factory" /\ F!FactoryNext
     \/ focus = "decision" /\ D!DecisionNext /\ UNCHANGED memory
     \/ focus = "access" /\ A!AccessNext /\ UNCHANGED memory
     \/ focus = "desk" /\ K!DeskNext /\ UNCHANGED memory
     \/ focus = "research" /\ R!ResearchNext /\ UNCHANGED memory
     \/ focus = "growth" /\ G!GrowthNext /\ UNCHANGED memory
     \/ focus = "predictions" /\ P!PredictionsNext /\ UNCHANGED memory
     \/ focus = "discovery" /\ V!CustomerDiscoveryNext /\ UNCHANGED memory

Spec == Init /\ [][Next]_vars

-----------------------------------------------------------------------------
(* The properties of each component, in the behaviours that are its.       *)

TypeOK ==
  /\ focus = "outreach" => O!OutreachTypeOK
  /\ focus = "billing" => B!BillingTypeOK
  /\ focus = "factory" => F!FactoryTypeOK
  /\ focus = "decision" => D!DecisionTypeOK
  /\ focus = "access" => A!AccessTypeOK
  /\ focus = "desk" => K!DeskTypeOK
  /\ focus = "research" => R!ResearchTypeOK
  /\ focus = "growth" => G!GrowthTypeOK
  /\ focus = "predictions" => P!PredictionsTypeOK
  /\ focus = "discovery" => V!DiscoveryTypeOK

(* Outreach, decisions and growth: a message that went out, an opportunity *)
(* that a decision killed and an experiment that ran each had a human's    *)
(* approval of just that, whatever requests raced. KILLED set by hand,     *)
(* which the code lets any identity do, is no decision.                    *)
HumansApprovedWhatMatters ==
  /\ focus = "outreach" => O!SentMessagesWereApproved
  /\ focus = "decision" => D!KillsWereDecided
  /\ focus = "growth" => G!ExperimentsWereApproved

(* Outreach and discovery runs: contacts, responses and statuses are       *)
(* recorded in their order, and retries and races send, draft and ask a    *)
(* human no more often than the limits say.                                *)
ContactsAreBackedAndBounded ==
  /\ focus = "outreach" => O!ContactsAreBacked /\ O!SendsAreBounded
  /\ focus = "discovery" => V!DiscoveryRunsStopAtTheHuman

(* Billing: an account was opened under a human's approval of its own plan *)
(* at a price grounded in claims, once for each plan, and revenue is       *)
(* counted once for each event that verified, in whatever order and        *)
(* however often its message arrives.                                      *)
AccountsAndRevenueAreBacked == focus = "billing" => B!AccountsAndRevenueAreBacked

(* Product factory: what is ready for deployment was approved by a human   *)
(* on a memo of a whole build, and the memo showed the problems its scans, *)
(* reviews and tests could see.                                            *)
ApprovedBuildsWereWholeAndShown ==
  focus = "factory" => F!ReadyProductsWereBuilt /\ F!KnownProblemsReachTheHuman

(* Claims: a claim's status follows its latest report and its gap follows  *)
(* its status, a customer's interest is never taken for payment, and what  *)
(* customers are said to have validated is what they said.                 *)
ClaimsFollowTheirEvidence ==
  /\ focus = "decision" => D!ClaimsFollowTheirReports /\ D!InterestIsNotPayment
  /\ focus = "discovery" => V!EvidenceIsObserved /\ V!ValidationIsBacked /\ V!AssumptionsAreClaimedOnce

(* Decision and research cycles: a cycle passes none of its budgets by     *)
(* more than the work on one claim, cluster or problem, or by the calls of *)
(* the search it starts with.                                              *)
CyclesKeepTheirBudget ==
  /\ focus = "decision" => D!CyclesKeepTheirBudget
  /\ focus = "research" => R!CyclesKeepTheirResearchBudget

(* Access: identities, permissions and what the routes reserve to a human  *)
(* come from a human, and every change has its entry in the audit log.     *)
AuthorityIsHumanAndAudited == focus = "access" => A!AuthorityIsHumanAndAudited

(* The founder's desk: every occurrence of an alert is counted once, and   *)
(* every decision that waits is on the attention queue.                    *)
NothingIsHiddenFromTheFounder == focus = "desk" => K!AlertsAreCounted /\ K!QueueIsComplete

(* Research: what counts as corroborated rests on independent signals, no  *)
(* content counts twice, and a queue item is handed on until it is done.   *)
ResearchIsBackedAndHandedOn == focus = "research" => R!ResearchIsBackedAndHandedOn

(* Growth and predictions: what was learnt from an experiment was measured *)
(* on one that ran, what waits for a human was put to one, nothing is      *)
(* learnt from the future, every bad prediction is a lesson, and a memo's  *)
(* decision has its effect; so has that on a discovery memo.               *)
LessonsFollowOutcomes ==
  /\ focus = "growth" => G!ExperimentsAreMeasured
  /\ focus = "predictions" => P!PredictionsAreNotBackdated /\ P!BadPredictionsAreLessons /\ P!MemoDecisionsTakeEffect
  /\ focus = "discovery" => V!ApprovedMemosAreAnnounced
=============================================================================
