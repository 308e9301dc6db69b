--------------------------- MODULE HumanApprovals ---------------------------
(***************************************************************************)
(* The components in which a human's approval lets something irreversible  *)
(* happen: a message goes out, an opportunity is killed, a product is      *)
(* ready for deployment. They share no state, and Company puts them beside *)
(* the others.                                                             *)
(***************************************************************************)
EXTENDS CompanyTables

CONSTANTS
  Experiments, Messages,                                    \* Outreach: rows, limits, and the uses of the component
  MaxProspects, MaxApprovals, MaxResponses, Sources, Channel, MaxSendAttempts, SendsPerMinute,
  MaxMessagesPerExperiment, MaxMessagesPerDestination, MaxActiveExperiments, MaxExtractions, OutreachUses,
  DecisionUses,                                             \* DecisionPipeline
  MAX_TASK_ATTEMPTS, FactoryUses                            \* ProductFactory

O == INSTANCE Outreach WITH sent <- history, Uses <- OutreachUses
D == INSTANCE DecisionPipeline WITH kills <- history, Uses <- DecisionUses
F == INSTANCE ProductFactory WITH disk <- memory, verdicts <- history, Uses <- FactoryUses

(* What the theorems about the components assume of the constants.         *)
ASSUME OutreachAssumption == O!OutreachConstants
ASSUME DecisionAssumption == D!DecisionConstants
ASSUME FactoryAssumption == F!FactoryConstants
=============================================================================
