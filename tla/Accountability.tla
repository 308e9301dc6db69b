--------------------------- MODULE Accountability ---------------------------
(***************************************************************************)
(* The components that hold the company to account: who may act and what   *)
(* the audit log says of it, what was tried, predicted and learnt, what    *)
(* customers said and what a human decided on it. They share no state, and *)
(* Company puts them beside the others.                                    *)
(***************************************************************************)
EXTENDS CompanyTables

CONSTANTS
  MaxIdentities, MaxAgents, MaxGrants, AccessUses,          \* Access
  MaxRequests, GrowthUses,                                  \* GrowthExperiments
  MaxTime, MaxHistory, PredictionUses,                      \* Predictions
  DiscoveryUses                                             \* CustomerDiscovery

A == INSTANCE Access WITH performed <- history, Uses <- AccessUses
G == INSTANCE GrowthExperiments WITH runs <- history, Uses <- GrowthUses
P == INSTANCE Predictions WITH resolutions <- history, Uses <- PredictionUses
V == INSTANCE CustomerDiscovery WITH said <- history, Uses <- DiscoveryUses

(* What the theorems about the components assume of the constants.         *)
ASSUME AccessAssumption == A!AccessConstants
ASSUME GrowthAssumption == G!GrowthConstants
ASSUME PredictionAssumption == P!PredictionsConstants
ASSUME DiscoveryAssumption == V!DiscoveryConstants
=============================================================================
