-------------------------- MODULE MCDeploymentGate --------------------------
(***************************************************************************)
(* Small instances of DeploymentGate. Two plans let a launch be reworked   *)
(* and an older plan compete with a newer one; two approvals let a plan be *)
(* bound twice; a third deployment row leaves room for a rollback.         *)
(***************************************************************************)
EXTENDS DeploymentGate, TLC

CONSTANTS c1, c2, owner, nobody, sweep

OneCall  == {c1}
TwoCalls == {c1, c2}
Owner    == {owner}

(* MODIFIED and DEFERRED are no verdict for a plan: applyDecision throws on*)
(* both, and what else may happen to them is ApprovalEngine's subject.     *)
ApproveOrReject == {"APPROVED", "REJECTED"}

CallSymmetry == Permutations(TwoCalls)
=============================================================================
