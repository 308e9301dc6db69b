-------------------------- MODULE MCApprovalEngine --------------------------
(***************************************************************************)
(* Small instances of ApprovalEngine: one hashed and one unhashed resource *)
(* and two rows are enough for a binding to be replaced, for two calls to  *)
(* race on one row and for a sweep to find more than one row overdue.      *)
(***************************************************************************)
EXTENDS ApprovalEngine, TLC

CONSTANTS c1, c2, plan, opportunity, owner, nobody, sweep

OneCall  == {c1}
TwoCalls == {c1, c2}
BothResources == {plan, opportunity}
OnlyPlan  == {plan}
Owner     == {owner}

(* No guard reads the events that were published: two states that differ  *)
(* only in them have the same behaviours.                                 *)
Unannounced == <<stored, inFlight, executions, about, crashes>>

CallSymmetry == Permutations(TwoCalls)
=============================================================================
