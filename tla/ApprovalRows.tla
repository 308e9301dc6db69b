---------------------------- MODULE ApprovalRows ----------------------------
(***************************************************************************)
(* The constant-level part of the Human Decision Queue: the statuses of an *)
(* ApprovalRequest row, the transition table every decision is checked     *)
(* against, and the pure freshness test that runs before an approved       *)
(* action is executed (domain/approval/approval.types.ts, staleness.ts).   *)
(***************************************************************************)
EXTENDS Naturals

ApprovalStatus ==
  {"PENDING", "APPROVED", "REJECTED", "MODIFIED", "DEFERRED", "EXPIRED", "CANCELLED"}

(* TransitionTable<ApprovalStatus>: only PENDING and DEFERRED have edges.  *)
ApprovalTransitions ==
  [s \in ApprovalStatus |->
     CASE s = "PENDING"  -> ApprovalStatus \ {"PENDING"}
       [] s = "DEFERRED" -> {"PENDING", "CANCELLED", "EXPIRED"}
       [] OTHER          -> {}]

CanTransition(from, to) == to \in ApprovalTransitions[from]

(* The statuses without an outgoing edge: a decision that is meant to be   *)
(* final.                                                                  *)
DecidedStatus == {s \in ApprovalStatus : ApprovalTransitions[s] = {}}

(* The decisions the routes of the queue offer (approve, reject, modify,   *)
(* defer / request-more-evidence): no route cancels or expires by hand.    *)
RouteDecision == {"APPROVED", "REJECTED", "MODIFIED", "DEFERRED"}

(* The null hash: a request without a snapshot, a resource type without a  *)
(* hasher. The contents of a resource hash to positive numbers.            *)
NoHash == 0

Overdue(expiresAt, now) == expiresAt < now

(* Mutation of Staleness: the hashes are never compared.                   *)
Staleness_ExpiryOnly(expiresAt, now, approvedHash, currentHash) ==
  IF Overdue(expiresAt, now) THEN "EXPIRED" ELSE "FRESH"

(* checkApprovalFreshness: expiry first, then change detection; a missing  *)
(* hash on either side is never a mismatch.                                *)
Staleness(expiresAt, now, approvedHash, currentHash) ==
  IF Overdue(expiresAt, now) THEN "EXPIRED"
  ELSE IF NoHash \notin {approvedHash, currentHash} /\ approvedHash # currentHash
       THEN "RESOURCE_CHANGED"
       ELSE "FRESH"
=============================================================================
