--------------------------- MODULE ApprovalEngine ---------------------------
(***************************************************************************)
(* The Approval Engine (services/approval.service.ts): ApprovalRequest     *)
(* rows, their snapshots, and the calls that create, decide, sweep and     *)
(* requeue them, together with the generic EXECUTE step that reads a bound *)
(* approval and asserts that it is fresh.                                  *)
(*                                                                         *)
(* One Node process serves every call, and no call holds a transaction:    *)
(* an action is the code between two awaits, so that a call in Calls is a  *)
(* read step, the checks on what was read, then the write steps, and other *)
(* calls run in between. A call that throws ends without a further effect. *)
(* The rows are durable; a crash loses every call in flight.               *)
(***************************************************************************)
EXTENDS ApprovalRows, Integers, FiniteSets

CONSTANTS
  Calls,          \* the calls that may be in flight at the same time
  Resources,      \* what an approval is about: plans, messages, experiments
  Hashed,         \* the resources whose service passes a resourceStateHash
  Humans,         \* identities of type HUMAN
  NoOne,          \* the null reviewer, the null resource
  Sweeper,        \* "system:expiry-sweep"
  MaxApprovals,   \* bound: rows ever created
  MaxVersion,     \* bound: contents a resource goes through
  MaxTime,        \* bound: the clock
  ExpiryPeriod,   \* DEFAULT_APPROVAL_EXPIRY_DAYS, in ticks
  MaxCrashes      \* bound: process restarts

ASSUME ResourcesAssumption == Hashed \subseteq Resources /\ NoOne \notin Resources
ASSUME ReviewersAssumption == NoOne \notin Humans /\ Sweeper \notin Humans
ASSUME BoundsAssumption ==
  /\ MaxApprovals \in Nat \ {0}
  /\ MaxVersion \in Nat \ {0}
  /\ MaxTime \in Nat
  /\ ExpiryPeriod \in Nat
  /\ MaxCrashes \in Nat

Approvals == 1 .. MaxApprovals          \* row ids, in creation order
Versions  == 1 .. MaxVersion            \* content hashes of a resource
NoRow     == 0                          \* a null ApprovalRequest id

VARIABLES
  rows,        \* the approval_requests table; status "ABSENT" before create
  snapshot,    \* approval_snapshots: the hash captured for a row, or NoHash
  content,     \* the live content hash of each resource
  bound,       \* the resource's own approvalRequestId column
  now,         \* the clock
  pc,          \* where each call is
  local,       \* what each call has read so far
  swept,       \* the rows a sweep has still to expire
  announced,   \* HUMAN_DECISION_MADE events: <<row, decision>>
  executions,  \* history: the last EXECUTE step that passed every check, if any
  about,       \* history: the content a row was requested for
  crashes

stored == <<rows, snapshot, content, bound, now>>
inFlight == <<pc, local, swept>>
history == <<announced, executions, about>>
vars == <<stored, inFlight, history, crashes>>

Absent == [status |-> "ABSENT", resource |-> NoOne, expiresAt |-> 0, reviewedBy |-> NoOne]
Nothing == [row |-> NoRow, resource |-> NoOne, hash |-> NoHash, decision |-> "PENDING", reviewer |-> NoOne]

Exists(a) == rows[a].status # "ABSENT"

(* Call c moves on, keeping what it has read; a call that returns or throws*)
(* forgets it.                                                             *)
Step(c, from, to, read) ==
  /\ pc[c] = from
  /\ pc' = [pc EXCEPT ![c] = to]
  /\ local' = [local EXCEPT ![c] = IF to = "idle" THEN Nothing ELSE read]

Return(c, from) == Step(c, from, "idle", Nothing)

(* approvalRepository.decide and .requeue: an UPDATE by id, whatever the   *)
(* row holds by then.                                                      *)
Resolved(a, status, by) == [rows EXCEPT ![a] = [@ EXCEPT !.status = status, !.reviewedBy = by]]

(* hashXxx(resource) for the resource types that have a hasher.            *)
HashOf(r) == IF r \in Hashed THEN content[r] ELSE NoHash

-----------------------------------------------------------------------------
(* requestApproval, called by every service that binds its own resource to *)
(* an approval: the caller has read the resource and hashed it, the row is *)
(* created, then its snapshot, and the caller attaches the row's id.       *)

RequestRead(c, r) ==
  /\ Step(c, "idle", "request_create", [Nothing EXCEPT !.resource = r, !.hash = HashOf(r)])
  /\ UNCHANGED <<stored, swept, history, crashes>>

(* Mutation of NewExpiry: the period is rounded up.                        *)
NewExpiry_RoundedUp == now + ExpiryPeriod + 1
NewExpiry == now + ExpiryPeriod

RequestCreate(c) ==
  \E a \in Approvals :
    /\ ~Exists(a) /\ \A b \in 1 .. (a - 1) : Exists(b)
    /\ Step(c, "request_create",
            IF local[c].hash = NoHash THEN "request_attach" ELSE "request_snapshot",
            [local[c] EXCEPT !.row = a])
    /\ rows' = [rows EXCEPT ![a] =
                  [status |-> "PENDING", resource |-> local[c].resource,
                   expiresAt |-> NewExpiry, reviewedBy |-> NoOne]]
    /\ about' = [about EXCEPT ![a] = local[c].hash]
    /\ UNCHANGED <<snapshot, content, bound, now, swept, announced, executions, crashes>>

(* Mutation of RequestSnapshot: the hash captured is the one the resource  *)
(* has by then, not the one the request was made for.                      *)
RequestSnapshot_Reread(c) ==
  /\ Step(c, "request_snapshot", "request_attach", local[c])
  /\ snapshot' = [snapshot EXCEPT ![local[c].row] = content[local[c].resource]]
  /\ UNCHANGED <<rows, content, bound, now, swept, history, crashes>>

RequestSnapshot(c) ==
  /\ Step(c, "request_snapshot", "request_attach", local[c])
  /\ snapshot' = [snapshot EXCEPT ![local[c].row] = local[c].hash]
  /\ UNCHANGED <<rows, content, bound, now, swept, history, crashes>>

RequestAttach(c) ==
  /\ Return(c, "request_attach")
  /\ bound' = [bound EXCEPT ![local[c].resource] = local[c].row]
  /\ UNCHANGED <<rows, snapshot, content, now, swept, history, crashes>>

-----------------------------------------------------------------------------
(* decide and requestMoreEvidence: a human's decision is checked against   *)
(* the row that was read, and written to the row that is there by then.    *)

(* Mutation of DecideRead: the transition table is not consulted.          *)
DecideRead_NoTransitionCheck(c, a, h, to) ==
  /\ Exists(a)
  /\ Step(c, "idle", "decide_write", [Nothing EXCEPT !.row = a, !.decision = to, !.reviewer = h])
  /\ UNCHANGED <<stored, swept, history, crashes>>

DecideRead(c, a, h, to) ==
  /\ Exists(a)
  /\ CanTransition(rows[a].status, to)
  /\ Step(c, "idle", "decide_write", [Nothing EXCEPT !.row = a, !.decision = to, !.reviewer = h])
  /\ UNCHANGED <<stored, swept, history, crashes>>

DecideWrite(c) ==
  /\ Step(c, "decide_write", "decide_publish", local[c])
  /\ rows' = Resolved(local[c].row, local[c].decision, local[c].reviewer)
  /\ UNCHANGED <<snapshot, content, bound, now, swept, history, crashes>>

(* Mutation of DecidePublish: only an approval is announced.               *)
DecidePublish_ApprovalsOnly(c) ==
  /\ Return(c, "decide_publish")
  /\ announced' = IF local[c].decision = "APPROVED"
                  THEN announced \cup {<<local[c].row, local[c].decision>>} ELSE announced
  /\ UNCHANGED <<stored, swept, executions, about, crashes>>

(* The event that makes every subscriber act on the decision.              *)
DecidePublish(c) ==
  /\ Return(c, "decide_publish")
  /\ announced' = announced \cup {<<local[c].row, local[c].decision>>}
  /\ UNCHANGED <<stored, swept, executions, about, crashes>>

-----------------------------------------------------------------------------
(* expireOverdue: the queue is listed once, then the overdue rows are      *)
(* expired one await at a time, oldest first, without reading them again.  *)

OverdueQueue == {a \in Approvals : rows[a].status = "PENDING" /\ Overdue(rows[a].expiresAt, now)}

SweepList(c) ==
  /\ OverdueQueue # {}
  /\ Step(c, "idle", "sweep", Nothing)
  /\ swept' = [swept EXCEPT ![c] = OverdueQueue]
  /\ UNCHANGED <<stored, history, crashes>>

SweepExpire(c) ==
  \E a \in swept[c] :
    /\ \A b \in swept[c] : a <= b
    /\ Step(c, "sweep", IF swept[c] = {a} THEN "idle" ELSE "sweep", Nothing)
    /\ rows' = Resolved(a, "EXPIRED", Sweeper)
    /\ swept' = [swept EXCEPT ![c] = @ \ {a}]
    /\ UNCHANGED <<snapshot, content, bound, now, history, crashes>>

-----------------------------------------------------------------------------
(* requeue: a deferred request re-enters the queue.                        *)

(* Mutation of RequeueRead: any existing row may re-enter the queue.       *)
RequeueRead_AnyStatus(c, a) ==
  /\ Exists(a)
  /\ Step(c, "idle", "requeue_write", [Nothing EXCEPT !.row = a])
  /\ UNCHANGED <<stored, swept, history, crashes>>

RequeueRead(c, a) ==
  /\ Exists(a)
  /\ CanTransition(rows[a].status, "PENDING")
  /\ Step(c, "idle", "requeue_write", [Nothing EXCEPT !.row = a])
  /\ UNCHANGED <<stored, swept, history, crashes>>

RequeueWrite(c) ==
  /\ Return(c, "requeue_write")
  /\ rows' = Resolved(local[c].row, "PENDING", NoOne)
  /\ UNCHANGED <<snapshot, content, bound, now, swept, history, crashes>>

-----------------------------------------------------------------------------
(* The start of every EXECUTE step (deployment, billing, growth, outreach):*)
(* read the resource and its bound approval id; read the approval, which   *)
(* must be APPROVED and about this very resource; assertFresh.             *)

ExecuteRead(c, r) ==
  /\ bound[r] # NoRow
  /\ Step(c, "idle", "execute_approval",
          [Nothing EXCEPT !.row = bound[r], !.resource = r, !.hash = HashOf(r)])
  /\ UNCHANGED <<stored, swept, history, crashes>>

(* Mutation of ApprovedFor: the binding is trusted, whatever its status.   *)
ApprovedFor_TrustBinding(a, r) == rows[a].resource = r
ApprovedFor(a, r) == rows[a].status = "APPROVED" /\ rows[a].resource = r

ExecuteApproval(c) ==
  LET a == local[c].row IN
  /\ Step(c, "execute_approval",
          IF ApprovedFor(a, local[c].resource) THEN "execute_fresh" ELSE "idle",
          [local[c] EXCEPT !.reviewer = rows[a].reviewedBy])
  /\ UNCHANGED <<stored, swept, history, crashes>>

ExecuteFresh(c) ==
  LET a == local[c].row
      fresh == Staleness(rows[a].expiresAt, now, snapshot[a], local[c].hash) = "FRESH"
  IN  /\ Return(c, "execute_fresh")
      /\ executions' = IF fresh
           THEN {[row |-> a, resource |-> local[c].resource, by |-> local[c].reviewer,
                 hash |-> local[c].hash, at |-> now]}
           ELSE executions
      /\ UNCHANGED <<stored, swept, announced, about, crashes>>

-----------------------------------------------------------------------------
(* The environment: a write to a resource's consequential fields by other  *)
(* code, the passing of time, and a restart of the process.                *)

EditResource(r) ==
  /\ content[r] < MaxVersion
  /\ content' = [content EXCEPT ![r] = @ + 1]
  /\ UNCHANGED <<rows, snapshot, bound, now, inFlight, history, crashes>>

Tick ==
  /\ now < MaxTime
  /\ now' = now + 1
  /\ UNCHANGED <<rows, snapshot, content, bound, inFlight, history, crashes>>

Crash ==
  /\ crashes < MaxCrashes
  /\ \E c \in Calls : pc[c] # "idle"
  /\ pc' = [c \in Calls |-> "idle"]
  /\ local' = [c \in Calls |-> Nothing]
  /\ swept' = [c \in Calls |-> {}]
  /\ crashes' = crashes + 1
  /\ UNCHANGED <<stored, history>>

-----------------------------------------------------------------------------
Init ==
  /\ rows = [a \in Approvals |-> Absent]
  /\ snapshot = [a \in Approvals |-> NoHash]
  /\ content = [r \in Resources |-> 1]
  /\ bound = [r \in Resources |-> NoRow]
  /\ now = 0
  /\ pc = [c \in Calls |-> "idle"]
  /\ local = [c \in Calls |-> Nothing]
  /\ swept = [c \in Calls |-> {}]
  /\ announced = {}
  /\ executions = {}
  /\ about = [a \in Approvals |-> NoHash]
  /\ crashes = 0

(* A request arrives and its first await runs.                             *)
Begin(c) ==
  \/ \E r \in Resources : RequestRead(c, r) \/ ExecuteRead(c, r)
  \/ \E a \in Approvals, h \in Humans, to \in RouteDecision : DecideRead(c, a, h, to)
  \/ \E a \in Approvals : RequeueRead(c, a)
  \/ SweepList(c)

(* A call in flight goes on.                                               *)
Continue(c) ==
  \/ RequestCreate(c) \/ RequestSnapshot(c) \/ RequestAttach(c)
  \/ DecideWrite(c) \/ DecidePublish(c)
  \/ SweepExpire(c)
  \/ RequeueWrite(c)
  \/ ExecuteApproval(c) \/ ExecuteFresh(c)

Next ==
  \/ \E c \in Calls : Begin(c) \/ Continue(c)
  \/ \E r \in Resources : EditResource(r)
  \/ Tick
  \/ Crash

Spec == Init /\ [][Next]_vars

(* The event loop resumes every call whose await has settled.              *)
FairSpec == Spec /\ \A c \in Calls : WF_vars(Continue(c))

-----------------------------------------------------------------------------
Row ==
  [status : ApprovalStatus \cup {"ABSENT"}, resource : Resources \cup {NoOne},
   expiresAt : 0 .. (MaxTime + ExpiryPeriod), reviewedBy : Humans \cup {NoOne, Sweeper}]
Local ==
  [row : Approvals \cup {NoRow}, resource : Resources \cup {NoOne}, hash : Versions \cup {NoHash},
   decision : RouteDecision \cup {"PENDING"}, reviewer : Humans \cup {NoOne, Sweeper}]
Execution ==
  [row : Approvals, resource : Resources, by : Humans \cup {NoOne, Sweeper},
   hash : Versions \cup {NoHash}, at : 0 .. MaxTime]
PC ==
  {"idle", "request_create", "request_snapshot", "request_attach", "decide_write",
   "decide_publish", "sweep", "requeue_write", "execute_approval", "execute_fresh"}

(* Every variable stays in its type; in particular no row expires later    *)
(* than one period after the latest instant it can be created at.          *)
TypeOK ==
  /\ rows \in [Approvals -> Row]
  /\ snapshot \in [Approvals -> Versions \cup {NoHash}]
  /\ content \in [Resources -> Versions]
  /\ bound \in [Resources -> Approvals \cup {NoRow}]
  /\ now \in 0 .. MaxTime
  /\ pc \in [Calls -> PC]
  /\ local \in [Calls -> Local]
  /\ swept \in [Calls -> SUBSET Approvals]
  /\ announced \subseteq Approvals \X RouteDecision
  /\ executions \subseteq Execution
  /\ about \in [Approvals -> Versions \cup {NoHash}]
  /\ crashes \in 0 .. MaxCrashes

(* No agent and no sweep ever stands behind an executed action: whatever   *)
(* the interleaving of decisions, sweeps and requeues, the row that let an *)
(* EXECUTE step through had been approved by a human and was about the     *)
(* resource that was executed.                                             *)
ExecutionsAreHumanApproved ==
  \A e \in executions : e.by \in Humans /\ rows[e.row].resource = e.resource

(* An EXECUTE step acts on the content the approval was requested for, and *)
(* before the approval expires, although row, snapshot and binding are     *)
(* written by three separate awaits and the content may change at any time.*)
ExecutionsMatchTheRequest ==
  \A e \in executions :
    /\ e.resource \in Hashed => e.hash = about[e.row]
    /\ e.at <= rows[e.row].expiresAt

(* A decided request keeps its decision: "an approval is an immutable      *)
(* historical fact".                                                       *)
DecisionIsFinal ==
  [][\A a \in Approvals : rows[a].status \in DecidedStatus => rows'[a].status = rows[a].status]_vars

(* What the subscribers of HUMAN_DECISION_MADE were told stays true: the   *)
(* row still carries the final decision that was announced for it.         *)
AnnouncedDecisionsStand ==
  \A e \in announced : e[2] \in DecidedStatus => rows[e[1]].status = e[2]

(* Every human verdict that is written is in the end announced, so that    *)
(* the work waiting for it is resumed, unless the process restarts.        *)
VerdictsAreAnnounced ==
  \A a \in Approvals, d \in {"APPROVED", "REJECTED"} :
    (rows[a].status = d) ~> (<<a, d>> \in announced \/ crashes > 0)

-----------------------------------------------------------------------------
(* The abstract ledger the engine promises to be.                          *)
LedgerEntry ==
  [a \in Approvals |-> IF rows[a].status \in DecidedStatus THEN rows[a].status
                       ELSE IF Exists(a) THEN "open" ELSE "none"]

Ledger == INSTANCE ApprovalLedger WITH entry <- LedgerEntry, Verdicts <- DecidedStatus

(* Every behaviour of the engine is one of the ledger: requests are opened *)
(* in order, and a verdict is given once and for all.                      *)
ImplementsLedger == Ledger!Spec
=============================================================================
