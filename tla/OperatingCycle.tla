--------------------------- MODULE OperatingCycle ---------------------------
(***************************************************************************)
(* Operating cycles: the scheduler that moves a cycle through its stages   *)
(* and statuses (scheduler), the control plane that does a stage's work    *)
(* first (control-plane), the human's decision on the CEO's recommendation *)
(* (company-recommendation), the budget rollup that stops a cycle          *)
(* (company-budget) and the emergency stop before EXECUTING.               *)
(*                                                                         *)
(* Nothing runs unattended: every operation is a call of somebody. As in   *)
(* ApprovalEngine an action is the code between two awaits of a call in    *)
(* Calls, and every read keeps in local what the call uses later. The API  *)
(* offers two ways to drive a cycle: run-next-stage does the work of the   *)
(* stage, advance is bookkeeping that trusts its caller. A profile says    *)
(* what is called, and how much of it, and is chosen once.                 *)
(***************************************************************************)
EXTENDS Integers, Sequences, FiniteSetsExt

CONSTANTS
  Calls,       \* the calls that may be in flight at the same time
  Keys,        \* idempotency keys of requests, "none" for a request without
  Profiles,    \* the ways the service is used
  MaxCycles,   \* bound: rows of operating_cycles
  MaxEvents    \* bound: stage events of one cycle

AllOperations ==
  {"start", "run", "advance", "route", "human", "decide", "pause", "resume", "cancel", "fail",
   "retry", "stop", "spend"}

(* What is called; how many calls may overlap; the keys of the requests;   *)
(* and bounds on the rows of operating_cycles, on the times one cycle asks *)
(* the CEO and is routed to a human, and on the restarts.                  *)
Profile ==
  [operations : SUBSET AllOperations, load : Nat, keys : SUBSET Keys, cycles : 1 .. MaxCycles,
   reviews : Nat, crashes : Nat]

ASSUME BoundsAssumption == MaxCycles \in Nat \ {0} /\ MaxEvents \in Nat
ASSUME CallsAssumption == IsFiniteSet(Calls)
ASSUME KeysAssumption == "none" \in Keys
ASSUME ProfilesAssumption == Profiles \subseteq Profile

Cycles == 1 .. MaxCycles
Null   == 0

CYCLE_STAGES ==
  <<"CREATED", "PLANNING", "RESEARCHING", "ANALYZING", "DECIDING", "AWAITING_HUMAN", "EXECUTING",
    "OBSERVING", "LEARNING", "COMPLETED">>

CycleStage == {CYCLE_STAGES[i] : i \in DOMAIN CYCLE_STAGES}
CycleStatus ==
  {"SCHEDULED", "RUNNING", "PAUSED", "STOPPED", "AWAITING_HUMAN", "COMPLETED", "FAILED", "CANCELLED"}

Index(stage) == CHOOSE i \in DOMAIN CYCLE_STAGES : CYCLE_STAGES[i] = stage

(* The array-adjacent stage, "none" past the end.                          *)
Adjacent(stage) ==
  IF Index(stage) < Len(CYCLE_STAGES) THEN CYCLE_STAGES[Index(stage) + 1] ELSE "none"

CYCLE_STAGE_TRANSITIONS ==
  [s \in CycleStage |->
     CASE s = "DECIDING"                -> {"AWAITING_HUMAN", "EXECUTING"}
       [] s = "AWAITING_HUMAN"          -> CycleStage \ {"CREATED", "AWAITING_HUMAN", "COMPLETED"}
       [] s \in {"OBSERVING", "LEARNING"} -> {Adjacent(s)}
       [] s = "COMPLETED"               -> {}
       [] OTHER                         -> {Adjacent(s), "AWAITING_HUMAN"}]

(* Mutation of CYCLE_STATUS_TRANSITIONS: a stopped cycle can be resumed.   *)
CYCLE_STATUS_TRANSITIONS_ResumeStopped ==
  [s \in CycleStatus |->
     CASE s = "SCHEDULED"      -> {"RUNNING", "AWAITING_HUMAN", "CANCELLED"}
       [] s = "AWAITING_HUMAN" -> {"SCHEDULED", "RUNNING", "CANCELLED"}
       [] s = "RUNNING"        -> CycleStatus \ {"SCHEDULED", "RUNNING"}
       [] s = "PAUSED"         -> {"RUNNING", "STOPPED", "CANCELLED"}
       [] s = "STOPPED"        -> {"RUNNING"}
       [] OTHER                -> {}]

CYCLE_STATUS_TRANSITIONS ==
  [s \in CycleStatus |->
     CASE s = "SCHEDULED"      -> {"RUNNING", "AWAITING_HUMAN", "CANCELLED"}
       [] s = "AWAITING_HUMAN" -> {"SCHEDULED", "RUNNING", "CANCELLED"}
       [] s = "RUNNING"        -> CycleStatus \ {"SCHEDULED", "RUNNING"}
       [] s = "PAUSED"         -> {"RUNNING", "STOPPED", "CANCELLED"}
       [] OTHER                -> {}]

(* A status without a successor.                                           *)
Ended == {"STOPPED", "COMPLETED", "FAILED", "CANCELLED"}

VARIABLES
  cycles,    \* operating_cycles: status, stage, retriedFrom, idempotency key
  events,    \* cycle_stage_events of each cycle, in the order of enteredAt
  recs,      \* company_recommendations of each cycle: "pending" or "decided"
  stopped,   \* is an emergency stop active?
  exceeded,  \* is this period's spend above the company's ceiling?
  pc,        \* where each call is
  local,     \* what each call has read so far
  crashes,   \* restarts so far
  profile    \* how the service is used

tables == <<cycles, events, recs, stopped, exceeded>>
vars == <<tables, pc, local, crashes, profile>>

AbsentCycle == [status |-> "ABSENT", stage |-> "CREATED", of |-> Null, key |-> "none"]
Nothing == [cycle |-> Null, stage |-> "none", status |-> "none", to |-> "none", about |-> "none", event |-> 0]

(* A stage event; about is the stage whose work its summary reports, or,   *)
(* for a review, the stage that asked for it, as the audit log has it.     *)
StageEvent(stage, about) == [stage |-> stage, done |-> FALSE, about |-> about]

Exists(k) == cycles[k].status # "ABSENT"
Decided(k) == \E i \in DOMAIN recs[k] : recs[k][i] = "decided"

(* findOpenStageEvent: the latest one, or 0.                               *)
Open(k, stage) == {i \in DOMAIN events[k] : events[k][i].stage = stage /\ ~events[k][i].done}
FindOpen(k, stage) == IF Open(k, stage) = {} THEN 0 ELSE Max(Open(k, stage))

(* Mutation of completedLinearStages: reviews count as completed work.     *)
completedLinearStages_WithReviews(k) == {events[k][i].stage : i \in {j \in DOMAIN events[k] : events[k][j].done}}

completedLinearStages(k) ==
  {events[k][i].stage : i \in {j \in DOMAIN events[k] : events[k][j].done}} \ {"AWAITING_HUMAN"}

(* Mutation of resolveResumeStage: the last completed stage is done again. *)
resolveResumeStage_Again(stages) ==
  IF stages = {} THEN "CREATED" ELSE CYCLE_STAGES[Max({Index(s) : s \in stages})]

resolveResumeStage(stages) ==
  LET furthest == IF stages = {} THEN 0 ELSE Max({Index(s) : s \in stages})
  IN  IF furthest < Len(CYCLE_STAGES) THEN CYCLE_STAGES[furthest + 1] ELSE "COMPLETED"

-----------------------------------------------------------------------------
(* Steps of a call.                                                        *)

(* Call c can begin.                                                       *)
Free(c) == pc[c] = "idle" /\ Cardinality({d \in Calls : pc[d] # "idle"}) < profile.load

Step(c, from, to, read) ==
  /\ IF from = "idle" THEN Free(c) ELSE pc[c] = from
  /\ pc' = [pc EXCEPT ![c] = to]
  /\ local' = [local EXCEPT ![c] = IF to = "idle" THEN Nothing ELSE read]
  /\ UNCHANGED <<crashes, profile>>

ReadStep(c, from, ok, to, read) ==
  /\ Step(c, from, IF ok THEN to ELSE "idle", read)
  /\ UNCHANGED tables

(* Writes of the call's cycle: UPDATE by id, whatever the row holds.       *)
WriteStatus(c, status) ==
  /\ cycles' = [cycles EXCEPT ![local[c].cycle] = [@ EXCEPT !.status = status]]
  /\ UNCHANGED <<events, recs, stopped, exceeded>>

WriteStage(c, stage, status) ==
  /\ cycles' = [cycles EXCEPT ![local[c].cycle] = [@ EXCEPT !.stage = stage, !.status = status]]
  /\ UNCHANGED <<events, recs, stopped, exceeded>>

(* createStageEvent.                                                       *)
CreateEvent(c, stage, about) ==
  /\ events' = [events EXCEPT ![local[c].cycle] = Append(@, StageEvent(stage, about))]
  /\ UNCHANGED <<cycles, recs, stopped, exceeded>>

(* completeStageEvent of event i, which stores the summary; 0 is no event. *)
CompleteEvent(c, i, about) ==
  /\ events' = [events EXCEPT ![local[c].cycle] =
                  [j \in DOMAIN @ |-> IF j = i THEN [@[j] EXCEPT !.done = TRUE, !.about = about] ELSE @[j]]]
  /\ UNCHANGED <<cycles, recs, stopped, exceeded>>

(* The bounds: calls that will create an event of k reserve it; so do the  *)
(* calls that will route k to a human, and those that will ask the CEO.    *)
OnCycle(k) == {c \in Calls : local[c].cycle = k}
Room(k) == Exists(k) /\ Len(events[k]) + Cardinality(OnCycle(k)) < MaxEvents
Reviews(k) == Cardinality({i \in DOMAIN events[k] : events[k][i].stage = "AWAITING_HUMAN"})
ReviewRoom(k) == Reviews(k) + Cardinality(OnCycle(k)) < profile.reviews
RecRoom(k) == Len(recs[k]) + Cardinality(OnCycle(k)) < profile.reviews

RowRoom ==
  Cardinality({c \in Calls : pc[c] \in {"start_row", "retry_history", "retry_row"}})
    < Cardinality({k \in 1 .. profile.cycles : ~Exists(k)})

NextCycle(k) == ~Exists(k) /\ \A j \in 1 .. (k - 1) : Exists(j)

-----------------------------------------------------------------------------
(* startCycle: a keyed request returns the cycle that has the key; else a  *)
(* row, its CREATED event and the event's completion. The unique index     *)
(* refuses the second row of one key.                                      *)

KeyTaken(key) == key # "none" /\ \E k \in Cycles : Exists(k) /\ cycles[k].key = key

StartRead(c, key, status) ==
  /\ "start" \in profile.operations
  /\ RowRoom
  /\ ReadStep(c, "idle", ~KeyTaken(key), "start_row", [Nothing EXCEPT !.to = key, !.status = status])

(* Mutation of StartRow: no unique index on the key.                       *)
StartRow_AnyKey(c) ==
  \E k \in Cycles :
    /\ NextCycle(k)
    /\ Step(c, "start_row", "start_event", [local[c] EXCEPT !.cycle = k])
    /\ cycles' = [cycles EXCEPT ![k] = [status |-> local[c].status, stage |-> "CREATED", of |-> Null, key |-> local[c].to]]
    /\ UNCHANGED <<events, recs, stopped, exceeded>>

(* Mutation of StartRow: the stage is stored as the status too.            *)
StartRow_StageAsStatus(c) ==
  \E k \in Cycles :
    /\ NextCycle(k)
    /\ Step(c, "start_row", "start_event", [local[c] EXCEPT !.cycle = k])
    /\ cycles' = [cycles EXCEPT ![k] = [status |-> "CREATED", stage |-> "CREATED", of |-> Null, key |-> local[c].to]]
    /\ UNCHANGED <<events, recs, stopped, exceeded>>

StartRow(c) ==
  \/ /\ ReadStep(c, "start_row", FALSE, "idle", Nothing)
     /\ KeyTaken(local[c].to)
  \/ \E k \in Cycles :
       /\ NextCycle(k)
       /\ ~KeyTaken(local[c].to)
       /\ Step(c, "start_row", "start_event", [local[c] EXCEPT !.cycle = k])
       /\ cycles' = [cycles EXCEPT ![k] = [status |-> local[c].status, stage |-> "CREATED", of |-> Null, key |-> local[c].to]]
       /\ UNCHANGED <<events, recs, stopped, exceeded>>

StartEvent(c) ==
  /\ Step(c, "start_event", "start_done", [local[c] EXCEPT !.event = Len(events[local[c].cycle]) + 1])
  /\ CreateEvent(c, "CREATED", "none")

StartDone(c) ==
  /\ Step(c, "start_done", "idle", Nothing)
  /\ CompleteEvent(c, local[c].event, "CREATED")

-----------------------------------------------------------------------------
(* advanceStage: read the row, check the budget, choose the next stage,    *)
(* check the emergency stop before EXECUTING, complete the open event,     *)
(* create the next one and write stage and status, the status being the    *)
(* one read at the start.                                                  *)

(* Mutation of AdvanceRead: the cycle need not be RUNNING.                 *)
AdvanceRead_AnyStatus(c, from, k, target, about) ==
  ReadStep(c, from, Exists(k), "advance_budget",
           [Nothing EXCEPT !.cycle = k, !.stage = cycles[k].stage, !.status = cycles[k].status,
                           !.to = target, !.about = about])

AdvanceRead(c, from, k, target, about) ==
  ReadStep(c, from, cycles[k].status = "RUNNING", "advance_budget",
           [Nothing EXCEPT !.cycle = k, !.stage = cycles[k].stage, !.status = cycles[k].status,
                           !.to = target, !.about = about])

(* POST advance: bookkeeping only, the summary says nothing of the work.   *)
Advance(c, k) ==
  /\ "advance" \in profile.operations
  /\ Room(k)
  /\ AdvanceRead(c, "idle", k, "none", "none")

AdvanceRun(c) == AdvanceRead(c, "advance_read", local[c].cycle, local[c].to, local[c].about)

AdvanceWithin(c, next) ==
  ReadStep(c, "advance_budget", next \in CYCLE_STAGE_TRANSITIONS[local[c].stage],
           IF next = "EXECUTING" THEN "advance_stop" ELSE "advance_find", [local[c] EXCEPT !.to = next])

NextStage(c) == IF local[c].to # "none" THEN local[c].to ELSE Adjacent(local[c].stage)

(* Mutation of AdvanceBudget: the company's ceiling is not looked at.      *)
AdvanceBudget_Unlimited(c) == AdvanceWithin(c, NextStage(c))

(* Mutation of AdvanceBudget: the target stage is ignored.                 *)
AdvanceBudget_Adjacent(c) ==
  \/ exceeded /\ ReadStep(c, "advance_budget", TRUE, "stop_read", local[c])
  \/ ~exceeded /\ AdvanceWithin(c, Adjacent(local[c].stage))

AdvanceBudget(c) ==
  \/ exceeded /\ ReadStep(c, "advance_budget", TRUE, "stop_read", local[c])
  \/ ~exceeded /\ AdvanceWithin(c, NextStage(c))

(* Mutation of AdvanceStop: the emergency stop is not looked at.           *)
AdvanceStop_Unchecked(c) == ReadStep(c, "advance_stop", TRUE, "advance_find", local[c])

AdvanceStop(c) == ReadStep(c, "advance_stop", ~stopped, "advance_find", local[c])

(* Mutation of AdvanceFind: the open event of any stage will do.           *)
AdvanceFind_AnyStage(c) ==
  LET k == local[c].cycle
      open == {i \in DOMAIN events[k] : ~events[k][i].done}
  IN  ReadStep(c, "advance_find", TRUE, "advance_complete",
               [local[c] EXCEPT !.event = IF open = {} THEN 0 ELSE Max(open)])

AdvanceFind(c) ==
  ReadStep(c, "advance_find", TRUE, "advance_complete",
           [local[c] EXCEPT !.event = FindOpen(local[c].cycle, local[c].stage)])

(* Mutation of AdvanceComplete: the stage left is not completed.           *)
AdvanceComplete_LeftOpen(c) == ReadStep(c, "advance_complete", TRUE, "advance_create", local[c])

AdvanceComplete(c) ==
  /\ Step(c, "advance_complete", "advance_create", local[c])
  /\ CompleteEvent(c, local[c].event, local[c].about)

AdvanceCreate(c) ==
  /\ Step(c, "advance_create", "advance_write", local[c])
  /\ CreateEvent(c, local[c].to, "none")

AdvanceWrite(c) ==
  /\ Step(c, "advance_write", "idle", Nothing)
  /\ WriteStage(c, local[c].to, IF local[c].to = "COMPLETED" THEN "COMPLETED" ELSE local[c].status)

(* stopCycle, called by advanceStage over budget: the row is read again;   *)
(* the stage's open event is returned, and created if there is none.       *)

StopRead(c) ==
  ReadStep(c, "stop_read", "STOPPED" \in CYCLE_STATUS_TRANSITIONS[cycles[local[c].cycle].status],
           "stop_write", local[c])

StopWrite(c) ==
  /\ Step(c, "stop_write", "stop_event", local[c])
  /\ WriteStatus(c, "STOPPED")

StopEvent(c) ==
  \/ /\ pc[c] = "stop_event"
     /\ FindOpen(local[c].cycle, local[c].stage) # 0
     /\ ReadStep(c, "stop_event", FALSE, "idle", Nothing)
  \/ /\ Step(c, "stop_event", "idle", Nothing)
     /\ FindOpen(local[c].cycle, local[c].stage) = 0
     /\ CreateEvent(c, local[c].stage, "none")

-----------------------------------------------------------------------------
(* runNextStage: the work of the stage read, then advanceStage, which      *)
(* reads the cycle again. In DECIDING the cycle goes on to EXECUTING once  *)
(* a human has decided on a recommendation of this cycle; until then the   *)
(* CEO is asked, and the cycle routed to a human. The CEO's run may not    *)
(* complete, and the Chairman's review may throw. Within the bound on      *)
(* reviews, the last one is of a run of the CEO that did complete.         *)

Run(c, k) ==
  /\ "run" \in profile.operations
  /\ Room(k)
  /\ \/ /\ cycles[k].stage \notin {"DECIDING", "AWAITING_HUMAN", "COMPLETED"}
        /\ ReadStep(c, "idle", TRUE, "advance_read", [Nothing EXCEPT !.cycle = k, !.about = cycles[k].stage])
     \/ /\ cycles[k].stage = "DECIDING"
        /\ Decided(k) \/ (RecRoom(k) /\ ReviewRoom(k))
        /\ ReadStep(c, "idle", TRUE, "run_recs", [Nothing EXCEPT !.cycle = k, !.about = "DECIDING"])

(* Mutation of RunRecs: any recommendation counts, decided or not.         *)
RunRecs_AnyRecommendation(c) ==
  \/ /\ ReadStep(c, "run_recs", TRUE, "advance_read", [local[c] EXCEPT !.to = "EXECUTING"])
     /\ recs[local[c].cycle] # << >>
  \/ /\ ReadStep(c, "run_recs", TRUE, "run_ceo", local[c])
     /\ recs[local[c].cycle] = << >>

RunRecs(c) ==
  \/ /\ ReadStep(c, "run_recs", TRUE, "advance_read", [local[c] EXCEPT !.to = "EXECUTING"])
     /\ Decided(local[c].cycle)
  \/ /\ ReadStep(c, "run_recs", TRUE, "run_ceo", local[c])
     /\ ~Decided(local[c].cycle)

RunCeo(c) ==
  \/ /\ ReadStep(c, "run_ceo", TRUE, "route_read", local[c])
     /\ recs[local[c].cycle] # << >> \/ Reviews(local[c].cycle) + 1 < profile.reviews
  \/ /\ Step(c, "run_ceo", "run_chairman", local[c])
     /\ recs' = [recs EXCEPT ![local[c].cycle] = Append(@, "pending")]
     /\ UNCHANGED <<cycles, events, stopped, exceeded>>

RunChairman(c) == \E reviewed \in BOOLEAN : ReadStep(c, "run_chairman", reviewed, "route_read", local[c])

(* recordHumanDecision: deciding again changes nothing.                    *)
Decide(c, k, i) ==
  /\ "decide" \in profile.operations
  /\ Free(c)
  /\ recs[k][i] = "pending"
  /\ recs' = [recs EXCEPT ![k][i] = "decided"]
  /\ UNCHANGED <<cycles, events, stopped, exceeded, pc, local, crashes, profile>>

-----------------------------------------------------------------------------
(* routeToAwaitingHuman: both edges are checked on one read, then a review *)
(* event, then the row. The event of the requesting stage stays open.      *)

RouteRead(c, from, k) ==
  ReadStep(c, from,
           /\ "AWAITING_HUMAN" \in CYCLE_STAGE_TRANSITIONS[cycles[k].stage]
           /\ "AWAITING_HUMAN" \in CYCLE_STATUS_TRANSITIONS[cycles[k].status],
           "route_event", [Nothing EXCEPT !.cycle = k, !.stage = cycles[k].stage])

Route(c, k) ==
  /\ "route" \in profile.operations
  /\ Room(k)
  /\ ReviewRoom(k)
  /\ Reviews(k) + 1 < profile.reviews
  /\ RouteRead(c, "idle", k)

RouteRun(c) == RouteRead(c, "route_read", local[c].cycle)

RouteEvent(c) ==
  /\ Step(c, "route_event", "route_write", local[c])
  /\ CreateEvent(c, "AWAITING_HUMAN", local[c].stage)

RouteWrite(c) ==
  /\ Step(c, "route_write", "idle", Nothing)
  /\ WriteStage(c, "AWAITING_HUMAN", "AWAITING_HUMAN")

-----------------------------------------------------------------------------
(* resumeFromAwaitingHuman: the review event is completed, the stage to    *)
(* resume at is computed from the completed events, and entered. That      *)
(* stage is never EXECUTING, for a completed review is no linear stage: the*)
(* read of the emergency stop is kept in the step that computes it.        *)

HumanRead(c, k) ==
  /\ "human" \in profile.operations
  /\ Room(k)
  /\ ReadStep(c, "idle", cycles[k].status = "AWAITING_HUMAN", "human_complete",
              [Nothing EXCEPT !.cycle = k, !.event = FindOpen(k, "AWAITING_HUMAN")])

HumanComplete(c) ==
  /\ Step(c, "human_complete", "human_history", local[c])
  /\ IF local[c].event = 0
     THEN UNCHANGED tables
     ELSE CompleteEvent(c, local[c].event, events[local[c].cycle][local[c].event].about)

HumanHistory(c) ==
  LET stage == resolveResumeStage(completedLinearStages(local[c].cycle))
  IN  ReadStep(c, "human_history", stage = "EXECUTING" => ~stopped, "human_event", [local[c] EXCEPT !.to = stage])

HumanEvent(c) ==
  /\ Step(c, "human_event", "human_write", local[c])
  /\ CreateEvent(c, local[c].to, "none")

HumanWrite(c) ==
  /\ Step(c, "human_write", "idle", Nothing)
  /\ WriteStage(c, local[c].to, IF local[c].to = "COMPLETED" THEN "COMPLETED" ELSE "RUNNING")

-----------------------------------------------------------------------------
(* pauseCycle, resumeCycle and beginScheduledCycle, cancelCycle, failCycle:*)
(* read the status and check the edge, then write it.                      *)

StatusOf ==
  [pause |-> "PAUSED", resume |-> "RUNNING", cancel |-> "CANCELLED", fail |-> "FAILED"]

StatusRead(c, k, op) ==
  /\ op \in profile.operations
  /\ Exists(k)
  /\ ReadStep(c, "idle", StatusOf[op] \in CYCLE_STATUS_TRANSITIONS[cycles[k].status], "status_write",
              [Nothing EXCEPT !.cycle = k, !.status = StatusOf[op]])

StatusWrite(c) ==
  /\ Step(c, "status_write", "idle", Nothing)
  /\ WriteStatus(c, local[c].status)

-----------------------------------------------------------------------------
(* retryCycle: a FAILED cycle is left alone and a new row continues after  *)
(* the last stage that the failed one completed.                           *)

RetryRead(c, k) ==
  /\ "retry" \in profile.operations
  /\ RowRoom
  /\ Exists(k)
  /\ ReadStep(c, "idle", cycles[k].status = "FAILED", "retry_history", [Nothing EXCEPT !.cycle = k])

RetryHistory(c) ==
  LET stage == resolveResumeStage(completedLinearStages(local[c].cycle))
  IN  ReadStep(c, "retry_history", stage = "EXECUTING" => ~stopped, "retry_row", [local[c] EXCEPT !.to = stage])

RetryRow(c) ==
  \E k \in Cycles :
    /\ NextCycle(k)
    /\ Step(c, "retry_row", "retry_event", [local[c] EXCEPT !.cycle = k])
    /\ cycles' = [cycles EXCEPT ![k] = [status |-> "RUNNING", stage |-> local[c].to, of |-> local[c].cycle, key |-> "none"]]
    /\ UNCHANGED <<events, recs, stopped, exceeded>>

RetryEvent(c) ==
  /\ Step(c, "retry_event", "idle", Nothing)
  /\ CreateEvent(c, local[c].to, "none")

-----------------------------------------------------------------------------
(* The emergency stop is activated or lifted by a call; agents spend, and  *)
(* a new period begins, at any time; a restart loses the calls in flight.  *)

Stop(c) ==
  /\ "stop" \in profile.operations
  /\ Free(c)
  /\ stopped' = ~stopped
  /\ UNCHANGED <<cycles, events, recs, exceeded, pc, local, crashes, profile>>

Spend ==
  /\ "spend" \in profile.operations
  /\ exceeded' = ~exceeded
  /\ UNCHANGED <<cycles, events, recs, stopped, pc, local, crashes, profile>>

Crash ==
  /\ crashes < profile.crashes
  /\ crashes' = crashes + 1
  /\ pc' = [c \in Calls |-> "idle"]
  /\ local' = [c \in Calls |-> Nothing]
  /\ UNCHANGED <<tables, profile>>

-----------------------------------------------------------------------------
Init ==
  /\ cycles = [k \in Cycles |-> AbsentCycle]
  /\ events = [k \in Cycles |-> << >>]
  /\ recs = [k \in Cycles |-> << >>]
  /\ stopped = FALSE
  /\ exceeded = FALSE
  /\ pc = [c \in Calls |-> "idle"]
  /\ local = [c \in Calls |-> Nothing]
  /\ crashes = 0
  /\ profile \in Profiles

Begin(c) ==
  \/ \E key \in profile.keys, status \in {"RUNNING", "SCHEDULED"} : StartRead(c, key, status)
  \/ \E k \in Cycles : Advance(c, k) \/ Route(c, k) \/ HumanRead(c, k) \/ RetryRead(c, k)
  \/ \E k \in Cycles, op \in DOMAIN StatusOf : StatusRead(c, k, op)
  \/ Stop(c)

Drive == \E c \in Calls, k \in Cycles : Run(c, k)
HumanDecides == \E c \in Calls, k \in Cycles : \E i \in DOMAIN recs[k] : Decide(c, k, i)
HumanResumes == \E c \in Calls, k \in Cycles : HumanRead(c, k)

Continue(c) ==
  \/ StartRow(c) \/ StartEvent(c) \/ StartDone(c)
  \/ AdvanceRun(c) \/ AdvanceBudget(c) \/ AdvanceStop(c) \/ AdvanceFind(c)
  \/ AdvanceComplete(c) \/ AdvanceCreate(c) \/ AdvanceWrite(c)
  \/ StopRead(c) \/ StopWrite(c) \/ StopEvent(c)
  \/ RunRecs(c) \/ RunCeo(c) \/ RunChairman(c)
  \/ RouteRun(c) \/ RouteEvent(c) \/ RouteWrite(c)
  \/ HumanComplete(c) \/ HumanHistory(c) \/ HumanEvent(c) \/ HumanWrite(c)
  \/ StatusWrite(c)
  \/ RetryHistory(c) \/ RetryRow(c) \/ RetryEvent(c)

Next ==
  \/ \E c \in Calls : Begin(c) \/ Continue(c)
  \/ Drive
  \/ HumanDecides
  \/ Spend
  \/ Crash

Spec == Init /\ [][Next]_vars

(* Node.js runs a call that was started to its end. The driver asks again  *)
(* and again for the next stage, and the human keeps answering: strong     *)
(* fairness, for another request may hold the only call slot of the model. *)
FairSpec ==
  /\ Spec
  /\ \A c \in Calls : WF_vars(Continue(c))
  /\ SF_vars(Drive)
  /\ SF_vars(HumanDecides)
  /\ SF_vars(HumanResumes)

-----------------------------------------------------------------------------
(* Every variable holds values of its type and the bounds are kept.        *)
TypeOK ==
  /\ cycles \in [Cycles -> [status : CycleStatus \cup {"ABSENT"}, stage : CycleStage,
                            of : Cycles \cup {Null}, key : Keys]]
  /\ events \in [Cycles -> Seq([stage : CycleStage, done : BOOLEAN, about : CycleStage \cup {"none"}])]
  /\ recs \in [Cycles -> Seq({"pending", "decided"})]
  /\ stopped \in BOOLEAN /\ exceeded \in BOOLEAN
  /\ profile \in Profiles /\ crashes \in 0 .. profile.crashes
  /\ DOMAIN pc = Calls
  /\ local \in [Calls -> [cycle : Cycles \cup {Null}, stage : CycleStage \cup {"none"},
                          status : CycleStatus \cup {"none"}, to : CycleStage \cup Keys,
                          about : CycleStage \cup {"none"}, event : Nat]]

(* A cycle and the failed cycles it continues, step by step.               *)
Lineage(k) ==
  {j \in Cycles :
     \A S \in SUBSET Cycles : k \in S /\ (\A i \in S : cycles[i].of \in S \cup {Null}) => j \in S}

(* A cycle goes beyond its review only when a human has decided on one of  *)
(* its recommendations, or of a cycle it retries: scheduling stops at the  *)
(* first AWAITING_HUMAN and never slips into EXECUTING.                    *)
ExecutingWasDecided ==
  \A k \in Cycles :
    Exists(k) /\ cycles[k].stage \in {"EXECUTING", "OBSERVING", "LEARNING", "COMPLETED"} =>
      \E j \in Lineage(k) : Decided(j)

(* The summary stored with a completed stage is of that stage's own work:  *)
(* run-next-stage does the work of the stage it completes.                 *)
WorkMatchesStage ==
  \A k \in Cycles : \A i \in DOMAIN events[k] :
    LET e == events[k][i]
    IN  e.done /\ e.about # "none" /\ e.stage # "AWAITING_HUMAN" => e.about = e.stage

(* A cycle that completes has completed every stage on the way, itself or  *)
(* in a cycle it retries.                                                  *)
CompletedCyclesDidEveryStage ==
  \A k \in Cycles :
    cycles[k].status = "COMPLETED" =>
      CycleStage \ {"AWAITING_HUMAN", "COMPLETED"} \subseteq UNION {completedLinearStages(j) : j \in Lineage(k)}

(* One idempotency key starts one cycle, whatever requests race.           *)
KeysStartOneCycle ==
  \A j, k \in Cycles :
    Exists(j) /\ Exists(k) /\ cycles[k].key # "none" /\ cycles[j].key = cycles[k].key => j = k

(* A retry starts at a stage that its failed predecessor did not commit.   *)
RetriesContinue ==
  \A k \in Cycles :
    Exists(k) /\ cycles[k].of # Null /\ events[k] # << >> =>
      events[k][1].stage \notin completedLinearStages(cycles[k].of)

(* No work is started a second time: not by a request that is repeated,    *)
(* and not by the retry of what a failed cycle has committed.              *)
NoCycleStartsTwice == KeysStartOneCycle /\ RetriesContinue

(* The row of a cycle that was stopped, cancelled, failed or completed is  *)
(* never written again, and a cycle a human paused moves only when its     *)
(* status is changed.                                                      *)
SettledCyclesHoldStill ==
  [][\A k \in Cycles :
       /\ cycles[k].status \in Ended => cycles'[k] = cycles[k]
       /\ cycles[k].status = "PAUSED" => cycles'[k].stage = cycles[k].stage]_vars

(* No cycle enters EXECUTING while the emergency stop is active.           *)
NothingStartsExecutingWhileStopped ==
  [][\A k \in Cycles : cycles[k].stage # "EXECUTING" /\ cycles'[k].stage = "EXECUTING" => ~stopped]_vars

(* The stage that asked for the latest review of k.                        *)
Requesting(k) ==
  events[k][Max({i \in DOMAIN events[k] : events[k][i].stage = "AWAITING_HUMAN" /\ events[k][i].about # "none"})].about

(* When a human has decided, the cycle re-enters exactly the stage that    *)
(* requested review. This is so of the stages that a review can return to: *)
(* not of CREATED, whose event is completed with the row, of EXECUTING, or *)
(* of a retry, whose history is not its own.                               *)
ReviewsReenterTheirStage ==
  [][\A k \in Cycles :
       /\ cycles[k].status = "AWAITING_HUMAN" /\ cycles'[k].status = "RUNNING"
       /\ cycles[k].of = Null /\ Requesting(k) \notin {"CREATED", "EXECUTING"}
       => cycles'[k].stage = Requesting(k)]_vars

(* A running cycle that is driven and answered ends, unless the emergency  *)
(* stop is never lifted for good. A review that EXECUTING has asked for    *)
(* leaves it in AWAITING_HUMAN, RUNNING, from where nothing goes on. And   *)
(* while the company is over budget a driven cycle is stopped, not         *)
(* completed: in ANALYZING and DECIDING a review may come first, and the   *)
(* last step, from LEARNING, may be under way already.                     *)
ExecutingAskedForReview(k) ==
  \E i \in DOMAIN events[k] : events[k][i].stage = "AWAITING_HUMAN" /\ events[k][i].about = "EXECUTING"

CyclesEnd ==
  \A k \in Cycles :
    /\ <>[]~stopped => (cycles[k].status = "RUNNING" ~> (cycles[k].status \in Ended \/ ExecutingAskedForReview(k)))
    /\ (exceeded /\ cycles[k].status = "RUNNING" /\ cycles[k].stage \notin {"ANALYZING", "DECIDING", "LEARNING"})
         ~> (~exceeded \/ cycles[k].status = "STOPPED")
=============================================================================
