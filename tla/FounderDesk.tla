---------------------------- MODULE FounderDesk -----------------------------
(***************************************************************************)
(* What is put before the founder: alerts with their deduplication,        *)
(* incidents, support cases and tasks with their lifecycles, and the       *)
(* attention queue, which ranks whatever waits for a human decision.       *)
(*                                                                         *)
(* A call gives way at every write and between a read and the write that   *)
(* rests on it. The decisions themselves (approvals, memos, company        *)
(* recommendations) are made elsewhere: here they come and are decided.    *)
(***************************************************************************)
EXTENDS Integers, Sequences, FiniteSets, FiniteSetsExt

CONSTANTS
  Calls,                                                 \* requests that may be in flight
  MaxAlerts, MaxRaises, MaxRows, MaxDecisions, MaxItems, \* bounds
  Uses                                                   \* the ways the component is used, one for each behaviour

VARIABLES
  use,      \* [ops, load, crashes, restarts]: what may be called, how many calls at a time, ...
  db,       \* the tables, see DeskInit
  calls,    \* call -> where it is
  asked     \* history: [raises, refresh]: the alerts that were raised; whether a refresh has ended and nothing happened since it began

vars == <<use, db, calls, asked>>

AlertTypes == {"INCIDENT", "STALE_APPROVAL"}
DecisionSources == {"APPROVAL_REQUEST", "CUSTOMER_DISCOVERY_MEMO", "COMPANY_RECOMMENDATION"}

TASK_STATUS_TRANSITIONS ==
  [s \in {"PENDING", "QUEUED", "RUNNING", "COMPLETED", "FAILED", "CANCELLED"} |->
     CASE s = "PENDING" -> {"QUEUED", "CANCELLED"}
       [] s = "QUEUED"  -> {"RUNNING", "CANCELLED"}
       [] s = "RUNNING" -> {"COMPLETED", "FAILED", "CANCELLED"}
       [] OTHER         -> {}]

INCIDENT_STATUS_TRANSITIONS ==
  [s \in {"DETECTED", "TRIAGED", "INVESTIGATING", "MITIGATING", "RESOLVED", "POSTMORTEM"} |->
     CASE s = "DETECTED"      -> {"TRIAGED"}
       [] s = "TRIAGED"       -> {"INVESTIGATING"}
       [] s = "INVESTIGATING" -> {"MITIGATING", "RESOLVED"}
       [] s = "MITIGATING"    -> {"RESOLVED"}
       [] s = "RESOLVED"      -> {"POSTMORTEM", "INVESTIGATING"}
       [] OTHER               -> {}]

SUPPORT_CASE_STATUS_TRANSITIONS ==
  [s \in {"OPEN", "TRIAGED", "IN_PROGRESS", "WAITING_FOR_CUSTOMER", "RESOLVED", "ESCALATED"} |->
     CASE s = "OPEN"        -> {"TRIAGED"}
       [] s = "TRIAGED"     -> {"IN_PROGRESS", "ESCALATED"}
       [] s = "RESOLVED"    -> {"IN_PROGRESS"}
       [] s = "IN_PROGRESS" -> {"WAITING_FOR_CUSTOMER", "RESOLVED", "ESCALATED"}
       [] OTHER             -> {"IN_PROGRESS", "RESOLVED", "ESCALATED"} \ {s}]

Lifecycle(table) ==
  CASE table = "tasks"     -> TASK_STATUS_TRANSITIONS
    [] table = "incidents" -> INCIDENT_STATUS_TRANSITIONS
    [] table = "cases"     -> SUPPORT_CASE_STATUS_TRANSITIONS

Idle == [at |-> "idle", table |-> "none", x |-> 0, to |-> "none", todo |-> {}]
May(op, c) ==
  /\ op \in use.ops /\ calls[c].at = "idle"
  /\ Cardinality({d \in Calls : calls[d].at # "idle"}) < use.load
GoTo(c, call) == calls' = [calls EXCEPT ![c] = call]
Return(c) == GoTo(c, Idle)
Moved == [asked EXCEPT !.refresh = "stale"]

NewTask == [status |-> "PENDING"]
NewIncident == [status |-> "DETECTED"]
NewSupportCase == [status |-> "OPEN", triaged |-> FALSE]
NewAlert(type) == [type |-> type, count |-> 1, recent |-> TRUE, acknowledged |-> FALSE]
NewFounderAttentionItem(entry) == [source |-> entry.source, resource |-> entry.resource, score |-> entry.score, reviewed |-> FALSE]

DeskInit ==
  /\ use \in Uses
  /\ db = [alerts    |-> <<>>,   \* of one product; recent: seen within ALERT_DEDUP_WINDOW_MS
           tasks     |-> <<>>,
           incidents |-> <<>>,
           cases     |-> <<>>,
           decisions |-> <<>>,   \* [source, resource, risk, decided]; resource 0: none
           items     |-> <<>>]
  /\ calls = [c \in Calls |-> Idle]
  /\ asked = [raises |-> [t \in AlertTypes |-> 0], refresh |-> "stale"]

-----------------------------------------------------------------------------
(* alertService.                                                           *)

(* Whether an alert of this key was seen within the window. Of two rows of *)
(* one key, which only a race makes, the one seen last is bumped: either.  *)
withinDedupWindow(type) == {a \in DOMAIN db.alerts : db.alerts[a].type = type /\ db.alerts[a].recent}

RaiseCall(c, type) == GoTo(c, [Idle EXCEPT !.at = "raise", !.to = type])

(* An alert another component raises.                                      *)
Raise(c, type) ==
  /\ May("raise", c)
  /\ RaiseCall(c, type)
  /\ UNCHANGED <<use, db, asked>>

RaiseRead(c) ==
  LET call == calls[c]
      existing == withinDedupWindow(call.to)
  IN  /\ call.at = "raise"
      /\ \/ existing = {} /\ GoTo(c, [call EXCEPT !.at = "alert"])
         \/ \E a \in existing : GoTo(c, [call EXCEPT !.at = "bump", !.x = a])
      /\ UNCHANGED <<use, db, asked>>

CanCount(c) == asked.raises[calls[c].to] < MaxRaises
Counted(c) == [asked EXCEPT !.raises[calls[c].to] = @ + 1, !.refresh = "stale"]

BumpOccurrence(c) ==
  /\ calls[c].at = "bump" /\ CanCount(c)
  /\ db' = [db EXCEPT !.alerts[calls[c].x].count = @ + 1, !.alerts[calls[c].x].recent = TRUE]
  /\ asked' = Counted(c)
  /\ Return(c)
  /\ UNCHANGED use

CreateAlert(c) ==
  /\ calls[c].at = "alert" /\ CanCount(c) /\ Len(db.alerts) < MaxAlerts
  /\ db' = [db EXCEPT !.alerts = Append(@, NewAlert(calls[c].to))]
  /\ asked' = Counted(c)
  /\ Return(c)
  /\ UNCHANGED use

Acknowledge(a) ==
  /\ "acknowledge" \in use.ops
  /\ db' = [db EXCEPT !.alerts[a].acknowledged = TRUE]
  /\ asked' = Moved
  /\ UNCHANGED <<use, calls>>

(* A day without a new occurrence of anything.                             *)
DayPasses ==
  /\ "day" \in use.ops /\ \E a \in DOMAIN db.alerts : db.alerts[a].recent
  /\ db' = [db EXCEPT !.alerts = [a \in DOMAIN @ |-> [@[a] EXCEPT !.recent = FALSE]]]
  /\ UNCHANGED <<use, calls, asked>>

-----------------------------------------------------------------------------
(* taskService, incidentService, supportCaseService.                       *)

CreateTask ==
  /\ "task" \in use.ops /\ Len(db.tasks) < MaxRows
  /\ db' = [db EXCEPT !.tasks = Append(@, NewTask)]
  /\ UNCHANGED <<use, calls, asked>>

CreateSupportCase ==
  /\ "case" \in use.ops /\ Len(db.cases) < MaxRows
  /\ db' = [db EXCEPT !.cases = Append(@, NewSupportCase)]
  /\ UNCHANGED <<use, calls, asked>>

(* Mutation of CreateIncident: the alert is raised for the first only.     *)
CreateIncident_Quiet(c) ==
  /\ May("incident", c) /\ Len(db.incidents) < MaxRows
  /\ db' = [db EXCEPT !.incidents = Append(@, NewIncident)]
  /\ IF db.incidents = <<>> THEN RaiseCall(c, "INCIDENT") ELSE UNCHANGED calls
  /\ UNCHANGED <<use, asked>>

CreateIncident(c) ==
  /\ May("incident", c) /\ Len(db.incidents) < MaxRows
  /\ db' = [db EXCEPT !.incidents = Append(@, NewIncident)]
  /\ RaiseCall(c, "INCIDENT")
  /\ UNCHANGED <<use, asked>>

(* The status is checked against the row as it was read, and written by    *)
(* its id.                                                                 *)
SetStatus(c, table, x, to) ==
  /\ May("status", c)
  /\ to \in Lifecycle(table)[db[table][x].status]
  /\ GoTo(c, [Idle EXCEPT !.at = "status", !.table = table, !.x = x, !.to = to])
  /\ UNCHANGED <<use, db, asked>>

SetStatusWrite(c) ==
  LET call == calls[c]
  IN  /\ call.at = "status"
      /\ db' = [db EXCEPT ![call.table][call.x].status = call.to]
      /\ Return(c)
      /\ UNCHANGED <<use, asked>>

(* supportAgentService.run, when it may start and its answer fits: a       *)
(* recommendation; the status stays a human's to move.                     *)
RunSupportAgent(x) ==
  /\ "triage" \in use.ops
  /\ db' = [db EXCEPT !.cases[x].triaged = TRUE]
  /\ UNCHANGED <<use, calls, asked>>

-----------------------------------------------------------------------------
(* founderDecisionQueueService: what waits for a human, read at the time   *)
(* of asking; and the attention score of each entry, in hundredths.        *)

Submit(source, resource, risk) ==
  /\ "decide" \in use.ops /\ Len(db.decisions) < MaxDecisions
  /\ db' = [db EXCEPT !.decisions = Append(@, [source |-> source, resource |-> resource, risk |-> risk, decided |-> FALSE])]
  /\ asked' = Moved
  /\ UNCHANGED <<use, calls>>

Decide(d) ==
  /\ "decide" \in use.ops /\ ~db.decisions[d].decided
  /\ db' = [db EXCEPT !.decisions[d].decided = TRUE]
  /\ asked' = Moved
  /\ UNCHANGED <<use, calls>>

REVERSIBILITY_BY_SOURCE(source) == IF source = "CUSTOMER_DISCOVERY_MEMO" THEN 75 ELSE 50
RISK_LEVEL_TO_ATTENTION(risk) ==
  CASE risk = "GREEN" -> 0 [] risk = "YELLOW" -> 33 [] risk = "ORANGE" -> 66 [] risk = "RED" -> 100 [] OTHER -> 50

(* Without an expiry and a confidence of its own; the factors that have no *)
(* source yet are neutral.                                                 *)
computeFounderAttentionScore(source, risk) ==
  ((18 + 10 + 10 + 8 + 10) * 50 + 14 * RISK_LEVEL_TO_ATTENTION(risk) + 12 * (100 - REVERSIBILITY_BY_SOURCE(source))) \div 100

Entry(source, resource, risk) ==
  [source |-> source, resource |-> resource, score |-> computeFounderAttentionScore(source, risk)]

listPending ==
  {Entry(db.decisions[d].source, db.decisions[d].resource, db.decisions[d].risk) : d \in {d \in DOMAIN db.decisions : ~db.decisions[d].decided}}
  \cup {Entry("ALERT", 1, "YELLOW") : a \in {a \in DOMAIN db.alerts : ~db.alerts[a].acknowledged}}

-----------------------------------------------------------------------------
(* founderAttentionService.                                                *)

(* Mutation of findOpenForResource: an item that was reviewed counts too.  *)
findOpenForResource_Reviewed(entry) ==
  {i \in DOMAIN db.items : db.items[i].source = entry.source /\ db.items[i].resource = entry.resource}

findOpenForResource(entry) ==
  {i \in DOMAIN db.items : db.items[i].source = entry.source /\ db.items[i].resource = entry.resource /\ ~db.items[i].reviewed}

Refresh(c) ==
  /\ May("refresh", c)
  /\ GoTo(c, [Idle EXCEPT !.at = "refresh", !.todo = {entry \in listPending : entry.resource # 0}])
  /\ asked' = [asked EXCEPT !.refresh = "running"]
  /\ UNCHANGED <<use, db>>

(* The entries come highest score first; of equal ones, any.               *)
RefreshEntry(c) ==
  /\ calls[c].at = "refresh"
  /\ IF calls[c].todo = {} THEN Return(c) /\ asked' = [asked EXCEPT !.refresh = IF @ = "running" THEN "ended" ELSE @]
     ELSE \E entry \in calls[c].todo :
            /\ \A other \in calls[c].todo : other.score <= entry.score
            /\ IF findOpenForResource(entry) # {} THEN GoTo(c, [calls[c] EXCEPT !.todo = @ \ {entry}])
               ELSE GoTo(c, [calls[c] EXCEPT !.at = "item", !.to = entry])
            /\ UNCHANGED asked
  /\ UNCHANGED <<use, db>>

CreateItem(c) ==
  LET call == calls[c]
  IN  /\ call.at = "item" /\ Len(db.items) < MaxItems
      /\ db' = [db EXCEPT !.items = Append(@, NewFounderAttentionItem(call.to))]
      /\ GoTo(c, [call EXCEPT !.at = "refresh", !.todo = @ \ {call.to}, !.to = "none"])
      /\ UNCHANGED <<use, asked>>

MarkReviewed(i) ==
  /\ "review" \in use.ops
  /\ db' = [db EXCEPT !.items[i].reviewed = TRUE]
  /\ asked' = Moved
  /\ UNCHANGED <<use, calls>>

(* What the queue shows: an open item whose decision still waits.          *)
listQueue ==
  {i \in DOMAIN db.items :
     ~db.items[i].reviewed /\ \E entry \in listPending : entry.source = db.items[i].source /\ entry.resource = db.items[i].resource}

-----------------------------------------------------------------------------
Restart ==
  /\ use.crashes > 0
  /\ use' = [use EXCEPT !.crashes = @ - 1]
  /\ calls' = [c \in Calls |-> Idle]
  /\ UNCHANGED <<db, asked>>

DeskStep(c) ==
  \/ \E type \in AlertTypes : Raise(c, type)
  \/ RaiseRead(c) \/ BumpOccurrence(c) \/ CreateAlert(c)
  \/ CreateIncident(c)
  \/ \E table \in {"tasks", "incidents", "cases"} : \E x \in DOMAIN db[table] : \E to \in DOMAIN Lifecycle(table) : SetStatus(c, table, x, to)
  \/ SetStatusWrite(c)
  \/ Refresh(c) \/ RefreshEntry(c) \/ CreateItem(c)

DeskNext ==
  \/ \E a \in DOMAIN db.alerts : Acknowledge(a)
  \/ DayPasses \/ CreateTask \/ CreateSupportCase \/ Restart
  \/ \E x \in DOMAIN db.cases : RunSupportAgent(x)
  \/ \E source \in DecisionSources, resource \in {0, 1}, risk \in {"GREEN", "RED"} : Submit(source, resource, risk)
  \/ \E d \in DOMAIN db.decisions : Decide(d)
  \/ \E i \in DOMAIN db.items : MarkReviewed(i)
  \/ \E c \in Calls : DeskStep(c)

-----------------------------------------------------------------------------
(* Properties.                                                             *)

DeskTypeOK ==
  /\ \A table \in {"tasks", "incidents", "cases"} : \A x \in DOMAIN db[table] : db[table][x].status \in DOMAIN Lifecycle(table)
  /\ \A a \in DOMAIN db.alerts : db.alerts[a].type \in AlertTypes /\ db.alerts[a].count \in 1 .. MaxRaises
  /\ \A i \in DOMAIN db.items : db.items[i].score \in 0 .. 100 /\ db.items[i].source \in DecisionSources \cup {"ALERT"}

(* No occurrence is lost and none is counted twice, whatever the races:    *)
(* the counts of the alerts of a type add up to the times it was raised;   *)
(* an incident is among them unless its call is on the way or a restart    *)
(* ended it; and when calls come one at a time a day has one alert of a    *)
(* type.                                                                   *)
AlertsAreCounted ==
  LET ofType(t) == {a \in DOMAIN db.alerts : db.alerts[a].type = t}
      onTheWay == {c \in Calls : calls[c].at \in {"raise", "alert", "bump"} /\ calls[c].to = "INCIDENT"}
  IN  /\ \A t \in AlertTypes : MapThenSumSet(LAMBDA a : db.alerts[a].count, ofType(t)) = asked.raises[t]
      /\ use.restarts = use.crashes => Len(db.incidents) <= asked.raises["INCIDENT"] + Cardinality(onTheWay)
      /\ use.load = 1 => \A t \in AlertTypes : Cardinality(withinDedupWindow(t)) <= 1

(* When calls come one at a time, a refresh that has ended leaves every    *)
(* decision that waits and names a resource on the queue, also one whose   *)
(* earlier item was reviewed while it went on waiting, and each once; and  *)
(* nothing on the queue has been decided.                                  *)
QueueIsComplete ==
  use.load = 1 =>
    /\ \A i, j \in DOMAIN db.items :
         ~db.items[i].reviewed /\ ~db.items[j].reviewed /\ db.items[i].source = db.items[j].source /\ db.items[i].resource = db.items[j].resource
         => i = j
    /\ asked.refresh = "ended" => \A entry \in listPending : entry.resource # 0 =>
                           \E i \in listQueue : db.items[i].source = entry.source /\ db.items[i].resource = entry.resource
=============================================================================
