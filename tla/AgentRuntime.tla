---------------------------- MODULE AgentRuntime ----------------------------
(***************************************************************************)
(* The agent runtime with the Guardian and the agent registry: executions  *)
(* of one agent, each driven through its program by one call of run, while *)
(* humans change the agent's status and grant and revoke its permissions.  *)
(*                                                                         *)
(* An action is the code between two awaits. The program is an agent's own *)
(* pipeline and may do with its handle what it likes, but no program       *)
(* catches what the handle throws. Row counters are written after a call   *)
(* that succeeded; usage is what run keeps in memory.                      *)
(***************************************************************************)
EXTENDS Integers, Sequences, FiniteSets

CONSTANTS
  Executions,     \* rows of agent_executions
  Registrars,     \* calls to the registry that may be in flight
  Permissions,
  Gated,          \* permissions whose risk level requires an approval
  Tools,
  Requires,       \* requiredPermissions of each tool, in order
  MaxSteps, MaxToolCalls, MaxModelCalls, MaxRetries,  \* the execution budget
  MaxGrants,      \* bound: rows of agent_permissions
  MaxCrashes      \* bound: process restarts and writes the database refuses

ASSUME ToolsAssumption == Gated \subseteq Permissions /\ Requires \in [Tools -> Seq(Permissions)]
ASSUME BudgetAssumption ==
  /\ MaxSteps \in Nat /\ MaxToolCalls \in Nat /\ MaxModelCalls \in Nat /\ MaxRetries \in Nat
ASSUME BoundsAssumption == MaxGrants \in Nat /\ MaxCrashes \in Nat

AgentStatus == {"ACTIVE", "PAUSED", "SUSPENDED", "RETIRED"}

(* RETIRED is terminal.                                                    *)
AGENT_STATUS_TRANSITIONS == [s \in AgentStatus |-> IF s = "RETIRED" THEN {} ELSE AgentStatus \ {s}]

ExecutionStatus ==
  {"CREATED", "QUEUED", "RUNNING", "WAITING_FOR_TOOL", "PROCESSING_RESULT", "COMPLETED", "FAILED", "CANCELLED"}

(* Mutation of EXECUTION_STATUS_TRANSITIONS: a result cannot fail.         *)
EXECUTION_STATUS_TRANSITIONS_ResultStands ==
  [s \in ExecutionStatus |->
     CASE s = "CREATED"           -> {"QUEUED", "CANCELLED"}
       [] s = "QUEUED"            -> {"RUNNING", "CANCELLED"}
       [] s = "RUNNING"           -> ExecutionStatus \ {"CREATED", "QUEUED", "RUNNING"}
       [] s = "WAITING_FOR_TOOL"  -> {"RUNNING", "FAILED", "CANCELLED"}
       [] s = "PROCESSING_RESULT" -> {"COMPLETED"}
       [] OTHER                   -> {}]

EXECUTION_STATUS_TRANSITIONS ==
  [s \in ExecutionStatus |->
     CASE s = "CREATED"           -> {"QUEUED", "CANCELLED"}
       [] s = "QUEUED"            -> {"RUNNING", "CANCELLED"}
       [] s = "RUNNING"           -> ExecutionStatus \ {"CREATED", "QUEUED", "RUNNING"}
       [] s = "WAITING_FOR_TOOL"  -> {"RUNNING", "FAILED", "CANCELLED"}
       [] s = "PROCESSING_RESULT" -> {"COMPLETED", "FAILED"}
       [] OTHER                   -> {}]

Grants == 1 .. MaxGrants
NoGrant == 0

VARIABLES
  agent,     \* status of the agent
  grants,    \* agent_permissions
  rows,      \* agent_executions: status and persisted usage
  toolRows,  \* tool_executions of each execution: how many are SUCCESS, how many FAILED
  usage,     \* what run has counted in memory
  pc,        \* where the run of each execution is
  call,      \* the model or tool call in progress: tool, permission being checked, attempt
  registrar, \* what each call to the registry does next
  attempts,  \* history: calls of the model provider and of tools that were made
  seen,      \* history: what held at some moment since the current tool call began
  crashes    \* restarts and refused writes so far

registry  == <<agent, grants, registrar>>
execution == <<rows, toolRows, usage, pc, call, attempts>>
vars == <<registry, execution, seen, crashes>>

NoCall == [tool |-> "none", permission |-> 0, attempt |-> 0]
NothingSeen == [active |-> FALSE, granted |-> {}]
NoUsage == [steps |-> 0, tools |-> 0, models |-> 0, retries |-> 0]
AbsentRow == [status |-> "ABSENT", steps |-> 0, tools |-> 0, models |-> 0, retries |-> 0]
NoRequest == [op |-> "none", status |-> "none", permission |-> "none", grant |-> NoGrant]

-----------------------------------------------------------------------------
(* The Guardian: an agent may act while it is ACTIVE and holds a grant that*)
(* is not revoked of a permission that needs no approval.                  *)

HasActivePermission(p) == \E g \in Grants : grants[g].permission = p /\ grants[g].active

Granted == {p \in Permissions : HasActivePermission(p)}

-----------------------------------------------------------------------------
(* Steps of a run.                                                         *)

Goto(e, to) == pc' = [pc EXCEPT ![e] = to]

(* transitionExecution: the edge is checked on the row in memory, which is *)
(* the row as last written, then the status is written.                    *)
Allowed(e, to) == to \in EXECUTION_STATUS_TRANSITIONS[rows[e].status]

Transition(e, from, to, next) ==
  /\ pc[e] = from
  /\ Allowed(e, to)
  /\ rows' = [rows EXCEPT ![e] = [@ EXCEPT !.status = to]]
  /\ Goto(e, next)
  /\ UNCHANGED <<registry, toolRows, usage, call, attempts, seen, crashes>>

(* An illegal edge throws into run's catch.                                *)
IllegalTransition(e, from, to) ==
  /\ pc[e] = from
  /\ ~Allowed(e, to)
  /\ Goto(e, "fail")
  /\ UNCHANGED <<registry, rows, toolRows, usage, call, attempts, seen, crashes>>

Throw(e, from) ==
  /\ pc[e] = from
  /\ Goto(e, "fail")
  /\ UNCHANGED <<registry, rows, toolRows, usage, call, attempts, seen, crashes>>

(* startExecution creates the row, run queues and starts it.               *)
StartExecution(e) ==
  /\ pc[e] = "new"
  /\ rows' = [rows EXCEPT ![e] = [AbsentRow EXCEPT !.status = "CREATED"]]
  /\ Goto(e, "queue")
  /\ UNCHANGED <<registry, toolRows, usage, call, attempts, seen, crashes>>

Queue(e) == Transition(e, "queue", "QUEUED", "run")
StartRun(e) == Transition(e, "run", "RUNNING", "program")

(* The program: a logical step, a status of its own, its result, a         *)
(* failure; or a call, below.                                              *)
ProgramStep(e) ==
  /\ pc[e] = "program"
  /\ usage' = [usage EXCEPT ![e] = [@ EXCEPT !.steps = usage[e].steps + 1]]
  /\ Goto(e, IF usage[e].steps + 1 > MaxSteps THEN "fail" ELSE "program")
  /\ UNCHANGED <<registry, rows, toolRows, call, attempts, seen, crashes>>

ProgramTransition(e) ==
  \/ Transition(e, "program", "PROCESSING_RESULT", "program")
  \/ IllegalTransition(e, "program", "PROCESSING_RESULT")

ProgramReturns(e) ==
  /\ pc[e] = "program"
  /\ Goto(e, "complete")
  /\ UNCHANGED <<registry, rows, toolRows, usage, call, attempts, seen, crashes>>

(* Its own failure; or a call is refused after maxDurationMs.              *)
ProgramThrows(e) == Throw(e, "program")

(* Mutation of Attempt: one retry too many.                                *)
Attempt_OneMore(e, from, ok, failed) ==
  /\ pc[e] = from
  /\ attempts' = [attempts EXCEPT ![e] = attempts[e] + 1]
  /\ \/ Goto(e, ok) /\ UNCHANGED <<usage, call>>
     \/ Goto(e, failed) /\ UNCHANGED <<usage, call>>
     \/ /\ call[e].attempt <= MaxRetries + 1
        /\ call' = [call EXCEPT ![e] = [@ EXCEPT !.attempt = call[e].attempt + 1]]
        /\ usage' = [usage EXCEPT ![e] = [@ EXCEPT !.retries = usage[e].retries + 1]]
        /\ UNCHANGED pc
  /\ UNCHANGED <<registry, rows, toolRows, seen, crashes>>

(* withBoundedRetry of one call: an attempt succeeds, fails in a way that  *)
(* is retried, or fails for good.                                          *)
Attempt(e, from, ok, failed) ==
  /\ pc[e] = from
  /\ attempts' = [attempts EXCEPT ![e] = attempts[e] + 1]
  /\ \/ Goto(e, ok) /\ UNCHANGED <<usage, call>>
     \/ Goto(e, failed) /\ UNCHANGED <<usage, call>>
     \/ /\ call[e].attempt < MaxRetries + 1
        /\ call' = [call EXCEPT ![e] = [@ EXCEPT !.attempt = call[e].attempt + 1]]
        /\ usage' = [usage EXCEPT ![e] = [@ EXCEPT !.retries = usage[e].retries + 1]]
        /\ UNCHANGED pc
  /\ UNCHANGED <<registry, rows, toolRows, seen, crashes>>

-----------------------------------------------------------------------------
(* callModel: the budget is checked, then the call is made, then it  *)
(* is counted and the counters are stored.                                 *)

(* Mutation of CallModel: one call too many.                               *)
CallModel_OneMore(e) ==
  /\ pc[e] = "program"
  /\ IF usage[e].models > MaxModelCalls
     THEN Goto(e, "fail") /\ UNCHANGED call
     ELSE Goto(e, "model") /\ call' = [call EXCEPT ![e] = [NoCall EXCEPT !.attempt = 1]]
  /\ UNCHANGED <<registry, rows, toolRows, usage, attempts, seen, crashes>>

CallModel(e) ==
  /\ pc[e] = "program"
  /\ IF usage[e].models >= MaxModelCalls
     THEN Goto(e, "fail") /\ UNCHANGED call
     ELSE Goto(e, "model") /\ call' = [call EXCEPT ![e] = [NoCall EXCEPT !.attempt = 1]]
  /\ UNCHANGED <<registry, rows, toolRows, usage, attempts, seen, crashes>>

ModelAttempt(e) == Attempt(e, "model", "model_update", "fail")

ModelUpdate(e) ==
  /\ pc[e] = "model_update"
  /\ usage' = [usage EXCEPT ![e] = [@ EXCEPT !.models = usage[e].models + 1]]
  /\ rows' = [rows EXCEPT ![e] = [@ EXCEPT !.models = usage[e].models + 1, !.retries = usage[e].retries]]
  /\ call' = [call EXCEPT ![e] = NoCall]
  /\ Goto(e, "program")
  /\ UNCHANGED <<registry, toolRows, attempts, seen, crashes>>

-----------------------------------------------------------------------------
(* callTool: the budget; for each permission the tool requires, the   *)
(* agent's status and then its grants are read; the row waits for the tool;*)
(* the input is checked, the tool executed, its result recorded.           *)

CallTool(e, t) ==
  /\ pc[e] = "program"
  /\ IF usage[e].tools >= MaxToolCalls
     THEN Goto(e, "fail") /\ UNCHANGED <<call, seen>>
     ELSE /\ call' = [call EXCEPT ![e] = [tool |-> t, permission |-> 1, attempt |-> 1]]
          /\ seen' = [seen EXCEPT ![e] = [active |-> agent = "ACTIVE", granted |-> Granted]]
          /\ Goto(e, IF Requires[t] = << >> THEN "tool_wait" ELSE "authorize_agent")
  /\ UNCHANGED <<registry, rows, toolRows, usage, attempts, crashes>>

AuthorizeAgent(e) ==
  /\ pc[e] = "authorize_agent"
  /\ Goto(e, IF agent = "ACTIVE" THEN "authorize_grant" ELSE "fail")
  /\ UNCHANGED <<registry, rows, toolRows, usage, call, attempts, seen, crashes>>

Checked(e) == Requires[call[e].tool][call[e].permission]

(* Mutation of AuthorizeGrant: the first permission is enough.             *)
AuthorizeGrant_First(e) ==
  /\ pc[e] = "authorize_grant"
  /\ Goto(e, IF HasActivePermission(Checked(e)) /\ Checked(e) \notin Gated THEN "tool_wait" ELSE "fail")
  /\ UNCHANGED <<registry, rows, toolRows, usage, call, attempts, seen, crashes>>

(* Mutation of AuthorizeGrant: the next permission is not taken.           *)
AuthorizeGrant_Same(e) ==
  /\ pc[e] = "authorize_grant"
  /\ Goto(e, IF ~HasActivePermission(Checked(e)) \/ Checked(e) \in Gated THEN "fail"
             ELSE IF call[e].permission = Len(Requires[call[e].tool]) THEN "tool_wait" ELSE "authorize_agent")
  /\ UNCHANGED <<registry, rows, toolRows, usage, call, attempts, seen, crashes>>

AuthorizeGrant(e) ==
  /\ pc[e] = "authorize_grant"
  /\ \/ /\ ~HasActivePermission(Checked(e)) \/ Checked(e) \in Gated
        /\ Goto(e, "fail")
        /\ UNCHANGED call
     \/ /\ HasActivePermission(Checked(e)) /\ Checked(e) \notin Gated
        /\ IF call[e].permission = Len(Requires[call[e].tool])
           THEN Goto(e, "tool_wait") /\ UNCHANGED call
           ELSE /\ Goto(e, "authorize_agent")
                /\ call' = [call EXCEPT ![e] = [@ EXCEPT !.permission = call[e].permission + 1]]
  /\ UNCHANGED <<registry, rows, toolRows, usage, attempts, seen, crashes>>

ToolWait(e) ==
  \/ Transition(e, "tool_wait", "WAITING_FOR_TOOL", "tool_input")
  \/ IllegalTransition(e, "tool_wait", "WAITING_FOR_TOOL")

ToolInput(e) ==
  \/ Throw(e, "tool_input")
  \/ /\ pc[e] = "tool_input"
     /\ Goto(e, "tool")
     /\ UNCHANGED <<registry, rows, toolRows, usage, call, attempts, seen, crashes>>

(* An output that does not fit its schema fails as the tool does.          *)
ToolAttempt(e) == Attempt(e, "tool", "tool_row", "tool_failed")

ToolRow(e) ==
  /\ pc[e] = "tool_row"
  /\ toolRows' = [toolRows EXCEPT ![e] = [@ EXCEPT !.SUCCESS = toolRows[e].SUCCESS + 1]]
  /\ usage' = [usage EXCEPT ![e] = [@ EXCEPT !.tools = usage[e].tools + 1]]
  /\ Goto(e, "tool_update")
  /\ UNCHANGED <<registry, rows, call, attempts, seen, crashes>>

(* Mutation of ToolUpdate: the retries are not stored.                     *)
ToolUpdate_RetriesLost(e) ==
  /\ pc[e] = "tool_update"
  /\ rows' = [rows EXCEPT ![e] = [@ EXCEPT !.tools = usage[e].tools]]
  /\ call' = [call EXCEPT ![e] = NoCall]
  /\ Goto(e, "tool_running")
  /\ UNCHANGED <<registry, toolRows, usage, attempts, seen, crashes>>

ToolUpdate(e) ==
  /\ pc[e] = "tool_update"
  /\ rows' = [rows EXCEPT ![e] = [@ EXCEPT !.tools = usage[e].tools, !.retries = usage[e].retries]]
  /\ call' = [call EXCEPT ![e] = NoCall]
  /\ Goto(e, "tool_running")
  /\ UNCHANGED <<registry, toolRows, usage, attempts, seen, crashes>>

ToolRunning(e) == Transition(e, "tool_running", "RUNNING", "program")

ToolFailed(e) ==
  /\ pc[e] = "tool_failed"
  /\ toolRows' = [toolRows EXCEPT ![e] = [@ EXCEPT !.FAILED = toolRows[e].FAILED + 1]]
  /\ Goto(e, "fail")
  /\ UNCHANGED <<registry, rows, usage, call, attempts, seen, crashes>>

-----------------------------------------------------------------------------
(* The end of run: COMPLETED with the result, or FAILED with the error; an *)
(* illegal edge to FAILED is thrown to the caller.                         *)

Settle(e, from, to, next) ==
  /\ pc[e] = from
  /\ Allowed(e, to)
  /\ rows' = [rows EXCEPT ![e] = [@ EXCEPT !.status = to, !.steps = usage[e].steps]]
  /\ call' = [call EXCEPT ![e] = NoCall]
  /\ Goto(e, next)
  /\ UNCHANGED <<registry, toolRows, usage, attempts, seen>>

Finish(e, from, to) == Settle(e, from, to, "done") /\ UNCHANGED crashes

Complete(e) == Finish(e, "complete", "COMPLETED") \/ IllegalTransition(e, "complete", "COMPLETED")

Fail(e) ==
  /\ pc[e] = "fail"
  /\ IF Allowed(e, "FAILED")
     THEN Finish(e, "fail", "FAILED")
     ELSE Goto(e, "thrown") /\ UNCHANGED <<registry, rows, toolRows, usage, call, attempts, seen, crashes>>

-----------------------------------------------------------------------------
(* A write the database refuses throws: to the caller before the program   *)
(* starts, then into run's catch, or the one of the tool's block, which    *)
(* records a FAILED call beside the SUCCESS it may have; and from run's    *)
(* catch to the caller.                                                    *)
WriteFails(e) ==
  /\ crashes < MaxCrashes
  /\ crashes' = crashes + 1
  /\ \/ pc[e] \in {"queue", "run", "fail"} /\ Goto(e, "thrown")
     \/ pc[e] \in {"model_update", "tool_wait", "tool_failed", "complete"} /\ Goto(e, "fail")
     \/ pc[e] \in {"tool_row", "tool_update", "tool_running"} /\ Goto(e, "tool_failed")
  /\ UNCHANGED <<registry, rows, toolRows, usage, call, attempts, seen>>

(* The status is stored and its audit entry is not: the error that follows *)
(* COMPLETED takes the illegal edge to FAILED, and both reach the caller.  *)
AuditFails(e) ==
  /\ crashes < MaxCrashes
  /\ crashes' = crashes + 1
  /\ Settle(e, "complete", "COMPLETED", "thrown") \/ Settle(e, "fail", "FAILED", "thrown")

-----------------------------------------------------------------------------
(* The registry: a human's call reads, checks and then writes by id.       *)

Ask(r, ok, request) ==
  /\ registrar[r] = NoRequest
  /\ ok
  /\ registrar' = [registrar EXCEPT ![r] = request]
  /\ UNCHANGED <<agent, grants, execution, seen, crashes>>

(* What now holds has held since the tool call in progress began.          *)
Calling == {"authorize_agent", "authorize_grant", "tool_wait", "tool_input", "tool"}

Witness ==
  seen' = [e \in Executions |->
             IF pc[e] \in Calling
             THEN [active |-> seen[e].active \/ agent' = "ACTIVE", granted |-> seen[e].granted \cup Granted']
             ELSE NothingSeen]

Answered(r) ==
  /\ registrar' = [registrar EXCEPT ![r] = NoRequest]
  /\ Witness
  /\ UNCHANGED <<execution, crashes>>

(* transitionStatus.                                                       *)
StatusRead(r, to) ==
  Ask(r, to \in AGENT_STATUS_TRANSITIONS[agent], [NoRequest EXCEPT !.op = "status", !.status = to])

StatusWrite(r) ==
  /\ registrar[r].op = "status"
  /\ agent' = registrar[r].status
  /\ UNCHANGED grants
  /\ Answered(r)

GrantRoom ==
  Cardinality({r \in Registrars : registrar[r].op = "grant"}) < Cardinality({g \in Grants : grants[g].permission = "none"})

(* grantPermission.                                                        *)
GrantRead(r, p) == Ask(r, GrantRoom /\ ~HasActivePermission(p), [NoRequest EXCEPT !.op = "grant", !.permission = p])

GrantWrite(r) ==
  /\ registrar[r].op = "grant"
  /\ \E g \in Grants :
       /\ grants[g].permission = "none" /\ \A h \in 1 .. (g - 1) : grants[h].permission # "none"
       /\ grants' = [grants EXCEPT ![g] = [permission |-> registrar[r].permission, active |-> TRUE]]
  /\ UNCHANGED agent
  /\ Answered(r)

(* revokePermission.                                                       *)
RevokeRead(r, g) == Ask(r, grants[g].active, [NoRequest EXCEPT !.op = "revoke", !.grant = g])

RevokeWrite(r) ==
  /\ registrar[r].op = "revoke"
  /\ grants' = [grants EXCEPT ![registrar[r].grant] = [@ EXCEPT !.active = FALSE]]
  /\ UNCHANGED agent
  /\ Answered(r)

Crash ==
  /\ crashes < MaxCrashes
  /\ crashes' = crashes + 1
  /\ pc' = [e \in Executions |-> IF pc[e] \in {"new", "done", "thrown"} THEN pc[e] ELSE "lost"]
  /\ registrar' = [r \in Registrars |-> NoRequest]
  /\ UNCHANGED <<agent, grants, rows, toolRows, usage, call, attempts, seen>>

-----------------------------------------------------------------------------
Init ==
  /\ agent = "ACTIVE"
  /\ grants = [g \in Grants |-> [permission |-> "none", active |-> FALSE]]
  /\ rows = [e \in Executions |-> AbsentRow]
  /\ toolRows = [e \in Executions |-> [SUCCESS |-> 0, FAILED |-> 0]]
  /\ usage = [e \in Executions |-> NoUsage]
  /\ pc = [e \in Executions |-> "new"]
  /\ call = [e \in Executions |-> NoCall]
  /\ registrar = [r \in Registrars |-> NoRequest]
  /\ attempts = [e \in Executions |-> 0]
  /\ seen = [e \in Executions |-> NothingSeen]
  /\ crashes = 0

(* The program's next move.                                                *)
Program(e) ==
  \/ ProgramStep(e) \/ ProgramTransition(e) \/ ProgramReturns(e) \/ ProgramThrows(e)
  \/ CallModel(e) \/ \E t \in Tools : CallTool(e, t)

Run(e) ==
  \/ Queue(e) \/ StartRun(e) \/ Program(e)
  \/ ModelAttempt(e) \/ ModelUpdate(e)
  \/ AuthorizeAgent(e) \/ AuthorizeGrant(e) \/ ToolWait(e) \/ ToolInput(e)
  \/ ToolAttempt(e) \/ ToolRow(e) \/ ToolUpdate(e) \/ ToolRunning(e) \/ ToolFailed(e)
  \/ Complete(e) \/ Fail(e)

Registry(r) ==
  \/ \E to \in AgentStatus : StatusRead(r, to)
  \/ \E p \in Permissions : GrantRead(r, p)
  \/ \E g \in Grants : RevokeRead(r, g)
  \/ StatusWrite(r) \/ GrantWrite(r) \/ RevokeWrite(r)

Next ==
  \/ \E e \in Executions : StartExecution(e) \/ Run(e) \/ WriteFails(e) \/ AuditFails(e)
  \/ \E r \in Registrars : Registry(r)
  \/ Crash

Spec == Init /\ [][Next]_vars

(* Node.js resumes a run whose await has settled; providers and tools      *)
(* settle. Nobody has to start an execution or change the registry.        *)
FairSpec == Spec /\ \A e \in Executions : WF_vars(Run(e))

-----------------------------------------------------------------------------
Running == {"queue", "run", "program", "model", "model_update", "authorize_agent", "authorize_grant",
            "tool_wait", "tool_input", "tool", "tool_row", "tool_update", "tool_running", "tool_failed",
            "complete", "fail"}

Usage == [steps : Nat, tools : Nat, models : Nat, retries : Nat]

(* Every variable holds values of its type.                                *)
TypeOK ==
  /\ agent \in AgentStatus
  /\ grants \in [Grants -> [permission : Permissions \cup {"none"}, active : BOOLEAN]]
  /\ rows \in [Executions -> [status : ExecutionStatus \cup {"ABSENT"}, steps : Nat, tools : Nat,
                              models : Nat, retries : Nat]]
  /\ toolRows \in [Executions -> [SUCCESS : Nat, FAILED : Nat]]
  /\ usage \in [Executions -> Usage]
  /\ pc \in [Executions -> Running \cup {"new", "done", "thrown", "lost"}]
  /\ call \in [Executions -> [tool : Tools \cup {"none"}, permission : Nat, attempt : 0 .. (MaxRetries + 1)]]
  /\ registrar \in [Registrars -> [op : {"none", "status", "grant", "revoke"}, status : AgentStatus \cup {"none"},
                                   permission : Permissions \cup {"none"}, grant : Grants \cup {NoGrant}]]
  /\ attempts \in [Executions -> Nat]
  /\ seen \in [Executions -> [active : BOOLEAN, granted : SUBSET Permissions]]
  /\ crashes \in 0 .. MaxCrashes

(* A tool is executed only for an agent that, at some moment since the     *)
(* call began, was ACTIVE and, for each permission the tool requires, at   *)
(* some moment since the call began held a grant: a permission revoked     *)
(* between two tool calls takes effect on the next.                        *)
ToolsRunWithPermission ==
  \A e \in Executions :
    pc[e] = "tool" =>
      LET required == {Requires[call[e].tool][i] : i \in DOMAIN Requires[call[e].tool]}
      IN  required \subseteq seen[e].granted \ Gated /\ (required # {} => seen[e].active)

(* The row of a COMPLETED execution accounts for every call that was made: *)
(* what is not a retry is a tool call with its SUCCESS row or a model call.*)
CompletedRowsAccountForEveryCall ==
  \A e \in Executions :
    rows[e].status = "COMPLETED" =>
      /\ attempts[e] = rows[e].tools + rows[e].models + rows[e].retries
      /\ rows[e].tools = toolRows[e].SUCCESS /\ toolRows[e].FAILED = 0

(* run ends with the row in the status it returns, and not by throwing     *)
(* while the database takes its writes; a row that is settled has an ended *)
(* run.                                                                    *)
RunsEndInTheirRow ==
  \A e \in Executions :
    /\ pc[e] = "done" => rows[e].status \in {"COMPLETED", "FAILED"}
    /\ rows[e].status \in {"COMPLETED", "FAILED"} => pc[e] \in {"done", "thrown"}
    /\ pc[e] = "thrown" => crashes > 0

(* Whatever its program does, a run ends, unless the process restarts.     *)
RunsEnd == \A e \in Executions : (pc[e] = "queue") ~> (pc[e] \in {"done", "thrown"} \/ crashes > 0)

-----------------------------------------------------------------------------
(* Each execution is a worker of bounded effort. A restart is no end of it:*)
(* the row of a lost run stays as it is.                                   *)
Phase ==
  [e \in Executions |-> IF pc[e] = "new" THEN "new" ELSE IF pc[e] \in {"done", "thrown"} THEN "ended" ELSE "working"]

Worker == INSTANCE BoundedWorker WITH
  Workers <- Executions, Limit <- (MaxToolCalls + MaxModelCalls) * (MaxRetries + 1), phase <- Phase, used <- attempts

(* Every behaviour of the runtime is one of bounded workers: whatever its  *)
(* program tries, an execution calls models and tools no more often than   *)
(* its budget allows with every retry used, and never after its end.       *)
ImplementsBoundedWorker == Worker!Spec
=============================================================================
