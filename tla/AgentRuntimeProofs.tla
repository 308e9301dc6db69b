------------------------- MODULE AgentRuntimeProofs -------------------------
(***************************************************************************)
(* What holds of the agent runtime for every program, every budget, any    *)
(* number of executions, tools and permissions, and any interleaving with  *)
(* the registry and with restarts.                                         *)
(***************************************************************************)
EXTENDS AgentRuntime, TLAPS

-----------------------------------------------------------------------------
(* The inductive invariant says of an execution, at each point of its run, *)
(* in which status its row is, how the counters in memory, in the row and  *)
(* in tool_executions relate, how much of the budget is used, and what the *)
(* Guardian has been shown to be true since the tool call began.           *)

(* With no call of the outside world in progress.                          *)
Stored ==
  {"new", "queue", "run", "program", "authorize_agent", "authorize_grant", "tool_wait", "tool_input",
   "tool_running", "complete"}

StatusOK(e) ==
  /\ pc[e] = "new" => rows[e].status = "ABSENT" /\ usage[e] = NoUsage
  /\ pc[e] = "queue" => rows[e].status = "CREATED"
  /\ pc[e] = "run" => rows[e].status = "QUEUED"
  /\ pc[e] \in {"program", "model", "model_update", "authorize_agent", "authorize_grant", "tool_wait", "complete"} =>
       rows[e].status \in {"RUNNING", "PROCESSING_RESULT"}
  /\ pc[e] \in {"tool_input", "tool", "tool_row", "tool_update", "tool_running", "tool_failed"} =>
       rows[e].status = "WAITING_FOR_TOOL"
  /\ pc[e] = "fail" => rows[e].status \in {"RUNNING", "PROCESSING_RESULT", "WAITING_FOR_TOOL"}
  /\ pc[e] = "done" => rows[e].status \in {"COMPLETED", "FAILED"}
  /\ pc[e] = "lost" => rows[e].status \notin {"COMPLETED", "FAILED"}
  /\ pc[e] = "thrown" => crashes > 0

Accounted(e) ==
  /\ attempts[e] = rows[e].tools + rows[e].models + rows[e].retries
  /\ rows[e].tools = toolRows[e].SUCCESS /\ toolRows[e].FAILED = 0

Counted(e) ==
  LET counted == usage[e].tools + usage[e].models + usage[e].retries IN
  /\ pc[e] \in Stored \cup {"model", "tool", "tool_update"} => attempts[e] = counted
  /\ pc[e] \in {"model_update", "tool_row"} => attempts[e] = counted + 1
  /\ pc[e] \in Stored =>
       rows[e].tools = usage[e].tools /\ rows[e].models = usage[e].models /\ rows[e].retries = usage[e].retries
  /\ pc[e] \in {"model", "model_update"} => rows[e].tools = usage[e].tools
  /\ pc[e] \in {"tool", "tool_row", "tool_update"} => rows[e].models = usage[e].models
  /\ pc[e] \in Stored \cup {"model", "model_update", "tool", "tool_row", "tool_update"} =>
       toolRows[e].SUCCESS = usage[e].tools /\ toolRows[e].FAILED = 0
  /\ rows[e].status = "COMPLETED" => Accounted(e)

(* What calls cost at most that a retry follows until none is left.        *)
Effort(calls) == calls * (MaxRetries + 1)

Bounded(e) ==
  LET calls == usage[e].tools + usage[e].models IN
  /\ usage[e].tools <= MaxToolCalls /\ usage[e].models <= MaxModelCalls
  /\ pc[e] \in {"model", "model_update"} => usage[e].models < MaxModelCalls
  /\ pc[e] \in {"authorize_agent", "authorize_grant", "tool_wait", "tool_input", "tool", "tool_row"} =>
       usage[e].tools < MaxToolCalls
  /\ pc[e] \in {"authorize_agent", "authorize_grant", "tool_wait", "tool_input"} => call[e].attempt = 1
  /\ pc[e] \in Stored \cup {"tool_update"} => attempts[e] <= Effort(calls)
  /\ pc[e] \in {"model", "tool"} => call[e].attempt >= 1 /\ attempts[e] + 1 <= Effort(calls) + call[e].attempt
  /\ pc[e] \in {"model_update", "tool_row"} => attempts[e] <= Effort(calls) + MaxRetries + 1

(* The first n permissions that the tool in hand requires have been seen.  *)
SeenGranted(e, n) ==
  \A i \in 1 .. n : Requires[call[e].tool][i] \in seen[e].granted \ Gated

Authorizing(e) ==
  /\ call[e].tool \in Tools
  /\ call[e].permission \in 1 .. Len(Requires[call[e].tool])
  /\ SeenGranted(e, call[e].permission - 1)

Authorized(e) ==
  /\ call[e].tool \in Tools
  /\ SeenGranted(e, Len(Requires[call[e].tool]))
  /\ Len(Requires[call[e].tool]) > 0 => seen[e].active

SeenOK(e) ==
  /\ pc[e] \in Calling => Granted \subseteq seen[e].granted /\ (agent = "ACTIVE" => seen[e].active)
  /\ pc[e] = "authorize_agent" => Authorizing(e)
  /\ pc[e] = "authorize_grant" => Authorizing(e) /\ seen[e].active
  /\ pc[e] \in {"tool_wait", "tool_input", "tool"} => Authorized(e)

ExecutionOK(e) == StatusOK(e) /\ Counted(e) /\ Bounded(e) /\ SeenOK(e)

(* A status is written that was checked.                                   *)
RegistryOK == \A r \in Registrars : registrar[r].op = "status" => registrar[r].status \in AgentStatus

IInv == TypeOK /\ RegistryOK /\ \A e \in Executions : ExecutionOK(e)

-----------------------------------------------------------------------------
(* Types of the variables that a run writes.                               *)
RowType == [status : ExecutionStatus \cup {"ABSENT"}, steps : Nat, tools : Nat, models : Nat, retries : Nat]
ToolRowType == [SUCCESS : Nat, FAILED : Nat]
PCType == Running \cup {"new", "done", "thrown", "lost"}
CallType == [tool : Tools \cup {"none"}, permission : Nat, attempt : 0 .. (MaxRetries + 1)]
SeenType == [active : BOOLEAN, granted : SUBSET Permissions]

LEMMA Types ==
  ASSUME TypeOK
  PROVE  /\ rows \in [Executions -> RowType] /\ toolRows \in [Executions -> ToolRowType]
         /\ usage \in [Executions -> Usage] /\ pc \in [Executions -> PCType]
         /\ call \in [Executions -> CallType] /\ attempts \in [Executions -> Nat]
         /\ seen \in [Executions -> SeenType]
BY DEF TypeOK, RowType, ToolRowType, PCType, CallType, SeenType

LEMMA Values ==
  ASSUME TypeOK, NEW e \in Executions
  PROVE  /\ usage[e].steps \in Nat /\ usage[e].tools \in Nat /\ usage[e].models \in Nat
         /\ usage[e].retries \in Nat /\ attempts[e] \in Nat
         /\ rows[e] \in RowType /\ toolRows[e] \in ToolRowType /\ call[e] \in CallType
         /\ seen[e] \in SeenType
BY Types DEF Usage

(* A step of one run keeps the invariant when it keeps it of its own       *)
(* execution.                                                              *)
LEMMA OneRunOrFault ==
  ASSUME IInv, NEW e \in Executions, UNCHANGED registry, crashes' \in 0 .. MaxCrashes, crashes' >= crashes,
         rows' \in [Executions -> RowType], toolRows' \in [Executions -> ToolRowType],
         usage' \in [Executions -> Usage], pc' \in [Executions -> PCType],
         call' \in [Executions -> CallType], attempts' \in [Executions -> Nat],
         seen' \in [Executions -> SeenType],
         \A d \in Executions \ {e} :
           /\ rows'[d] = rows[d] /\ toolRows'[d] = toolRows[d] /\ usage'[d] = usage[d] /\ pc'[d] = pc[d]
           /\ call'[d] = call[d] /\ attempts'[d] = attempts[d] /\ seen'[d] = seen[d],
         ExecutionOK(e)'
  PROVE  IInv'
<1>1. TypeOK'
  BY DEF IInv, TypeOK, registry, RowType, ToolRowType, PCType, CallType, SeenType
<1>2. ASSUME NEW d \in Executions \ {e}
      PROVE  ExecutionOK(d)'
  <2>1. ExecutionOK(d)
    BY DEF IInv
  <2>2. StatusOK(d)'
    <3>1. crashes \in Nat /\ (crashes > 0 => crashes' > 0)
      BY BoundsAssumption DEF IInv, TypeOK
    <3> QED BY <2>1, <3>1 DEF ExecutionOK, StatusOK
  <2>3. Counted(d)' /\ Bounded(d)'
    BY <2>1 DEF ExecutionOK, Counted, Accounted, Bounded
  <2>4. SeenOK(d)'
    BY <2>1 DEF ExecutionOK, SeenOK, Granted, HasActivePermission, Authorizing, Authorized, SeenGranted, registry
  <2> QED BY <2>2, <2>3, <2>4 DEF ExecutionOK
<1>3. RegistryOK'
  BY DEF IInv, RegistryOK, registry
<1> QED BY <1>1, <1>2, <1>3 DEF IInv

LEMMA OneRun ==
  ASSUME IInv, NEW e \in Executions, UNCHANGED <<registry, crashes>>,
         rows' \in [Executions -> RowType], toolRows' \in [Executions -> ToolRowType],
         usage' \in [Executions -> Usage], pc' \in [Executions -> PCType],
         call' \in [Executions -> CallType], attempts' \in [Executions -> Nat],
         seen' \in [Executions -> SeenType],
         \A d \in Executions \ {e} :
           /\ rows'[d] = rows[d] /\ toolRows'[d] = toolRows[d] /\ usage'[d] = usage[d] /\ pc'[d] = pc[d]
           /\ call'[d] = call[d] /\ attempts'[d] = attempts[d] /\ seen'[d] = seen[d],
         ExecutionOK(e)'
  PROVE  IInv'
<1>1. crashes' \in 0 .. MaxCrashes /\ crashes' >= crashes
  BY BoundsAssumption DEF IInv, TypeOK
<1> QED BY <1>1, OneRunOrFault

(* The permissions granted are permissions.                                *)
LEMMA GrantedType ==
  Granted \in SUBSET Permissions
BY DEF Granted

(* The edges of the table that the runs below take or are refused.         *)
LEMMA Edges ==
  LET T == EXECUTION_STATUS_TRANSITIONS IN
  /\ "QUEUED" \in T["CREATED"] /\ "RUNNING" \in T["QUEUED"]
  /\ "PROCESSING_RESULT" \in T["RUNNING"] /\ "WAITING_FOR_TOOL" \in T["RUNNING"]
  /\ "COMPLETED" \in T["RUNNING"] /\ "FAILED" \in T["RUNNING"]
  /\ "COMPLETED" \in T["PROCESSING_RESULT"] /\ "FAILED" \in T["PROCESSING_RESULT"]
  /\ "RUNNING" \in T["WAITING_FOR_TOOL"] /\ "FAILED" \in T["WAITING_FOR_TOOL"]
BY DEF EXECUTION_STATUS_TRANSITIONS, ExecutionStatus

(* One more call costs an attempt and its retries.                         *)
LEMMA EffortGrows ==
  ASSUME NEW m \in Nat, NEW n \in Nat
  PROVE  /\ Effort(n) \in Nat
         /\ Effort(n + 1) = Effort(n) + MaxRetries + 1
         /\ m <= n => Effort(m) <= Effort(n)
<1>1. MaxRetries + 1 \in Nat
  BY BudgetAssumption
<1>2. \A k \in Nat : k * (MaxRetries + 1) \in Nat
  BY <1>1
<1>3. (n + 1) * (MaxRetries + 1) = n * (MaxRetries + 1) + (MaxRetries + 1)
  BY <1>1
<1>4. ASSUME m <= n PROVE m * (MaxRetries + 1) <= n * (MaxRetries + 1)
  BY <1>1, <1>4
<1>5. Effort(n) \in Nat
  BY <1>2 DEF Effort
<1>6. Effort(n + 1) = Effort(n) + MaxRetries + 1
  BY <1>2, <1>3, BudgetAssumption DEF Effort
<1>7. m <= n => Effort(m) <= Effort(n)
  BY <1>4 DEF Effort
<1> QED BY <1>5, <1>6, <1>7

-----------------------------------------------------------------------------
(* Every step of a run keeps the invariant.                                *)

(* What a move of one execution to another point of its run changes.       *)
LEMMA Moved ==
  ASSUME TypeOK, NEW e \in Executions, NEW to \in PCType, Goto(e, to)
  PROVE  /\ pc' \in [Executions -> PCType] /\ pc'[e] = to
         /\ \A d \in Executions \ {e} : pc'[d] = pc[d]
BY Types DEF Goto

(* A status is stored and nothing else.                                    *)
LEMMA TransitionKeeps ==
  ASSUME IInv, NEW e \in Executions, NEW from, NEW to \in ExecutionStatus, NEW next \in PCType,
         Transition(e, from, to, next),
         <<from, to, next>> \in
           {<<"queue", "QUEUED", "run">>, <<"run", "RUNNING", "program">>,
            <<"program", "PROCESSING_RESULT", "program">>, <<"tool_wait", "WAITING_FOR_TOOL", "tool_input">>,
            <<"tool_running", "RUNNING", "program">>}
  PROVE  IInv'
<1>1. TypeOK /\ ExecutionOK(e)
  BY DEF IInv
<1>2. /\ pc[e] = from /\ pc' \in [Executions -> PCType] /\ pc'[e] = next
      /\ \A d \in Executions \ {e} : pc'[d] = pc[d]
  BY <1>1, Moved DEF Transition
<1>3. /\ rows' \in [Executions -> RowType]
      /\ rows'[e] = [rows[e] EXCEPT !.status = to]
      /\ \A d \in Executions \ {e} : rows'[d] = rows[d]
  BY <1>1, Types DEF Transition, RowType
<1>4. /\ rows'[e].status = to /\ rows'[e].tools = rows[e].tools
      /\ rows'[e].models = rows[e].models /\ rows'[e].retries = rows[e].retries
  BY <1>1, <1>3, Types DEF RowType
<1>5. UNCHANGED <<registry, toolRows, usage, call, attempts, seen, crashes>>
  BY DEF Transition
<1>6. StatusOK(e)'
  BY <1>1, <1>2, <1>4, <1>5 DEF ExecutionOK, StatusOK
<1>7. Counted(e)' /\ Bounded(e)'
  BY <1>1, <1>2, <1>4, <1>5 DEF ExecutionOK, Counted, Accounted, Bounded, Stored
<1>8. SeenOK(e)'
  BY <1>1, <1>2, <1>5
  DEF ExecutionOK, SeenOK, Granted, HasActivePermission, Authorizing, Authorized, SeenGranted, registry, Calling
<1> QED BY <1>2, <1>3, <1>5, <1>6, <1>7, <1>8, Types, OneRun DEF IInv, ExecutionOK

(* A run goes on without writing anything.                                 *)
LEMMA MoveKeeps ==
  ASSUME IInv, NEW e \in Executions, NEW next \in PCType, Goto(e, next),
         <<pc[e], next>> \in
           {<<"program", "complete">>, <<"program", "fail">>, <<"authorize_agent", "fail">>,
            <<"authorize_grant", "fail">>, <<"tool_wait", "fail">>, <<"tool_input", "fail">>,
            <<"complete", "fail">>, <<"tool_input", "tool">>},
         UNCHANGED <<registry, rows, toolRows, usage, call, attempts, seen, crashes>>
  PROVE  IInv'
<1>1. TypeOK /\ ExecutionOK(e)
  BY DEF IInv
<1>2. /\ pc' \in [Executions -> PCType] /\ pc'[e] = next
      /\ \A d \in Executions \ {e} : pc'[d] = pc[d]
  BY <1>1, Moved
<1>3. StatusOK(e)'
  BY <1>1, <1>2 DEF ExecutionOK, StatusOK
<1>4. Counted(e)' /\ Bounded(e)'
  <2>1. \A n \in Nat : Effort(n) \in Nat
    BY EffortGrows
  <2>2. usage[e] \in Usage /\ attempts[e] \in Nat
    BY <1>1, Types
  <2> QED BY <1>1, <1>2, <2>1, <2>2 DEF ExecutionOK, Counted, Accounted, Bounded, Stored, Usage
<1>5. SeenOK(e)'
  BY <1>1, <1>2
  DEF ExecutionOK, SeenOK, Granted, HasActivePermission, Authorizing, Authorized, SeenGranted, registry, Calling
<1> QED BY <1>1, <1>2, <1>3, <1>4, <1>5, Types, OneRun DEF ExecutionOK

LEMMA StartExecutionKeeps ==
  ASSUME IInv, NEW e \in Executions, StartExecution(e)
  PROVE  IInv'
<1>1. TypeOK /\ ExecutionOK(e)
  BY DEF IInv
<1>2. /\ pc[e] = "new" /\ pc' \in [Executions -> PCType] /\ pc'[e] = "queue"
      /\ \A d \in Executions \ {e} : pc'[d] = pc[d]
  BY <1>1, Moved DEF StartExecution, PCType, Running
<1>3. /\ rows' \in [Executions -> RowType]
      /\ rows'[e].status = "CREATED" /\ rows'[e].tools = 0 /\ rows'[e].models = 0 /\ rows'[e].retries = 0
      /\ \A d \in Executions \ {e} : rows'[d] = rows[d]
  BY <1>1, Types DEF StartExecution, RowType, AbsentRow, ExecutionStatus
<1>4. UNCHANGED <<registry, toolRows, usage, call, attempts, seen, crashes>>
  BY DEF StartExecution
<1>5. usage[e] = NoUsage
  BY <1>1, <1>2 DEF ExecutionOK, StatusOK
<1>6. StatusOK(e)' /\ SeenOK(e)'
  BY <1>2, <1>3, <1>4 DEF StatusOK, SeenOK, Calling
<1>7. Counted(e)' /\ Bounded(e)'
  BY <1>1, <1>2, <1>3, <1>4, <1>5 DEF ExecutionOK, Counted, Bounded, Stored, NoUsage
<1> QED BY <1>1, <1>2, <1>3, <1>4, <1>6, <1>7, Types, OneRun DEF ExecutionOK

LEMMA ProgramStepKeeps ==
  ASSUME IInv, NEW e \in Executions, ProgramStep(e)
  PROVE  IInv'
<1>1. TypeOK /\ ExecutionOK(e)
  BY DEF IInv
<1>2. /\ pc[e] = "program" /\ pc' \in [Executions -> PCType] /\ pc'[e] \in {"program", "fail"}
      /\ \A d \in Executions \ {e} : pc'[d] = pc[d]
  BY <1>1, Moved DEF ProgramStep, PCType, Running
<1>3. /\ usage' \in [Executions -> Usage]
      /\ usage'[e].tools = usage[e].tools /\ usage'[e].models = usage[e].models
      /\ usage'[e].retries = usage[e].retries
      /\ \A d \in Executions \ {e} : usage'[d] = usage[d]
  BY <1>1, Types DEF ProgramStep, Usage
<1>4. UNCHANGED <<registry, rows, toolRows, call, attempts, seen, crashes>>
  BY DEF ProgramStep
<1>5. StatusOK(e)' /\ SeenOK(e)'
  BY <1>1, <1>2, <1>4 DEF ExecutionOK, StatusOK, SeenOK, Calling
<1>6. Counted(e)' /\ Bounded(e)'
  BY <1>1, <1>2, <1>3, <1>4 DEF ExecutionOK, StatusOK, Counted, Accounted, Bounded, Stored
<1> QED BY <1>1, <1>2, <1>3, <1>4, <1>5, <1>6, Types, OneRun DEF ExecutionOK

(* An attempt is counted once, as the call or as a retry; the last one is  *)
(* not retried.                                                            *)
LEMMA AttemptKeeps ==
  ASSUME IInv, NEW e \in Executions, NEW from, NEW ok, NEW failed, Attempt(e, from, ok, failed),
         <<from, ok, failed>> \in {<<"model", "model_update", "fail">>, <<"tool", "tool_row", "tool_failed">>}
  PROVE  IInv'
<1>1. TypeOK /\ ExecutionOK(e)
  BY DEF IInv
<1> DEFINE calls == usage[e].tools + usage[e].models
<1>2. /\ attempts' \in [Executions -> Nat] /\ attempts'[e] = attempts[e] + 1
      /\ \A d \in Executions \ {e} : attempts'[d] = attempts[d]
  BY <1>1, Types DEF Attempt
<1>3. /\ pc[e] = from
      /\ UNCHANGED <<registry, rows, toolRows, seen, crashes>>
  BY DEF Attempt
<1>4. /\ attempts[e] \in Nat /\ usage[e] \in Usage /\ calls \in Nat /\ Effort(calls) \in Nat
      /\ call[e] \in CallType /\ rows[e] \in RowType
  <2>1. usage[e] \in Usage /\ calls \in Nat
    BY <1>1, Types, Values
  <2> QED BY <1>1, <2>1, Values, EffortGrows
<1>5. /\ attempts[e] = usage[e].tools + usage[e].models + usage[e].retries
      /\ rows[e].status \in {"RUNNING", "PROCESSING_RESULT", "WAITING_FOR_TOOL"}
      /\ attempts[e] + 1 <= Effort(calls) + call[e].attempt
  BY <1>1, <1>3 DEF ExecutionOK, Counted, StatusOK, Bounded
<1>6. CASE (Goto(e, ok) \/ Goto(e, failed)) /\ UNCHANGED <<usage, call>>
  <2>1. /\ pc' \in [Executions -> PCType] /\ pc'[e] \in {ok, failed}
        /\ \A d \in Executions \ {e} : pc'[d] = pc[d]
    BY <1>1, <1>6, Moved DEF PCType, Running
  <2>2. StatusOK(e)' /\ SeenOK(e)'
    BY <1>1, <1>3, <1>6, <2>1 DEF ExecutionOK, StatusOK, SeenOK, Calling
  <2>3. Counted(e)'
    BY <1>1, <1>2, <1>3, <1>5, <1>6, <2>1 DEF ExecutionOK, Counted, Stored
  <2>4. Bounded(e)'
    <3>1. call[e].attempt <= MaxRetries + 1
      BY <1>4, BudgetAssumption DEF CallType
    <3>2. attempts'[e] <= Effort(calls) + MaxRetries + 1
      BY <1>2, <1>4, <1>5, <3>1, BudgetAssumption DEF CallType
    <3> QED BY <1>1, <1>3, <1>6, <2>1, <3>2 DEF ExecutionOK, Bounded, Stored
  <2> QED BY <1>1, <1>2, <1>3, <1>6, <2>1, <2>2, <2>3, <2>4, Types, OneRun DEF ExecutionOK
<1>7. CASE /\ call[e].attempt < MaxRetries + 1
           /\ call' = [call EXCEPT ![e] = [@ EXCEPT !.attempt = call[e].attempt + 1]]
           /\ usage' = [usage EXCEPT ![e] = [@ EXCEPT !.retries = usage[e].retries + 1]]
           /\ UNCHANGED pc
  <2>1. /\ call' \in [Executions -> CallType]
        /\ call'[e].tool = call[e].tool /\ call'[e].attempt = call[e].attempt + 1
        /\ \A d \in Executions \ {e} : call'[d] = call[d]
    <3>1. call' = [call EXCEPT ![e] = [call[e] EXCEPT !.attempt = call[e].attempt + 1]]
      BY <1>7
    <3>2. call[e].attempt + 1 \in 0 .. (MaxRetries + 1)
      BY <1>4, <1>7, BudgetAssumption DEF CallType
    <3>3. call[e] \in CallType /\ call \in [Executions -> CallType]
      BY <1>1, <1>4, Types
    <3> QED BY <3>1, <3>2, <3>3 DEF CallType
  <2>2. /\ usage' \in [Executions -> Usage]
        /\ usage'[e].tools = usage[e].tools /\ usage'[e].models = usage[e].models
        /\ usage'[e].retries = usage[e].retries + 1
        /\ \A d \in Executions \ {e} : usage'[d] = usage[d]
    BY <1>1, <1>7, Types DEF Usage
  <2>3. StatusOK(e)'
    BY <1>1, <1>3, <1>7 DEF ExecutionOK, StatusOK
  <2>4. SeenOK(e)'
    BY <1>1, <1>3, <1>7, <2>1
    DEF ExecutionOK, SeenOK, Granted, HasActivePermission, Authorized, SeenGranted, registry, Calling
  <2>5. Counted(e)'
    BY <1>1, <1>2, <1>3, <1>4, <1>5, <1>7, <2>2 DEF ExecutionOK, Counted, Stored, Usage
  <2>6. Bounded(e)'
    BY <1>1, <1>2, <1>3, <1>4, <1>5, <1>7, <2>1, <2>2 DEF ExecutionOK, Bounded, Stored, CallType
  <2> QED BY <1>1, <1>2, <1>3, <1>7, <2>1, <2>2, <2>3, <2>4, <2>5, <2>6, Types, OneRun DEF ExecutionOK
<1> QED BY <1>6, <1>7 DEF Attempt

(* A model call is begun within the budget.                                *)
LEMMA CallModelKeeps ==
  ASSUME IInv, NEW e \in Executions, CallModel(e), usage[e].models < MaxModelCalls
  PROVE  IInv'
<1>1. TypeOK /\ ExecutionOK(e)
  BY DEF IInv
<1>2. usage[e] \in Usage /\ attempts[e] \in Nat
  BY <1>1, Types
<1>3. ~(usage[e].models >= MaxModelCalls)
  BY <1>2, BudgetAssumption DEF Usage
<1>4. /\ pc[e] = "program" /\ pc' \in [Executions -> PCType] /\ pc'[e] = "model"
      /\ \A d \in Executions \ {e} : pc'[d] = pc[d]
  BY <1>1, <1>3, Moved DEF CallModel, PCType, Running
<1>5. /\ call' \in [Executions -> CallType] /\ call'[e].attempt = 1
      /\ \A d \in Executions \ {e} : call'[d] = call[d]
  BY <1>1, <1>3, Types, BudgetAssumption DEF CallModel, CallType, NoCall
<1>6. UNCHANGED <<registry, rows, toolRows, usage, attempts, seen, crashes>>
  BY DEF CallModel
<1>7. StatusOK(e)' /\ SeenOK(e)'
  BY <1>1, <1>4, <1>6 DEF ExecutionOK, StatusOK, SeenOK, Calling
<1>8. Counted(e)'
  BY <1>1, <1>4, <1>6 DEF ExecutionOK, Counted, Accounted, Stored
<1>9. Bounded(e)'
  <2>1. usage[e].tools + usage[e].models \in Nat
    BY <1>1, Values
  <2>2. Effort(usage[e].tools + usage[e].models) \in Nat
    BY <2>1, EffortGrows
  <2>3. usage[e].models < MaxModelCalls
    OBVIOUS
  <2> QED BY <1>1, <1>2, <1>4, <1>5, <1>6, <2>2, <2>3 DEF ExecutionOK, Bounded, Stored
<1> QED BY <1>1, <1>4, <1>5, <1>6, <1>7, <1>8, <1>9, Types, OneRun DEF ExecutionOK

(* A call that has been made is counted and paid for.                      *)
LEMMA ModelUpdateKeeps ==
  ASSUME IInv, NEW e \in Executions, ModelUpdate(e)
  PROVE  IInv'
<1>1. TypeOK /\ ExecutionOK(e)
  BY DEF IInv
<1>2. /\ pc[e] = "model_update" /\ pc' \in [Executions -> PCType] /\ pc'[e] = "program"
      /\ \A d \in Executions \ {e} : pc'[d] = pc[d]
  BY <1>1, Moved DEF ModelUpdate, PCType, Running
<1>3. /\ usage' \in [Executions -> Usage]
      /\ usage'[e].tools = usage[e].tools /\ usage'[e].models = usage[e].models + 1
      /\ usage'[e].retries = usage[e].retries
      /\ \A d \in Executions \ {e} : usage'[d] = usage[d]
  BY <1>1, Types DEF ModelUpdate, Usage
<1>4. /\ rows' \in [Executions -> RowType]
      /\ rows'[e].status = rows[e].status /\ rows'[e].tools = rows[e].tools
      /\ rows'[e].models = usage[e].models + 1 /\ rows'[e].retries = usage[e].retries
      /\ \A d \in Executions \ {e} : rows'[d] = rows[d]
  <2>1. rows' = [rows EXCEPT ![e] = [rows[e] EXCEPT !.models = usage[e].models + 1, !.retries = usage[e].retries]]
    BY DEF ModelUpdate
  <2>2. usage[e].models + 1 \in Nat /\ usage[e].retries \in Nat /\ rows[e] \in RowType /\ rows \in [Executions -> RowType]
    BY <1>1, Types, Values
  <2> QED BY <2>1, <2>2 DEF RowType
<1>5. /\ call' \in [Executions -> CallType]
      /\ \A d \in Executions \ {e} : call'[d] = call[d]
  BY <1>1, Types, BudgetAssumption DEF ModelUpdate, CallType, NoCall
<1>6. UNCHANGED <<registry, toolRows, attempts, seen, crashes>>
  BY DEF ModelUpdate
<1>7. StatusOK(e)' /\ SeenOK(e)'
  BY <1>1, <1>2, <1>4, <1>6 DEF ExecutionOK, StatusOK, SeenOK, Calling
<1>8. Counted(e)'
  BY <1>1, <1>2, <1>3, <1>4, <1>6, Values DEF ExecutionOK, StatusOK, Counted, Stored
<1>9. Bounded(e)'
  <2> DEFINE calls == usage[e].tools + usage[e].models
  <2>1. /\ usage[e].tools \in Nat /\ usage[e].models \in Nat
        /\ calls \in Nat /\ usage'[e].tools + usage'[e].models = calls + 1
    BY <1>1, <1>3, Values
  <2>2. attempts[e] <= Effort(calls + 1)
    BY <1>1, <1>2, <2>1, EffortGrows DEF ExecutionOK, Bounded
  <2>3. usage'[e].models <= MaxModelCalls
    BY <1>1, <1>2, <1>3, <2>1, BudgetAssumption DEF ExecutionOK, Bounded
  <2> QED BY <1>1, <1>2, <1>3, <1>6, <2>1, <2>2, <2>3 DEF ExecutionOK, Bounded, Stored
<1> QED BY <1>1, <1>2, <1>3, <1>4, <1>5, <1>6, <1>7, <1>8, <1>9, Types, OneRun DEF ExecutionOK

(* A tool call is begun within the budget: nothing has been seen yet but   *)
(* what holds now.                                                         *)
LEMMA CallToolKeeps ==
  ASSUME IInv, NEW e \in Executions, NEW t \in Tools, CallTool(e, t), usage[e].tools < MaxToolCalls
  PROVE  IInv'
<1>1. TypeOK /\ ExecutionOK(e) /\ Granted \in SUBSET Permissions
  BY GrantedType DEF IInv
<1>2. ~(usage[e].tools >= MaxToolCalls)
  BY <1>1, Values, BudgetAssumption
<1> DEFINE to == IF Requires[t] = << >> THEN "tool_wait" ELSE "authorize_agent"
<1>3. /\ pc[e] = "program" /\ pc' \in [Executions -> PCType] /\ pc'[e] = to
      /\ \A d \in Executions \ {e} : pc'[d] = pc[d]
  BY <1>1, <1>2, Moved DEF CallTool, PCType, Running
<1>4. /\ call' \in [Executions -> CallType]
      /\ call'[e].tool = t /\ call'[e].permission = 1 /\ call'[e].attempt = 1
      /\ \A d \in Executions \ {e} : call'[d] = call[d]
  <2>1. call' = [call EXCEPT ![e] = [tool |-> t, permission |-> 1, attempt |-> 1]]
    BY <1>2 DEF CallTool
  <2>2. [tool |-> t, permission |-> 1, attempt |-> 1] \in CallType
    BY BudgetAssumption DEF CallType
  <2> QED BY <1>1, <2>1, <2>2, Types
<1>5. /\ seen' \in [Executions -> SeenType]
      /\ agent = "ACTIVE" => seen'[e].active
      /\ seen'[e].granted = Granted
      /\ \A d \in Executions \ {e} : seen'[d] = seen[d]
  <2> DEFINE now == [active |-> agent = "ACTIVE", granted |-> Granted]
  <2>1. seen' = [seen EXCEPT ![e] = now]
    BY <1>2 DEF CallTool
  <2>2. now \in SeenType /\ (agent = "ACTIVE" => now.active) /\ now.granted = Granted
    BY <1>1 DEF SeenType
  <2> HIDE DEF now
  <2> QED BY <1>1, <2>1, <2>2, Types
<1>6. UNCHANGED <<registry, rows, toolRows, usage, attempts, crashes>>
  BY DEF CallTool
<1>7. StatusOK(e)'
  BY <1>1, <1>3, <1>6 DEF ExecutionOK, StatusOK
<1>8. Counted(e)' /\ Bounded(e)'
  BY <1>1, <1>3, <1>4, <1>6 DEF ExecutionOK, Counted, Accounted, Bounded, Stored
<1>9. SeenOK(e)'
  <2>1. Granted' = Granted /\ agent' = agent
    BY <1>6 DEF Granted, HasActivePermission, registry
  <2>2. Requires[t] \in Seq(Permissions)
    BY ToolsAssumption
  <2>3. CASE Requires[t] = << >>
    BY <1>3, <1>4, <1>5, <2>1, <2>3 DEF SeenOK, Calling, Authorized, SeenGranted
  <2>4. CASE Requires[t] # << >>
    <3>1. Len(Requires[t]) \in Nat \ {0}
      BY <2>2, <2>4
    <3> QED BY <1>3, <1>4, <1>5, <2>1, <2>4, <3>1 DEF SeenOK, Calling, Authorizing, SeenGranted
  <2> QED BY <2>3, <2>4
<1> QED BY <1>1, <1>3, <1>4, <1>5, <1>6, <1>7, <1>8, <1>9, Types, OneRun DEF ExecutionOK

(* The agent is ACTIVE when its grant is looked for.                       *)
LEMMA AuthorizeAgentKeeps ==
  ASSUME IInv, NEW e \in Executions, AuthorizeAgent(e), agent = "ACTIVE"
  PROVE  IInv'
<1>1. TypeOK /\ ExecutionOK(e)
  BY DEF IInv
<1>2. /\ pc[e] = "authorize_agent" /\ pc' \in [Executions -> PCType] /\ pc'[e] = "authorize_grant"
      /\ \A d \in Executions \ {e} : pc'[d] = pc[d]
  BY <1>1, Moved DEF AuthorizeAgent, PCType, Running
<1>3. UNCHANGED <<registry, rows, toolRows, usage, call, attempts, seen, crashes>>
  BY DEF AuthorizeAgent
<1>4. StatusOK(e)'
  BY <1>1, <1>2, <1>3 DEF ExecutionOK, StatusOK
<1>5. Counted(e)' /\ Bounded(e)'
  BY <1>1, <1>2, <1>3 DEF ExecutionOK, Counted, Accounted, Bounded, Stored
<1>6. SeenOK(e)'
  BY <1>1, <1>2, <1>3
  DEF ExecutionOK, SeenOK, Granted, HasActivePermission, Authorizing, SeenGranted, registry, Calling
<1> QED BY <1>1, <1>2, <1>3, <1>4, <1>5, <1>6, Types, OneRun DEF ExecutionOK

(* One permission more has been seen; after the last one, all of them.     *)
LEMMA AuthorizeGrantKeeps ==
  ASSUME IInv, NEW e \in Executions, AuthorizeGrant(e), HasActivePermission(Checked(e)), Checked(e) \notin Gated
  PROVE  IInv'
<1>1. TypeOK /\ ExecutionOK(e)
  BY DEF IInv
<1> DEFINE n == call[e].permission
           last == Len(Requires[call[e].tool])
<1>2. pc[e] = "authorize_grant" /\ UNCHANGED <<registry, rows, toolRows, usage, attempts, seen, crashes>>
  BY DEF AuthorizeGrant
<1>3. Authorizing(e) /\ seen[e].active /\ Granted \subseteq seen[e].granted
  BY <1>1, <1>2 DEF ExecutionOK, SeenOK, Calling
<1>4. /\ call[e].tool \in Tools /\ Requires[call[e].tool] \in Seq(Permissions)
      /\ n \in 1 .. last /\ last \in Nat /\ Checked(e) \in Permissions
  BY <1>3, ToolsAssumption DEF Authorizing, Checked
<1>5. SeenGranted(e, n)
  <2>1. Requires[call[e].tool][n] \in seen[e].granted \ Gated
    BY <1>3, <1>4 DEF Granted, Checked
  <2> QED BY <1>3, <1>4, <2>1 DEF Authorizing, SeenGranted
<1>6. CASE n = last
  <2>1. /\ pc' \in [Executions -> PCType] /\ pc'[e] = "tool_wait" /\ call' = call
        /\ \A d \in Executions \ {e} : pc'[d] = pc[d]
    BY <1>1, <1>6, Moved DEF AuthorizeGrant, PCType, Running
  <2>2. StatusOK(e)'
    BY <1>1, <1>2, <2>1 DEF ExecutionOK, StatusOK
  <2>3. Counted(e)' /\ Bounded(e)'
    BY <1>1, <1>2, <2>1 DEF ExecutionOK, Counted, Accounted, Bounded, Stored
  <2>4. SeenOK(e)'
    BY <1>1, <1>2, <1>3, <1>4, <1>5, <1>6, <2>1
    DEF ExecutionOK, SeenOK, Granted, HasActivePermission, Authorized, SeenGranted, registry, Calling
  <2> QED BY <1>1, <1>2, <2>1, <2>2, <2>3, <2>4, Types, OneRun DEF ExecutionOK
<1>7. CASE n # last
  <2>1. /\ pc' \in [Executions -> PCType] /\ pc'[e] = "authorize_agent"
        /\ \A d \in Executions \ {e} : pc'[d] = pc[d]
    BY <1>1, <1>7, Moved DEF AuthorizeGrant, PCType, Running
  <2>2. /\ call' \in [Executions -> CallType]
        /\ call'[e].tool = call[e].tool /\ call'[e].permission = n + 1 /\ call'[e].attempt = call[e].attempt
        /\ \A d \in Executions \ {e} : call'[d] = call[d]
    <3>1. call' = [call EXCEPT ![e] = [call[e] EXCEPT !.permission = n + 1]]
      BY <1>7 DEF AuthorizeGrant
    <3>2. call[e] \in CallType /\ n + 1 \in Nat /\ call \in [Executions -> CallType]
      BY <1>1, <1>4, Types, Values
    <3> QED BY <3>1, <3>2 DEF CallType
  <2>3. StatusOK(e)'
    BY <1>1, <1>2, <2>1 DEF ExecutionOK, StatusOK
  <2>4. Counted(e)' /\ Bounded(e)'
    BY <1>1, <1>2, <2>1, <2>2 DEF ExecutionOK, Counted, Accounted, Bounded, Stored
  <2>5. Authorizing(e)'
    <3>1. n + 1 \in 1 .. last /\ (n + 1) - 1 = n
      BY <1>4, <1>7
    <3> QED BY <1>2, <1>4, <1>5, <2>2, <3>1 DEF Authorizing, SeenGranted
  <2>6. SeenOK(e)'
    BY <1>1, <1>2, <1>3, <2>1, <2>5 DEF SeenOK, Granted, HasActivePermission, registry
  <2> QED BY <1>1, <1>2, <2>1, <2>2, <2>3, <2>4, <2>6, Types, OneRun DEF ExecutionOK
<1> QED BY <1>6, <1>7

(* A tool call that succeeded has its row and is counted and paid for.     *)
LEMMA ToolRowKeeps ==
  ASSUME IInv, NEW e \in Executions, ToolRow(e)
  PROVE  IInv'
<1>1. TypeOK /\ ExecutionOK(e)
  BY DEF IInv
<1>2. /\ pc[e] = "tool_row" /\ pc' \in [Executions -> PCType] /\ pc'[e] = "tool_update"
      /\ \A d \in Executions \ {e} : pc'[d] = pc[d]
  BY <1>1, Moved DEF ToolRow, PCType, Running
<1>3. /\ usage' \in [Executions -> Usage]
      /\ usage'[e].tools = usage[e].tools + 1 /\ usage'[e].models = usage[e].models
      /\ usage'[e].retries = usage[e].retries
      /\ \A d \in Executions \ {e} : usage'[d] = usage[d]
  BY <1>1, Types DEF ToolRow, Usage
<1>4. /\ toolRows' \in [Executions -> ToolRowType]
      /\ toolRows'[e].SUCCESS = toolRows[e].SUCCESS + 1 /\ toolRows'[e].FAILED = toolRows[e].FAILED
      /\ \A d \in Executions \ {e} : toolRows'[d] = toolRows[d]
  BY <1>1, Types DEF ToolRow, ToolRowType
<1>5. UNCHANGED <<registry, rows, call, attempts, seen, crashes>>
  BY DEF ToolRow
<1>6. StatusOK(e)' /\ SeenOK(e)'
  BY <1>1, <1>2, <1>5 DEF ExecutionOK, StatusOK, SeenOK, Calling
<1>7. Counted(e)'
  BY <1>1, <1>2, <1>3, <1>4, <1>5, Values DEF ExecutionOK, StatusOK, Counted, Stored
<1>8. Bounded(e)'
  <2> DEFINE calls == usage[e].tools + usage[e].models
  <2>1. /\ usage[e].tools \in Nat /\ usage[e].models \in Nat
        /\ calls \in Nat /\ usage'[e].tools + usage'[e].models = calls + 1
    BY <1>1, <1>3, Values
  <2>2. attempts[e] <= Effort(calls + 1)
    BY <1>1, <1>2, <2>1, EffortGrows DEF ExecutionOK, Bounded
  <2>3. usage'[e].tools <= MaxToolCalls
    BY <1>1, <1>2, <1>3, <2>1, BudgetAssumption DEF ExecutionOK, Bounded
  <2> QED BY <1>1, <1>2, <1>3, <1>5, <2>1, <2>2, <2>3 DEF ExecutionOK, Bounded, Stored
<1> QED BY <1>1, <1>2, <1>3, <1>4, <1>5, <1>6, <1>7, <1>8, Types, OneRun DEF ExecutionOK

LEMMA ToolUpdateKeeps ==
  ASSUME IInv, NEW e \in Executions, ToolUpdate(e)
  PROVE  IInv'
<1>1. TypeOK /\ ExecutionOK(e)
  BY DEF IInv
<1>2. /\ pc[e] = "tool_update" /\ pc' \in [Executions -> PCType] /\ pc'[e] = "tool_running"
      /\ \A d \in Executions \ {e} : pc'[d] = pc[d]
  BY <1>1, Moved DEF ToolUpdate, PCType, Running
<1>3. /\ rows' \in [Executions -> RowType]
      /\ rows'[e].status = rows[e].status /\ rows'[e].models = rows[e].models
      /\ rows'[e].tools = usage[e].tools /\ rows'[e].retries = usage[e].retries
      /\ \A d \in Executions \ {e} : rows'[d] = rows[d]
  <2>1. rows' = [rows EXCEPT ![e] = [rows[e] EXCEPT !.tools = usage[e].tools, !.retries = usage[e].retries]]
    BY DEF ToolUpdate
  <2>2. usage[e].tools \in Nat /\ usage[e].retries \in Nat /\ rows[e] \in RowType /\ rows \in [Executions -> RowType]
    BY <1>1, Types, Values
  <2> QED BY <2>1, <2>2 DEF RowType
<1>4. /\ call' \in [Executions -> CallType]
      /\ \A d \in Executions \ {e} : call'[d] = call[d]
  BY <1>1, Types, BudgetAssumption DEF ToolUpdate, CallType, NoCall
<1>5. UNCHANGED <<registry, toolRows, usage, attempts, seen, crashes>>
  BY DEF ToolUpdate
<1>6. StatusOK(e)' /\ SeenOK(e)'
  BY <1>1, <1>2, <1>3, <1>5 DEF ExecutionOK, StatusOK, SeenOK, Calling
<1>7. Counted(e)' /\ Bounded(e)'
  BY <1>1, <1>2, <1>3, <1>5 DEF ExecutionOK, StatusOK, Counted, Bounded, Stored
<1> QED BY <1>1, <1>2, <1>3, <1>4, <1>5, <1>6, <1>7, Types, OneRun DEF ExecutionOK

LEMMA ToolFailedKeeps ==
  ASSUME IInv, NEW e \in Executions, ToolFailed(e)
  PROVE  IInv'
<1>1. TypeOK /\ ExecutionOK(e)
  BY DEF IInv
<1>2. /\ pc[e] = "tool_failed" /\ pc' \in [Executions -> PCType] /\ pc'[e] = "fail"
      /\ \A d \in Executions \ {e} : pc'[d] = pc[d]
  BY <1>1, Moved DEF ToolFailed, PCType, Running
<1>3. /\ toolRows' \in [Executions -> ToolRowType]
      /\ \A d \in Executions \ {e} : toolRows'[d] = toolRows[d]
  BY <1>1, Types DEF ToolFailed, ToolRowType
<1>4. UNCHANGED <<registry, rows, usage, call, attempts, seen, crashes>>
  BY DEF ToolFailed
<1>5. StatusOK(e)' /\ SeenOK(e)'
  BY <1>1, <1>2, <1>4 DEF ExecutionOK, StatusOK, SeenOK, Calling
<1>6. Counted(e)' /\ Bounded(e)'
  BY <1>1, <1>2, <1>4 DEF ExecutionOK, StatusOK, Counted, Bounded, Stored
<1> QED BY <1>1, <1>2, <1>3, <1>4, <1>5, <1>6, Types, OneRun DEF ExecutionOK

(* A run that completes has stored its counters.                           *)
LEMMA SettleKeeps ==
  ASSUME IInv, NEW e \in Executions, NEW from, NEW to, NEW next \in {"done", "thrown"}, Settle(e, from, to, next),
         <<from, to>> \in {<<"complete", "COMPLETED">>, <<"fail", "FAILED">>},
         crashes' \in 0 .. MaxCrashes, crashes' >= crashes, next = "thrown" => crashes' > 0
  PROVE  IInv'
<1>1. TypeOK /\ ExecutionOK(e)
  BY DEF IInv
<1>2. /\ pc[e] = from /\ pc' \in [Executions -> PCType] /\ pc'[e] = next
      /\ \A d \in Executions \ {e} : pc'[d] = pc[d]
  BY <1>1, Moved DEF Settle, PCType, Running
<1>3. /\ rows' \in [Executions -> RowType]
      /\ rows'[e].status = to /\ rows'[e].models = rows[e].models
      /\ rows'[e].tools = rows[e].tools /\ rows'[e].retries = rows[e].retries
      /\ \A d \in Executions \ {e} : rows'[d] = rows[d]
  <2>1. rows' = [rows EXCEPT ![e] = [rows[e] EXCEPT !.status = to, !.steps = usage[e].steps]]
    BY DEF Settle
  <2>2. usage[e].steps \in Nat /\ rows[e] \in RowType /\ rows \in [Executions -> RowType] /\ to \in ExecutionStatus
    BY <1>1, Types, Values DEF ExecutionStatus
  <2> QED BY <2>1, <2>2 DEF RowType
<1>4. /\ call' \in [Executions -> CallType]
      /\ \A d \in Executions \ {e} : call'[d] = call[d]
  BY <1>1, Types, BudgetAssumption DEF Settle, CallType, NoCall
<1>5. UNCHANGED <<registry, toolRows, usage, attempts, seen>>
  BY DEF Settle
<1>6. StatusOK(e)' /\ SeenOK(e)'
  BY <1>2, <1>3 DEF StatusOK, SeenOK, Calling
<1>7. Counted(e)'
  BY <1>1, <1>2, <1>3, <1>5 DEF ExecutionOK, Counted, Accounted, Stored
<1>8. Bounded(e)'
  BY <1>1, <1>2, <1>5 DEF ExecutionOK, Bounded, Stored
<1> QED BY <1>1, <1>2, <1>3, <1>4, <1>5, <1>6, <1>7, <1>8, Types, OneRunOrFault DEF ExecutionOK

LEMMA FinishKeeps ==
  ASSUME IInv, NEW e \in Executions, NEW from, NEW to, Finish(e, from, to),
         <<from, to>> \in {<<"complete", "COMPLETED">>, <<"fail", "FAILED">>}
  PROVE  IInv'
<1>1. crashes' \in 0 .. MaxCrashes /\ crashes' >= crashes
  BY BoundsAssumption DEF IInv, TypeOK, Finish
<1> QED BY <1>1, SettleKeeps DEF Finish

(* A refused write is one of the faults that are counted.                  *)
LEMMA FaultCounted ==
  ASSUME IInv, crashes < MaxCrashes, crashes' = crashes + 1
  PROVE  crashes' \in 0 .. MaxCrashes /\ crashes' >= crashes /\ crashes' > 0
BY BoundsAssumption DEF IInv, TypeOK

LEMMA AuditFailsKeeps ==
  ASSUME IInv, NEW e \in Executions, AuditFails(e)
  PROVE  IInv'
BY FaultCounted, SettleKeeps DEF AuditFails

LEMMA WriteFailsKeeps ==
  ASSUME IInv, NEW e \in Executions, WriteFails(e)
  PROVE  IInv'
<1>1. TypeOK /\ ExecutionOK(e)
  BY DEF IInv
<1>2. crashes' \in 0 .. MaxCrashes /\ crashes' >= crashes /\ crashes' > 0
  BY FaultCounted DEF WriteFails
<1>3. UNCHANGED <<registry, rows, toolRows, usage, call, attempts, seen>>
  BY DEF WriteFails
<1>4. PICK next \in PCType :
        /\ Goto(e, next)
        /\ <<pc[e], next>> \in
             ({"queue", "run", "fail"} \X {"thrown"}) \cup ({"model_update", "tool_wait", "tool_failed", "complete"} \X {"fail"})
               \cup ({"tool_row", "tool_update", "tool_running"} \X {"tool_failed"})
  BY DEF WriteFails, PCType, Running
<1>5. /\ pc' \in [Executions -> PCType] /\ pc'[e] = next
      /\ \A d \in Executions \ {e} : pc'[d] = pc[d]
  BY <1>1, <1>4, Moved
<1>6. StatusOK(e)'
  BY <1>1, <1>2, <1>3, <1>4, <1>5 DEF ExecutionOK, StatusOK
<1>7. Counted(e)' /\ Bounded(e)'
  BY <1>1, <1>3, <1>4, <1>5 DEF ExecutionOK, Counted, Accounted, Bounded, Stored
<1>8. SeenOK(e)'
  BY <1>4, <1>5 DEF SeenOK, Calling
<1> QED BY <1>1, <1>2, <1>3, <1>5, <1>6, <1>7, <1>8, Types, OneRunOrFault DEF ExecutionOK

(* Every run can fail: its status never stands in the way.                 *)
LEMMA FailKeeps ==
  ASSUME IInv, NEW e \in Executions, Fail(e)
  PROVE  IInv' /\ Finish(e, "fail", "FAILED")
<1>1. rows[e].status \in {"RUNNING", "PROCESSING_RESULT", "WAITING_FOR_TOOL"}
  BY DEF Fail, IInv, ExecutionOK, StatusOK
<1>2. Allowed(e, "FAILED")
  BY <1>1, Edges DEF Allowed
<1>3. Finish(e, "fail", "FAILED")
  BY <1>2 DEF Fail
<1> QED BY <1>3, FinishKeeps

LEMMA RunKeeps ==
  ASSUME IInv, NEW e \in Executions, Run(e)
  PROVE  IInv'
<1>1. TypeOK
  BY DEF IInv
<1> USE DEF PCType, Running
<1>2. CASE Queue(e)
  BY <1>2, TransitionKeeps DEF Queue, ExecutionStatus
<1>3. CASE StartRun(e)
  BY <1>3, TransitionKeeps DEF StartRun, ExecutionStatus
<1>4. CASE Program(e)
  <2>1. CASE ProgramStep(e)
    BY <2>1, ProgramStepKeeps
  <2>2. CASE Transition(e, "program", "PROCESSING_RESULT", "program")
    BY <2>2, TransitionKeeps DEF ExecutionStatus
  <2>3. CASE IllegalTransition(e, "program", "PROCESSING_RESULT")
    BY <2>3, MoveKeeps DEF IllegalTransition
  <2>4. CASE ProgramReturns(e)
    BY <2>4, MoveKeeps DEF ProgramReturns
  <2>5. CASE ProgramThrows(e)
    BY <2>5, MoveKeeps DEF ProgramThrows, Throw
  <2>6. CASE CallModel(e)
    <3>1. CASE usage[e].models >= MaxModelCalls
      BY <2>6, <3>1, MoveKeeps DEF CallModel
    <3>2. CASE ~(usage[e].models >= MaxModelCalls)
      <4>1. usage[e].models < MaxModelCalls
        BY <1>1, <3>2, Values, BudgetAssumption
      <4> QED BY <2>6, <4>1, CallModelKeeps
    <3> QED BY <3>1, <3>2
  <2>7. ASSUME NEW t \in Tools, CallTool(e, t) PROVE IInv'
    <3>1. CASE usage[e].tools >= MaxToolCalls
      BY <2>7, <3>1, MoveKeeps DEF CallTool
    <3>2. CASE ~(usage[e].tools >= MaxToolCalls)
      <4>1. usage[e].tools < MaxToolCalls
        BY <1>1, <3>2, Values, BudgetAssumption
      <4> QED BY <2>7, <4>1, CallToolKeeps
    <3> QED BY <3>1, <3>2
  <2> QED BY <1>4, <2>1, <2>2, <2>3, <2>4, <2>5, <2>6, <2>7 DEF Program, ProgramTransition
<1>5. CASE ModelAttempt(e) \/ ToolAttempt(e)
  BY <1>5, AttemptKeeps DEF ModelAttempt, ToolAttempt
<1>6. CASE ModelUpdate(e)
  BY <1>6, ModelUpdateKeeps
<1>7. CASE AuthorizeAgent(e)
  BY <1>7, AuthorizeAgentKeeps, MoveKeeps DEF AuthorizeAgent
<1>8. CASE AuthorizeGrant(e)
  <2>1. CASE HasActivePermission(Checked(e)) /\ Checked(e) \notin Gated
    BY <1>8, <2>1, AuthorizeGrantKeeps
  <2>2. CASE ~(HasActivePermission(Checked(e)) /\ Checked(e) \notin Gated)
    BY <1>8, <2>2, MoveKeeps DEF AuthorizeGrant
  <2> QED BY <2>1, <2>2
<1>9. CASE ToolWait(e)
  <2>1. CASE Transition(e, "tool_wait", "WAITING_FOR_TOOL", "tool_input")
    BY <2>1, TransitionKeeps DEF ExecutionStatus
  <2>2. CASE IllegalTransition(e, "tool_wait", "WAITING_FOR_TOOL")
    BY <2>2, MoveKeeps DEF IllegalTransition
  <2> QED BY <1>9, <2>1, <2>2 DEF ToolWait
<1>10. CASE ToolInput(e)
  BY <1>10, MoveKeeps DEF ToolInput, Throw
<1>11. CASE ToolRow(e)
  BY <1>11, ToolRowKeeps
<1>12. CASE ToolUpdate(e)
  BY <1>12, ToolUpdateKeeps
<1>13. CASE ToolRunning(e)
  BY <1>13, TransitionKeeps DEF ToolRunning, ExecutionStatus
<1>14. CASE ToolFailed(e)
  BY <1>14, ToolFailedKeeps
<1>15. CASE Complete(e)
  <2>1. CASE Finish(e, "complete", "COMPLETED")
    BY <2>1, FinishKeeps
  <2>2. CASE IllegalTransition(e, "complete", "COMPLETED")
    BY <2>2, MoveKeeps DEF IllegalTransition
  <2> QED BY <1>15, <2>1, <2>2 DEF Complete
<1>16. CASE Fail(e)
  BY <1>16, FailKeeps
<1> QED BY <1>2, <1>3, <1>4, <1>5, <1>6, <1>7, <1>8, <1>9, <1>10, <1>11, <1>12, <1>13, <1>14, <1>15, <1>16 DEF Run

-----------------------------------------------------------------------------
(* The registry and restarts.                                              *)

RequestType ==
  [op : {"none", "status", "grant", "revoke"}, status : AgentStatus \cup {"none"},
   permission : Permissions \cup {"none"}, grant : Grants \cup {NoGrant}]

GrantType == [permission : Permissions \cup {"none"}, active : BOOLEAN]

(* A request that is read changes nothing an execution depends on.         *)
LEMMA AskKeeps ==
  ASSUME IInv, NEW r \in Registrars, NEW ok, NEW request \in RequestType, Ask(r, ok, request),
         request.op = "status" => request.status \in AgentStatus
  PROVE  IInv'
<1>1. TypeOK'
  BY DEF IInv, TypeOK, Ask, execution, RequestType
<1>2. UNCHANGED <<agent, grants, rows, toolRows, usage, pc, call, attempts, seen, crashes>>
  BY DEF Ask, execution
<1>3. ASSUME NEW e \in Executions PROVE ExecutionOK(e)'
  <2>1. ExecutionOK(e)
    BY DEF IInv
  <2>2. StatusOK(e)' /\ Counted(e)' /\ Bounded(e)'
    BY <1>2, <2>1 DEF ExecutionOK, StatusOK, Counted, Accounted, Bounded
  <2>3. SeenOK(e)'
    BY <1>2, <2>1 DEF ExecutionOK, SeenOK, Granted, HasActivePermission, Authorizing, Authorized, SeenGranted
  <2> QED BY <2>2, <2>3 DEF ExecutionOK
<1>4. RegistryOK'
  BY DEF IInv, RegistryOK, TypeOK, Ask
<1> QED BY <1>1, <1>3, <1>4 DEF IInv

(* What has been seen stays seen while the registry is written.            *)
LEMMA AnsweredKeeps ==
  ASSUME IInv, NEW r \in Registrars, Answered(r), agent' \in AgentStatus, grants' \in [Grants -> GrantType]
  PROVE  IInv'
<1>1. TypeOK /\ Granted' \in SUBSET Permissions
  BY DEF IInv, Granted
<1>2. UNCHANGED <<rows, toolRows, usage, pc, call, attempts, crashes>>
  BY DEF Answered, execution
<1>3. ASSUME NEW e \in Executions
      PROVE  /\ seen'[e] \in SeenType
             /\ pc[e] \in Calling =>
                  /\ seen'[e].granted = seen[e].granted \cup Granted'
                  /\ seen[e].active => seen'[e].active
                  /\ agent' = "ACTIVE" => seen'[e].active
  <2> DEFINE now == [active |-> seen[e].active \/ agent' = "ACTIVE", granted |-> seen[e].granted \cup Granted']
  <2>1. seen'[e] = IF pc[e] \in Calling THEN now ELSE NothingSeen
    BY DEF Answered, Witness
  <2>2. /\ now.granted = seen[e].granted \cup Granted'
        /\ seen[e].active => now.active
        /\ agent' = "ACTIVE" => now.active
    OBVIOUS
  <2>3. now \in SeenType
    <3>1. seen[e].granted \in SUBSET Permissions
      BY <1>1, Values DEF SeenType
    <3> QED BY <1>1, <3>1 DEF SeenType
  <2>4. NothingSeen \in SeenType
    BY DEF NothingSeen, SeenType
  <2> HIDE DEF now
  <2> QED BY <2>1, <2>2, <2>3, <2>4
<1>4. TypeOK'
  <2>1. registrar' \in [Registrars -> RequestType]
    BY <1>1 DEF TypeOK, Answered, RequestType, NoRequest
  <2>2. seen' \in [Executions -> SeenType]
    BY <1>3 DEF Answered, Witness
  <2> QED BY <1>1, <1>2, <2>1, <2>2 DEF TypeOK, RequestType, SeenType, GrantType
<1>5. ASSUME NEW e \in Executions PROVE ExecutionOK(e)'
  <2>1. ExecutionOK(e)
    BY DEF IInv
  <2>2. StatusOK(e)' /\ Counted(e)' /\ Bounded(e)'
    BY <1>2, <2>1 DEF ExecutionOK, StatusOK, Counted, Accounted, Bounded
  <2>3. SeenOK(e)'
    <3>1. CASE pc[e] \in Calling
      <4>1. /\ seen'[e].granted = seen[e].granted \cup Granted'
            /\ seen[e].active => seen'[e].active
            /\ agent' = "ACTIVE" => seen'[e].active
        BY <1>3, <3>1
      <4>2. Authorizing(e) => Authorizing(e)'
        BY <1>2, <4>1 DEF Authorizing, SeenGranted
      <4>3. Authorized(e) => Authorized(e)'
        BY <1>2, <4>1 DEF Authorized, SeenGranted
      <4>4. pc' = pc /\ SeenOK(e)
        BY <1>2, <2>1 DEF ExecutionOK
      <4>5. Granted' \subseteq seen'[e].granted
        BY <4>1
      <4> QED BY <4>1, <4>2, <4>3, <4>4, <4>5 DEF SeenOK
    <3>2. CASE pc[e] \notin Calling
      <4>1. pc'[e] \notin Calling
        BY <1>2, <3>2
      <4> QED BY <4>1 DEF SeenOK, Calling
    <3> QED BY <3>1, <3>2
  <2> QED BY <2>2, <2>3 DEF ExecutionOK
<1>6. RegistryOK'
  BY <1>1 DEF IInv, RegistryOK, TypeOK, Answered, NoRequest
<1> QED BY <1>4, <1>5, <1>6 DEF IInv

LEMMA RegistryKeeps ==
  ASSUME IInv, NEW r \in Registrars, Registry(r)
  PROVE  IInv'
<1>1. /\ agent \in AgentStatus /\ grants \in [Grants -> GrantType] /\ registrar \in [Registrars -> RequestType]
      /\ registrar[r] \in RequestType
  BY DEF IInv, TypeOK, GrantType, RequestType
<1>2. ASSUME NEW to \in AgentStatus, StatusRead(r, to) PROVE IInv'
  <2> DEFINE request == [NoRequest EXCEPT !.op = "status", !.status = to]
  <2>1. request \in RequestType /\ (request.op = "status" => request.status \in AgentStatus)
    BY DEF NoRequest, RequestType
  <2> QED BY <1>2, <2>1, AskKeeps DEF StatusRead
<1>3. ASSUME NEW p \in Permissions, GrantRead(r, p) PROVE IInv'
  <2> DEFINE request == [NoRequest EXCEPT !.op = "grant", !.permission = p]
  <2>1. request \in RequestType /\ (request.op = "status" => request.status \in AgentStatus)
    BY DEF NoRequest, RequestType
  <2> QED BY <1>3, <2>1, AskKeeps DEF GrantRead
<1>4. ASSUME NEW g \in Grants, RevokeRead(r, g) PROVE IInv'
  <2> DEFINE request == [NoRequest EXCEPT !.op = "revoke", !.grant = g]
  <2>1. request \in RequestType /\ (request.op = "status" => request.status \in AgentStatus)
    BY DEF NoRequest, RequestType
  <2> QED BY <1>4, <2>1, AskKeeps DEF RevokeRead
<1>5. CASE StatusWrite(r)
  <2>1. agent' \in AgentStatus
    BY <1>5 DEF IInv, RegistryOK, StatusWrite
  <2> QED BY <1>1, <1>5, <2>1, AnsweredKeeps DEF StatusWrite
<1>6. CASE GrantWrite(r)
  <2>1. PICK g \in Grants : grants' = [grants EXCEPT ![g] = [permission |-> registrar[r].permission, active |-> TRUE]]
    BY <1>6 DEF GrantWrite
  <2>2. [permission |-> registrar[r].permission, active |-> TRUE] \in GrantType
    BY <1>1 DEF RequestType, GrantType
  <2>3. grants' \in [Grants -> GrantType]
    BY <1>1, <2>1, <2>2
  <2> QED BY <1>1, <1>6, <2>3, AnsweredKeeps DEF GrantWrite
<1>7. CASE RevokeWrite(r)
  <2>1. grants' \in [Grants -> GrantType]
    BY <1>1, <1>7 DEF RevokeWrite, GrantType
  <2> QED BY <1>1, <1>7, <2>1, AnsweredKeeps DEF RevokeWrite
<1> QED BY <1>2, <1>3, <1>4, <1>5, <1>6, <1>7 DEF Registry

LEMMA CrashKeeps ==
  ASSUME IInv, Crash
  PROVE  IInv'
<1>1. TypeOK'
  <2>1. crashes' \in 0 .. MaxCrashes
    BY BoundsAssumption DEF IInv, TypeOK, Crash
  <2>2. pc' \in [Executions -> PCType]
    BY Types DEF IInv, Crash, PCType
  <2>3. registrar' \in [Registrars -> RequestType]
    BY DEF Crash, NoRequest, RequestType
  <2> QED BY <2>1, <2>2, <2>3 DEF IInv, TypeOK, Crash, PCType, RequestType
<1>2. ASSUME NEW e \in Executions PROVE ExecutionOK(e)'
  <2>1. ExecutionOK(e)
    BY DEF IInv
  <2>2. /\ UNCHANGED <<agent, grants, rows, toolRows, usage, call, attempts, seen>>
        /\ (pc'[e] = pc[e] /\ pc[e] \in {"new", "done", "thrown"}) \/ pc'[e] = "lost"
    BY DEF Crash
  <2>3. pc[e] \notin {"new", "done", "thrown"} => rows[e].status \notin {"COMPLETED", "FAILED"}
    BY <2>1, Types DEF IInv, ExecutionOK, StatusOK, PCType, Running
  <2>4. StatusOK(e)'
    <3>1. crashes' > 0
      BY FaultCounted DEF Crash
    <3> QED BY <2>1, <2>2, <2>3, <3>1 DEF ExecutionOK, StatusOK, Crash
  <2>5. Counted(e)' /\ Bounded(e)'
    BY <2>1, <2>2 DEF ExecutionOK, Counted, Accounted, Bounded, Stored
  <2>6. SeenOK(e)'
    BY <2>2 DEF SeenOK, Calling
  <2> QED BY <2>4, <2>5, <2>6 DEF ExecutionOK
<1>3. RegistryOK'
  BY DEF RegistryOK, Crash, NoRequest
<1> QED BY <1>1, <1>2, <1>3 DEF IInv

LEMMA InitIInv == Init => IInv
<1> SUFFICES ASSUME Init PROVE IInv
  OBVIOUS
<1>1. TypeOK
  BY BoundsAssumption, BudgetAssumption
  DEF Init, TypeOK, AgentStatus, AbsentRow, NoUsage, Usage, NoCall, NoRequest, NothingSeen
<1>2. RegistryOK
  BY DEF Init, RegistryOK, NoRequest
<1>3. ASSUME NEW e \in Executions PROVE ExecutionOK(e)
  <2>1. Effort(0) \in Nat
    BY EffortGrows
  <2>2. /\ pc[e] = "new" /\ usage[e] = NoUsage /\ rows[e] = AbsentRow /\ attempts[e] = 0
        /\ toolRows[e] = [SUCCESS |-> 0, FAILED |-> 0]
    BY <1>3 DEF Init
  <2>3. StatusOK(e) /\ SeenOK(e)
    BY <2>2 DEF StatusOK, SeenOK, AbsentRow, Calling
  <2>4. Counted(e)
    BY <2>2 DEF Counted, AbsentRow, NoUsage, Stored
  <2>5. Bounded(e)
    BY <2>1, <2>2, BudgetAssumption DEF Bounded, NoUsage, Stored
  <2> QED BY <2>3, <2>4, <2>5 DEF ExecutionOK
<1> QED BY <1>1, <1>2, <1>3 DEF IInv

LEMMA NextIInv == IInv /\ [Next]_vars => IInv'
<1> SUFFICES ASSUME IInv, [Next]_vars PROVE IInv'
  OBVIOUS
<1>1. ASSUME NEW e \in Executions, StartExecution(e) \/ Run(e) PROVE IInv'
  BY <1>1, StartExecutionKeeps, RunKeeps
<1>2. ASSUME NEW r \in Registrars, Registry(r) PROVE IInv'
  BY <1>2, RegistryKeeps
<1>3. CASE Crash
  BY <1>3, CrashKeeps
<1>4. ASSUME NEW e \in Executions, WriteFails(e) \/ AuditFails(e) PROVE IInv'
  BY <1>4, WriteFailsKeeps, AuditFailsKeeps
<1>5. CASE UNCHANGED vars
  BY <1>5 DEF vars, registry, execution, IInv, TypeOK, RegistryOK, ExecutionOK, StatusOK, Counted, Accounted, Bounded,
              SeenOK, Granted, HasActivePermission, Authorizing, Authorized, SeenGranted
<1> QED BY <1>1, <1>2, <1>3, <1>4, <1>5 DEF Next

THEOREM Invariance == Spec => []IInv
BY InitIInv, NextIInv, PTL DEF Spec

-----------------------------------------------------------------------------
(* Every variable of the runtime holds values of its type.                 *)
THEOREM TypeCorrect == Spec => []TypeOK
<1>1. IInv => TypeOK
  BY DEF IInv
<1> QED BY <1>1, Invariance, PTL

(* callTool: no tool is executed without the Guardian having seen the agent*)
(* ACTIVE and every permission of the tool granted since the call began,   *)
(* whatever the registry does in the meantime.                             *)
THEOREM ToolsAreAuthorized == Spec => []ToolsRunWithPermission
<1>1. IInv => ToolsRunWithPermission
  <2> SUFFICES ASSUME IInv, NEW e \in Executions, pc[e] = "tool"
               PROVE  LET required == {Requires[call[e].tool][i] : i \in DOMAIN Requires[call[e].tool]}
                      IN  required \subseteq seen[e].granted \ Gated /\ (required # {} => seen[e].active)
    BY DEF ToolsRunWithPermission
  <2>1. Authorized(e)
    BY DEF IInv, ExecutionOK, SeenOK
  <2>2. Requires[call[e].tool] \in Seq(Permissions)
    BY <2>1, ToolsAssumption DEF Authorized
  <2>3. DOMAIN Requires[call[e].tool] = 1 .. Len(Requires[call[e].tool]) /\ Len(Requires[call[e].tool]) \in Nat
    BY <2>2
  <2> QED BY <2>1, <2>3 DEF Authorized, SeenGranted
<1> QED BY <1>1, Invariance, PTL

(* run: it returns what the row says and throws nothing but what the       *)
(* database refuses it, whatever else fails and in whichever status.       *)
THEOREM RunsEndWell == Spec => []RunsEndInTheirRow
<1>1. IInv => RunsEndInTheirRow
  <2> SUFFICES ASSUME IInv, NEW e \in Executions
               PROVE  /\ pc[e] = "done" => rows[e].status \in {"COMPLETED", "FAILED"}
                      /\ rows[e].status \in {"COMPLETED", "FAILED"} => pc[e] \in {"done", "thrown"}
                      /\ pc[e] = "thrown" => crashes > 0
    BY DEF RunsEndInTheirRow
  <2>1. StatusOK(e) /\ pc[e] \in PCType
    BY Types DEF IInv, ExecutionOK
  <2> QED BY <2>1 DEF StatusOK, PCType, Running
<1> QED BY <1>1, Invariance, PTL

(* The counters of a COMPLETED row and its SUCCESS tool rows account for   *)
(* every call of a model or a tool, retries included.                      *)
THEOREM CompletedRowsAccount == Spec => []CompletedRowsAccountForEveryCall
<1>1. IInv => CompletedRowsAccountForEveryCall
  BY DEF IInv, ExecutionOK, Counted, Accounted, CompletedRowsAccountForEveryCall
<1> QED BY <1>1, Invariance, PTL

-----------------------------------------------------------------------------
(* The runtime implements bounded workers. A step of a run is a step of its*)
(* worker or none: an attempt is a call, within the limit because the      *)
(* invariant says that what has been spent is paid for.                    *)

LEMMA PhaseKept ==
  ASSUME NEW e \in Executions,
         \A d \in Executions \ {e} : pc'[d] = pc[d],
         (pc[e] = "new") <=> (pc'[e] = "new"),
         (pc[e] \in {"done", "thrown"}) <=> (pc'[e] \in {"done", "thrown"})
  PROVE  Phase' = Phase
<1>1. \A d \in Executions :
        /\ (pc[d] = "new") <=> (pc'[d] = "new")
        /\ (pc[d] \in {"done", "thrown"}) <=> (pc'[d] \in {"done", "thrown"})
  OBVIOUS
<1> QED BY <1>1 DEF Phase

(* A move between two points of a run.                                     *)
LEMMA MoveStutters ==
  ASSUME TypeOK, NEW e \in Executions, NEW to \in Running, pc[e] \in Running, Goto(e, to), UNCHANGED attempts
  PROVE  UNCHANGED <<Phase, attempts>>
<1>1. /\ pc'[e] = to
      /\ \A d \in Executions \ {e} : pc'[d] = pc[d]
  BY Moved DEF PCType
<1> QED BY <1>1, PhaseKept DEF Running

LEMMA StartIsStart ==
  ASSUME IInv, NEW e \in Executions, StartExecution(e)
  PROVE  Worker!Start(e)
<1>1. /\ pc[e] = "new" /\ pc'[e] = "queue"
      /\ \A d \in Executions \ {e} : pc'[d] = pc[d]
  BY Moved DEF IInv, StartExecution, PCType, Running
<1>2. Phase[e] = "new"
  BY <1>1 DEF Phase
<1>3. \A d \in Executions : Phase'[d] = IF d = e THEN "working" ELSE Phase[d]
  BY <1>1 DEF Phase
<1>4. Phase' = [Phase EXCEPT ![e] = "working"]
  BY <1>3 DEF Phase
<1> QED BY <1>2, <1>4 DEF Worker!Start, StartExecution

LEMMA EndIsEnd ==
  ASSUME IInv, NEW e \in Executions, pc[e] \in Running, NEW next \in {"done", "thrown"}, Goto(e, next), UNCHANGED attempts
  PROVE  Worker!End(e)
<1>1. /\ pc[e] \in Running /\ pc'[e] = next
      /\ \A d \in Executions \ {e} : pc'[d] = pc[d]
  BY Moved DEF IInv, PCType
<1>2. Phase[e] = "working"
  BY <1>1 DEF Phase, Running
<1>3. \A d \in Executions : Phase'[d] = IF d = e THEN "ended" ELSE Phase[d]
  BY <1>1 DEF Phase
<1>4. Phase' = [Phase EXCEPT ![e] = "ended"]
  BY <1>3 DEF Phase
<1> QED BY <1>2, <1>4 DEF Worker!End

LEMMA FaultRefines ==
  ASSUME IInv, NEW e \in Executions, WriteFails(e) \/ AuditFails(e)
  PROVE  Worker!Next \/ UNCHANGED <<Phase, attempts>>
<1>1. CASE AuditFails(e)
  BY <1>1, EndIsEnd DEF AuditFails, Settle, Running, Worker!Next
<1>2. CASE WriteFails(e)
  <2>1. pc[e] \in Running /\ UNCHANGED attempts /\ \E next \in {"fail", "tool_failed", "thrown"} : Goto(e, next)
    BY <1>2 DEF WriteFails, Running
  <2>2. CASE Goto(e, "thrown")
    BY <2>1, <2>2, EndIsEnd DEF Worker!Next
  <2>3. CASE Goto(e, "fail") \/ Goto(e, "tool_failed")
    BY <2>1, <2>3, MoveStutters DEF IInv, Running
  <2> QED BY <2>1, <2>2, <2>3
<1> QED BY <1>1, <1>2

LEMMA AttemptIsCall ==
  ASSUME IInv, NEW e \in Executions, NEW from, NEW ok, NEW failed, Attempt(e, from, ok, failed),
         <<from, ok, failed>> \in {<<"model", "model_update", "fail">>, <<"tool", "tool_row", "tool_failed">>}
  PROVE  Worker!Call(e)
<1> DEFINE calls == usage[e].tools + usage[e].models
<1>1. TypeOK /\ ExecutionOK(e)
  BY DEF IInv
<1>2. pc[e] = from /\ attempts' = [attempts EXCEPT ![e] = attempts[e] + 1]
  BY DEF Attempt
<1>3. Phase[e] = "working"
  BY <1>2 DEF Phase
<1>4. Phase' = Phase
  <2>1. UNCHANGED pc \/ Goto(e, ok) \/ Goto(e, failed)
    BY DEF Attempt
  <2>2. CASE UNCHANGED pc
    BY <2>2 DEF Phase
  <2>3. CASE Goto(e, ok) \/ Goto(e, failed)
    <3>1. /\ pc'[e] \in {ok, failed}
          /\ \A d \in Executions \ {e} : pc'[d] = pc[d]
      BY <1>1, <2>3, Moved DEF PCType, Running
    <3> QED BY <1>2, <3>1, PhaseKept
  <2> QED BY <2>1, <2>2, <2>3
<1>5. attempts[e] < (MaxToolCalls + MaxModelCalls) * (MaxRetries + 1)
  <2>1. /\ usage[e].tools \in Nat /\ usage[e].models \in Nat /\ attempts[e] \in Nat
        /\ calls \in Nat /\ call[e].attempt \in 0 .. (MaxRetries + 1)
    BY <1>1, Values DEF CallType
  <2>2. calls + 1 <= MaxToolCalls + MaxModelCalls
    BY <1>1, <1>2, <2>1, BudgetAssumption DEF ExecutionOK, Bounded
  <2> DEFINE limit == MaxToolCalls + MaxModelCalls
             next == calls + 1
  <2>3. /\ Effort(next) <= Effort(limit) /\ Effort(next) = Effort(calls) + MaxRetries + 1
        /\ Effort(calls) \in Nat /\ Effort(limit) \in Nat
    <3>1. limit \in Nat /\ next \in Nat /\ next <= limit
      BY <2>1, <2>2, BudgetAssumption
    <3>2. Effort(next) = Effort(calls) + MaxRetries + 1 /\ Effort(calls) \in Nat
      BY <2>1, EffortGrows
    <3> HIDE DEF next, limit
    <3> QED BY <3>1, <3>2, EffortGrows
  <2>4. attempts[e] + 1 <= Effort(calls) + call[e].attempt
    BY <1>1, <1>2 DEF ExecutionOK, Bounded
  <2>5. attempts[e] < Effort(limit)
    <3> HIDE DEF calls, next, limit
    <3> QED BY <2>1, <2>3, <2>4, BudgetAssumption
  <2> QED BY <2>5 DEF Effort
<1> QED BY <1>2, <1>3, <1>4, <1>5 DEF Worker!Call

LEMMA RunRefines ==
  ASSUME IInv, NEW e \in Executions, Run(e)
  PROVE  Worker!Next \/ UNCHANGED <<Phase, attempts>>
<1>1. TypeOK
  BY DEF IInv
<1>2. CASE ModelAttempt(e) \/ ToolAttempt(e)
  BY <1>2, AttemptIsCall DEF ModelAttempt, ToolAttempt, Worker!Next
<1>3. CASE Fail(e) \/ Finish(e, "complete", "COMPLETED")
  <2>1. Finish(e, "fail", "FAILED") \/ Finish(e, "complete", "COMPLETED")
    BY <1>3, FailKeeps
  <2> QED BY <2>1, EndIsEnd DEF Finish, Settle, Worker!Next, Running
<1>4. CASE ~(ModelAttempt(e) \/ ToolAttempt(e) \/ Fail(e) \/ Finish(e, "complete", "COMPLETED"))
  <2>1. pc[e] \in Running /\ UNCHANGED attempts /\ \E to \in Running : Goto(e, to)
    BY <1>4
    DEF Run, Queue, StartRun, Program, ProgramStep, ProgramTransition, ProgramReturns, ProgramThrows, CallModel,
        CallTool, ModelUpdate, AuthorizeAgent, AuthorizeGrant, ToolWait, ToolInput, ToolRow, ToolUpdate,
        ToolRunning, ToolFailed, Complete, Transition, IllegalTransition, Throw, Running
  <2> QED BY <1>1, <2>1, MoveStutters
<1> QED BY <1>2, <1>3, <1>4

(* ImplementsBoundedWorker: an execution is started once, ends once, and   *)
(* calls models and tools at most                                          *)
(* (maxToolCalls + maxModelCalls) * (maxRetries + 1) times, only between.  *)
THEOREM ImplementsWorker == Spec => ImplementsBoundedWorker
<1>1. Init => Worker!Init
  BY DEF Init, Worker!Init, Phase
<1>2. ASSUME IInv, [Next]_vars PROVE [Worker!Next]_<<Phase, attempts>>
  <2>1. ASSUME NEW e \in Executions, StartExecution(e) PROVE Worker!Next
    BY <1>2, <2>1, StartIsStart DEF Worker!Next
  <2>2. ASSUME NEW e \in Executions, Run(e) PROVE Worker!Next \/ UNCHANGED <<Phase, attempts>>
    BY <1>2, <2>2, RunRefines
  <2>3. ASSUME NEW r \in Registrars, Registry(r) PROVE UNCHANGED <<Phase, attempts>>
    <3>1. UNCHANGED <<pc, attempts>>
      BY <2>3 DEF Registry, StatusRead, GrantRead, RevokeRead, Ask, StatusWrite, GrantWrite, RevokeWrite, Answered,
                  execution
    <3> QED BY <3>1 DEF Phase
  <2>4. CASE Crash
    <3>1. \A e \in Executions :
            /\ (pc[e] = "new") <=> (pc'[e] = "new")
            /\ (pc[e] \in {"done", "thrown"}) <=> (pc'[e] \in {"done", "thrown"})
      BY <2>4 DEF Crash
    <3> QED BY <2>4, <3>1 DEF Phase, Crash
  <2>5. ASSUME NEW e \in Executions, WriteFails(e) \/ AuditFails(e) PROVE Worker!Next \/ UNCHANGED <<Phase, attempts>>
    BY <1>2, <2>5, FaultRefines
  <2>6. CASE UNCHANGED vars
    BY <2>6 DEF vars, execution, Phase
  <2> QED BY <1>2, <2>1, <2>2, <2>3, <2>4, <2>5, <2>6 DEF Next
<1> QED BY <1>1, <1>2, Invariance, PTL DEF Spec, ImplementsBoundedWorker, Worker!Spec

=============================================================================
