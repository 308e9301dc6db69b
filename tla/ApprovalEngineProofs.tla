------------------------ MODULE ApprovalEngineProofs ------------------------
(***************************************************************************)
(* What holds of the Approval Engine for any number of calls, resources,   *)
(* humans and rows, with every interleaving and every crash.               *)
(***************************************************************************)
EXTENDS ApprovalEngine, TLAPS

-----------------------------------------------------------------------------
(* The inductive invariant. TypeOK is not inductive alone: what a write    *)
(* step stores is what an earlier step of the same call has read.          *)

(* Row a is about r and, when r has a hasher, its snapshot is the hash the *)
(* request was made with.                                                  *)
Captured(a, r) ==
  /\ a \in Approvals /\ r \in Resources
  /\ Exists(a)
  /\ rows[a].resource = r
  /\ r \in Hashed => snapshot[a] = about[a] /\ about[a] # NoHash

CallOK(c) ==
  LET l == local[c] IN
  /\ pc[c] = "request_create" =>
       l.resource \in Resources /\ (l.resource \in Hashed => l.hash # NoHash)
  /\ pc[c] = "request_snapshot" =>
       /\ l.resource \in Resources /\ l.row \in Approvals /\ Exists(l.row)
       /\ rows[l.row].resource = l.resource
       /\ about[l.row] = l.hash /\ l.hash # NoHash
  /\ pc[c] = "request_attach" => Captured(l.row, l.resource)
  /\ pc[c] \in {"decide_write", "decide_publish"} =>
       l.row \in Approvals /\ l.decision \in RouteDecision /\ l.reviewer \in Humans
  /\ pc[c] = "requeue_write" => l.row \in Approvals
  /\ pc[c] \in {"execute_approval", "execute_fresh"} =>
       Captured(l.row, l.resource) /\ (l.resource \in Hashed => l.hash # NoHash)
  /\ pc[c] = "execute_fresh" => l.reviewer \in Humans

(* An approved row was approved by a human: status and reviewer are        *)
(* written together.                                                       *)
ApprovedByHuman == \A a \in Approvals : rows[a].status = "APPROVED" => rows[a].reviewedBy \in Humans

(* A resource is bound only to a row whose snapshot has been taken.        *)
BoundCaptured == \A r \in Resources : bound[r] # NoRow => Captured(bound[r], r)

ExecutionOK(e) ==
  /\ e.by \in Humans
  /\ Exists(e.row)
  /\ rows[e.row].resource = e.resource
  /\ e.resource \in Hashed => e.hash = about[e.row]
  /\ e.at <= rows[e.row].expiresAt

IInv ==
  /\ TypeOK
  /\ \A c \in Calls : CallOK(c)
  /\ ApprovedByHuman
  /\ BoundCaptured
  /\ \A e \in executions : ExecutionOK(e)

-----------------------------------------------------------------------------
(* The facts about statuses and nulls the proofs below need.               *)
LEMMA Constants ==
  /\ RouteDecision \subseteq ApprovalStatus
  /\ "PENDING" \in ApprovalStatus /\ "EXPIRED" \in ApprovalStatus
  /\ "ABSENT" \notin ApprovalStatus
  /\ NoHash \notin Versions /\ NoRow \notin Approvals
  /\ Nothing \in Local
BY DEF RouteDecision, ApprovalStatus, NoHash, Versions, NoRow, Approvals, Nothing, Local

(* A step of a call keeps pc and local well typed when what it read is,    *)
(* and leaves every other call alone.                                      *)
LEMMA StepFacts ==
  ASSUME TypeOK, NEW c \in Calls, NEW from, NEW to \in PC, NEW read \in Local, Step(c, from, to, read)
  PROVE  /\ pc' \in [Calls -> PC] /\ local' \in [Calls -> Local]
         /\ pc[c] = from /\ pc'[c] = to
         /\ to # "idle" => local'[c] = read
         /\ \A d \in Calls \ {c} : pc'[d] = pc[d] /\ local'[d] = local[d]
BY Constants DEF Step, TypeOK

(* A row that exists keeps what it is about, its expiry and, once taken,   *)
(* its snapshot. Every action guarantees it.                               *)
RowsKept ==
  \A a \in Approvals : Exists(a) =>
    /\ Exists(a)'
    /\ rows'[a].resource = rows[a].resource
    /\ rows'[a].expiresAt = rows[a].expiresAt
    /\ about'[a] = about[a]
    /\ snapshot[a] = about[a] => snapshot'[a] = about'[a]

LEMMA CapturedKept ==
  ASSUME RowsKept, NEW a, NEW r, Captured(a, r)
  PROVE  Captured(a, r)'
BY DEF RowsKept, Captured

(* What a call has in hand stays valid while other calls run.              *)
LEMMA CallKept ==
  ASSUME RowsKept, NEW d \in Calls, CallOK(d), pc'[d] = pc[d], local'[d] = local[d]
  PROVE  CallOK(d)'
BY CapturedKept DEF CallOK, RowsKept

LEMMA BoundKept ==
  ASSUME RowsKept, BoundCaptured, bound' = bound
  PROVE  BoundCaptured'
BY CapturedKept DEF BoundCaptured

LEMMA ExecutionsKept ==
  ASSUME TypeOK, RowsKept, \A e \in executions : ExecutionOK(e)
  PROVE  \A e \in executions : ExecutionOK(e)'
BY DEF TypeOK, Execution, RowsKept, ExecutionOK

(* Resolving a row to a status other than "ABSENT" keeps all rows.         *)
LEMMA ResolvedKept ==
  ASSUME TypeOK, NEW a \in Approvals, NEW s \in ApprovalStatus, NEW by \in Humans \cup {NoOne, Sweeper},
         rows' = Resolved(a, s, by), UNCHANGED <<about, snapshot>>,
         ApprovedByHuman, s = "APPROVED" => by \in Humans
  PROVE  RowsKept /\ rows' \in [Approvals -> Row] /\ ApprovedByHuman'
<1>1. /\ rows'[a].status = s /\ rows'[a].reviewedBy = by
      /\ rows'[a].resource = rows[a].resource /\ rows'[a].expiresAt = rows[a].expiresAt
      /\ rows'[a] \in Row
  BY DEF TypeOK, Row, Resolved
<1>2. \A b \in Approvals \ {a} : rows'[b] = rows[b]
  BY DEF TypeOK, Resolved
<1>3. rows' \in [Approvals -> Row]
  BY <1>1, <1>2 DEF TypeOK, Resolved
<1>4. RowsKept
  BY <1>1, <1>2, Constants DEF RowsKept, Exists
<1>5. ApprovedByHuman'
  BY <1>1, <1>2 DEF ApprovedByHuman
<1> QED BY <1>3, <1>4, <1>5

-----------------------------------------------------------------------------
LEMMA InitIInv == Init => IInv
<1> SUFFICES ASSUME Init PROVE IInv
  OBVIOUS
<1>1. TypeOK
  BY Constants, BoundsAssumption
  DEF Init, TypeOK, Row, PC, Absent, NoRow, NoHash, Versions, Approvals
<1> QED BY <1>1, Constants DEF Init, IInv, CallOK, ApprovedByHuman, BoundCaptured, Absent

(* A step that only reads: the tables and the history stay as they are.    *)
LEMMA ReadStep ==
  ASSUME IInv, NEW c \in Calls, NEW from, NEW to \in PC, NEW read \in Local,
         Step(c, from, to, read), UNCHANGED <<stored, swept, history, crashes>>, CallOK(c)'
  PROVE  IInv'
<1>1. TypeOK'
  BY StepFacts DEF IInv, TypeOK, stored, history
<1>2. RowsKept
  BY DEF RowsKept, Exists, stored, history
<1>3. \A d \in Calls : CallOK(d)'
  BY <1>2, StepFacts, CallKept DEF IInv
<1>4. ApprovedByHuman' /\ BoundCaptured'
  BY <1>2, BoundKept DEF IInv, ApprovedByHuman, stored
<1>5. \A e \in executions' : ExecutionOK(e)'
  BY <1>2, ExecutionsKept DEF IInv, history
<1> QED BY <1>1, <1>3, <1>4, <1>5 DEF IInv

(* A step that resolves a row, the executions and bindings unchanged.      *)
LEMMA ResolveStep ==
  ASSUME IInv, NEW c \in Calls, NEW from, NEW to \in PC, NEW read \in Local, Step(c, from, to, read),
         NEW a \in Approvals, NEW s \in ApprovalStatus, NEW by \in Humans \cup {NoOne, Sweeper},
         rows' = Resolved(a, s, by), s = "APPROVED" => by \in Humans,
         UNCHANGED <<snapshot, content, bound, now, history, crashes>>,
         swept' \in [Calls -> SUBSET Approvals], CallOK(c)'
  PROVE  IInv'
<1>1. RowsKept /\ rows' \in [Approvals -> Row] /\ ApprovedByHuman'
  BY ResolvedKept DEF IInv, history
<1>2. TypeOK'
  BY <1>1, StepFacts DEF IInv, TypeOK, history
<1>3. \A d \in Calls : CallOK(d)'
  BY <1>1, StepFacts, CallKept DEF IInv
<1>4. BoundCaptured' /\ \A e \in executions' : ExecutionOK(e)'
  BY <1>1, BoundKept, ExecutionsKept DEF IInv, history
<1> QED BY <1>1, <1>2, <1>3, <1>4 DEF IInv

-----------------------------------------------------------------------------
LEMMA HashInType == TypeOK => \A r \in Resources : 
  /\ HashOf(r) \in Versions \cup {NoHash}
  /\ r \in Hashed => HashOf(r) # NoHash
BY Constants DEF TypeOK, HashOf

LEMMA RequestReadIInv ==
  ASSUME IInv, NEW c \in Calls, NEW r \in Resources, RequestRead(c, r) PROVE IInv'
<1> DEFINE read == [Nothing EXCEPT !.resource = r, !.hash = HashOf(r)]
<1>1. TypeOK
  BY DEF IInv
<1>2. read \in Local /\ read.resource = r /\ read.hash = HashOf(r)
  BY <1>1, HashInType, Constants DEF Local
<1>3. Step(c, "idle", "request_create", read) /\ UNCHANGED <<stored, swept, history, crashes>>
  BY DEF RequestRead
<1>4. pc'[c] = "request_create" /\ local'[c] = read
  BY <1>1, <1>2, <1>3, StepFacts, ZenonT(60) DEF PC
<1>5. CallOK(c)'
  BY <1>1, <1>2, <1>4, HashInType DEF CallOK
<1> QED BY <1>2, <1>3, <1>5, ReadStep DEF PC

LEMMA RequestCreateIInv ==
  ASSUME IInv, NEW c \in Calls, RequestCreate(c) PROVE IInv'
<1> DEFINE to == IF local[c].hash = NoHash THEN "request_attach" ELSE "request_snapshot"
<1> DEFINE read(a) == [local[c] EXCEPT !.row = a]
<1> PICK a \in Approvals :
      /\ ~Exists(a)
      /\ Step(c, "request_create", to, read(a))
      /\ rows' = [rows EXCEPT ![a] =
                    [status |-> "PENDING", resource |-> local[c].resource,
                     expiresAt |-> NewExpiry, reviewedBy |-> NoOne]]
      /\ about' = [about EXCEPT ![a] = local[c].hash]
      /\ UNCHANGED <<snapshot, content, bound, now, swept, announced, executions, crashes>>
  BY DEF RequestCreate
<1>1. TypeOK /\ local[c] \in Local /\ pc[c] = "request_create"
  BY DEF IInv, TypeOK, Step
<1>2. read(a) \in Local /\ to \in PC /\ to # "idle"
  BY <1>1 DEF Local, PC
<1> HIDE DEF to, read
<1>3. /\ pc' \in [Calls -> PC] /\ local' \in [Calls -> Local]
      /\ pc'[c] = to /\ local'[c] = read(a)
      /\ \A d \in Calls \ {c} : pc'[d] = pc[d] /\ local'[d] = local[d]
  BY <1>1, <1>2, StepFacts, SMTT(60)
<1>4. NewExpiry \in 0 .. (MaxTime + ExpiryPeriod)
  BY <1>1, BoundsAssumption DEF NewExpiry, TypeOK
<1>5. rows' \in [Approvals -> Row] /\ about' \in [Approvals -> Versions \cup {NoHash}]
  BY <1>1, <1>4, Constants DEF TypeOK, Row, Local
<1>6. TypeOK'
  BY <1>1, <1>3, <1>5 DEF TypeOK
<1>7. \A b \in Approvals \ {a} : rows'[b] = rows[b] /\ about'[b] = about[b]
  BY <1>1 DEF TypeOK
<1>8. RowsKept
  BY <1>7 DEF RowsKept, Exists
<1>9. ApprovedByHuman'
  BY <1>1, <1>7 DEF IInv, ApprovedByHuman, TypeOK
<1>10. CallOK(c)'
  <2>1. local[c].resource \in Resources /\ (local[c].resource \in Hashed => local[c].hash # NoHash)
    BY <1>1 DEF IInv, CallOK
  <2>2. Exists(a)' /\ rows'[a].resource = local[c].resource /\ about'[a] = local[c].hash
    BY <1>1, Constants DEF Exists, TypeOK
  <2>3. /\ local'[c].row = a /\ local'[c].resource = local[c].resource
        /\ local'[c].hash = local[c].hash
    BY <1>1, <1>3 DEF Local, read
  <2> QED BY <1>3, <2>1, <2>2, <2>3 DEF CallOK, Captured, to
<1>11. \A d \in Calls : CallOK(d)'
  BY <1>3, <1>8, <1>10, CallKept DEF IInv
<1>12. BoundCaptured' /\ \A e \in executions' : ExecutionOK(e)'
  BY <1>1, <1>8, BoundKept, ExecutionsKept DEF IInv
<1> QED BY <1>6, <1>9, <1>11, <1>12 DEF IInv

LEMMA RequestSnapshotIInv ==
  ASSUME IInv, NEW c \in Calls, RequestSnapshot(c) PROVE IInv'
<1>1. TypeOK /\ local[c] \in Local /\ CallOK(c)
  BY DEF IInv, TypeOK
<1>2. /\ pc' \in [Calls -> PC] /\ local' \in [Calls -> Local]
      /\ pc[c] = "request_snapshot" /\ pc'[c] = "request_attach" /\ local'[c] = local[c]
      /\ \A d \in Calls \ {c} : pc'[d] = pc[d] /\ local'[d] = local[d]
  BY <1>1, StepFacts, ZenonT(60) DEF RequestSnapshot, PC
<1>3. /\ local[c].row \in Approvals /\ local[c].resource \in Resources /\ Exists(local[c].row)
      /\ rows[local[c].row].resource = local[c].resource
      /\ about[local[c].row] = local[c].hash /\ local[c].hash # NoHash
  BY <1>1, <1>2 DEF CallOK
<1>4. /\ UNCHANGED <<rows, about, bound, executions>>
      /\ snapshot' = [snapshot EXCEPT ![local[c].row] = local[c].hash]
  BY DEF RequestSnapshot, history
<1>5. TypeOK'
  BY <1>1, <1>2, <1>4 DEF RequestSnapshot, TypeOK, Local, history
<1>6. RowsKept
  BY <1>1, <1>3, <1>4 DEF RowsKept, Exists, TypeOK
<1>7. CallOK(c)'
  BY <1>1, <1>2, <1>3, <1>4 DEF CallOK, Captured, Exists, TypeOK
<1>8. \A d \in Calls : CallOK(d)'
  BY <1>2, <1>6, <1>7, CallKept DEF IInv
<1>9. ApprovedByHuman' /\ BoundCaptured' /\ \A e \in executions' : ExecutionOK(e)'
  BY <1>1, <1>4, <1>6, BoundKept, ExecutionsKept DEF IInv, ApprovedByHuman
<1> QED BY <1>5, <1>8, <1>9 DEF IInv

LEMMA RequestAttachIInv ==
  ASSUME IInv, NEW c \in Calls, RequestAttach(c) PROVE IInv'
<1>1. TypeOK /\ local[c] \in Local /\ CallOK(c)
  BY DEF IInv, TypeOK
<1>2. /\ pc' \in [Calls -> PC] /\ local' \in [Calls -> Local]
      /\ pc[c] = "request_attach" /\ pc'[c] = "idle"
      /\ \A d \in Calls \ {c} : pc'[d] = pc[d] /\ local'[d] = local[d]
  BY <1>1, StepFacts, Constants DEF RequestAttach, Return, PC
<1>3. Captured(local[c].row, local[c].resource)
  BY <1>1, <1>2 DEF CallOK
<1>4. /\ UNCHANGED <<rows, about, snapshot, executions>>
      /\ bound' = [bound EXCEPT ![local[c].resource] = local[c].row]
  BY DEF RequestAttach, history
<1>5. TypeOK'
  BY <1>1, <1>2, <1>4 DEF RequestAttach, TypeOK, Local, history
<1>6. RowsKept
  BY <1>4 DEF RowsKept, Exists
<1>7. CallOK(c)'
  BY <1>2 DEF CallOK
<1>8. \A d \in Calls : CallOK(d)'
  BY <1>2, <1>6, <1>7, CallKept DEF IInv
<1>9. \A r \in Resources : bound'[r] # NoRow => Captured(bound'[r], r)
  BY <1>1, <1>3, <1>4 DEF IInv, BoundCaptured, TypeOK
<1>10. BoundCaptured'
  BY <1>6, <1>9, CapturedKept DEF BoundCaptured
<1>11. ApprovedByHuman' /\ \A e \in executions' : ExecutionOK(e)'
  BY <1>1, <1>4, <1>6, ExecutionsKept DEF IInv, ApprovedByHuman
<1> QED BY <1>5, <1>8, <1>10, <1>11 DEF IInv

LEMMA DecideReadIInv ==
  ASSUME IInv, NEW c \in Calls, NEW a \in Approvals, NEW h \in Humans, NEW to \in RouteDecision,
         DecideRead(c, a, h, to)
  PROVE  IInv'
<1> DEFINE read == [Nothing EXCEPT !.row = a, !.decision = to, !.reviewer = h]
<1>1. read \in Local /\ read.row = a /\ read.decision = to /\ read.reviewer = h
  BY DEF Local, Nothing, NoHash
<1>2. Step(c, "idle", "decide_write", read) /\ UNCHANGED <<stored, swept, history, crashes>>
  BY DEF DecideRead
<1>3. pc'[c] = "decide_write" /\ local'[c] = read
  BY <1>1, <1>2, StepFacts DEF IInv, PC
<1>4. CallOK(c)'
  BY <1>1, <1>3 DEF CallOK
<1> QED BY <1>1, <1>2, <1>4, ReadStep DEF PC

LEMMA DecideWriteIInv ==
  ASSUME IInv, NEW c \in Calls, DecideWrite(c) PROVE IInv'
<1>1. local[c] \in Local /\ CallOK(c) /\ pc[c] = "decide_write"
  BY DEF IInv, TypeOK, DecideWrite, Step
<1>2. local[c].row \in Approvals /\ local[c].decision \in RouteDecision /\ local[c].reviewer \in Humans
  BY <1>1 DEF CallOK
<1>3. Step(c, "decide_write", "decide_publish", local[c])
  BY DEF DecideWrite
<1>4. pc'[c] = "decide_publish" /\ local'[c] = local[c]
  BY <1>1, <1>3, StepFacts DEF IInv, PC
<1>5. CallOK(c)'
  BY <1>2, <1>4 DEF CallOK
<1>6. /\ rows' = Resolved(local[c].row, local[c].decision, local[c].reviewer)
      /\ UNCHANGED <<snapshot, content, bound, now, swept, history, crashes>>
  BY DEF DecideWrite
<1>7. swept' \in [Calls -> SUBSET Approvals]
  BY <1>6 DEF IInv, TypeOK
<1> QED BY <1>1, <1>2, <1>3, <1>5, <1>6, <1>7, ResolveStep, Constants DEF PC

LEMMA DecidePublishIInv ==
  ASSUME IInv, NEW c \in Calls, DecidePublish(c) PROVE IInv'
<1>1. TypeOK /\ CallOK(c)
  BY DEF IInv
<1>2. /\ pc' \in [Calls -> PC] /\ local' \in [Calls -> Local]
      /\ pc[c] = "decide_publish" /\ pc'[c] = "idle"
      /\ \A d \in Calls \ {c} : pc'[d] = pc[d] /\ local'[d] = local[d]
  BY <1>1, StepFacts, Constants DEF DecidePublish, Return, PC
<1>3. UNCHANGED <<stored, swept, executions, about, crashes>>
  BY DEF DecidePublish
<1>4. announced' \subseteq Approvals \X RouteDecision
  BY <1>1, <1>2 DEF DecidePublish, CallOK, TypeOK
<1>5. TypeOK'
  BY <1>1, <1>2, <1>3, <1>4 DEF TypeOK, stored
<1>6. RowsKept
  BY <1>3 DEF RowsKept, Exists, stored
<1>7. CallOK(c)'
  BY <1>2 DEF CallOK
<1>8. \A d \in Calls : CallOK(d)'
  BY <1>2, <1>6, <1>7, CallKept DEF IInv
<1>9. ApprovedByHuman' /\ BoundCaptured' /\ \A e \in executions' : ExecutionOK(e)'
  BY <1>1, <1>3, <1>6, BoundKept, ExecutionsKept DEF IInv, ApprovedByHuman, stored
<1> QED BY <1>5, <1>8, <1>9 DEF IInv

LEMMA SweepListIInv ==
  ASSUME IInv, NEW c \in Calls, SweepList(c) PROVE IInv'
<1>1. TypeOK
  BY DEF IInv
<1>2. /\ pc' \in [Calls -> PC] /\ local' \in [Calls -> Local] /\ pc'[c] = "sweep"
      /\ \A d \in Calls \ {c} : pc'[d] = pc[d] /\ local'[d] = local[d]
  BY <1>1, StepFacts, Constants DEF SweepList, PC
<1>3. UNCHANGED <<stored, history, crashes>> /\ swept' \in [Calls -> SUBSET Approvals]
  BY <1>1 DEF SweepList, OverdueQueue, TypeOK
<1>4. TypeOK'
  BY <1>1, <1>2, <1>3 DEF TypeOK, stored, history
<1>5. RowsKept
  BY <1>3 DEF RowsKept, Exists, stored, history
<1>6. \A d \in Calls : CallOK(d)'
  <2>1. CallOK(c)'
    BY <1>2 DEF CallOK
  <2> QED BY <1>2, <1>5, <2>1, CallKept DEF IInv
<1>7. ApprovedByHuman' /\ BoundCaptured' /\ \A e \in executions' : ExecutionOK(e)'
  BY <1>1, <1>3, <1>5, BoundKept, ExecutionsKept DEF IInv, ApprovedByHuman, stored, history
<1> QED BY <1>4, <1>6, <1>7 DEF IInv

LEMMA SweepExpireIInv ==
  ASSUME IInv, NEW c \in Calls, SweepExpire(c) PROVE IInv'
<1> PICK a \in swept[c] :
      /\ Step(c, "sweep", IF swept[c] = {a} THEN "idle" ELSE "sweep", Nothing)
      /\ rows' = Resolved(a, "EXPIRED", Sweeper)
      /\ swept' = [swept EXCEPT ![c] = @ \ {a}]
      /\ UNCHANGED <<snapshot, content, bound, now, history, crashes>>
  BY DEF SweepExpire
<1> DEFINE to == IF swept[c] = {a} THEN "idle" ELSE "sweep"
<1>1. a \in Approvals /\ swept' \in [Calls -> SUBSET Approvals] /\ to \in {"idle", "sweep"}
  BY DEF IInv, TypeOK
<1>2. Step(c, "sweep", to, Nothing)
  OBVIOUS
<1> HIDE DEF to
<1>3. to \in PC
  BY <1>1 DEF PC
<1>4. pc'[c] = to
  BY <1>2, <1>3, StepFacts, Constants DEF IInv
<1>5. CallOK(c)'
  BY <1>1, <1>4 DEF CallOK
<1> QED BY <1>1, <1>2, <1>3, <1>5, ResolveStep, Constants

LEMMA RequeueReadIInv ==
  ASSUME IInv, NEW c \in Calls, NEW a \in Approvals, RequeueRead(c, a) PROVE IInv'
<1> DEFINE read == [Nothing EXCEPT !.row = a]
<1>1. read \in Local /\ read.row = a
  BY DEF Local, Nothing, NoHash
<1>2. Step(c, "idle", "requeue_write", read) /\ UNCHANGED <<stored, swept, history, crashes>>
  BY DEF RequeueRead
<1>3. pc'[c] = "requeue_write" /\ local'[c] = read
  BY <1>1, <1>2, StepFacts, ZenonT(60) DEF IInv, PC
<1>4. CallOK(c)'
  BY <1>1, <1>3 DEF CallOK
<1> QED BY <1>1, <1>2, <1>4, ReadStep DEF PC

LEMMA RequeueWriteIInv ==
  ASSUME IInv, NEW c \in Calls, RequeueWrite(c) PROVE IInv'
<1>1. CallOK(c) /\ pc[c] = "requeue_write" /\ local[c].row \in Approvals
  BY DEF IInv, RequeueWrite, Return, Step, CallOK
<1>2. Step(c, "requeue_write", "idle", Nothing)
  BY DEF RequeueWrite, Return
<1>3. pc'[c] = "idle"
  BY <1>2, StepFacts, Constants DEF IInv, PC
<1>4. CallOK(c)'
  BY <1>3 DEF CallOK
<1>5. /\ rows' = Resolved(local[c].row, "PENDING", NoOne)
      /\ UNCHANGED <<snapshot, content, bound, now, swept, history, crashes>>
  BY DEF RequeueWrite
<1>6. swept' \in [Calls -> SUBSET Approvals]
  BY <1>5 DEF IInv, TypeOK
<1> QED BY <1>1, <1>2, <1>4, <1>5, <1>6, ResolveStep, Constants DEF PC

LEMMA ExecuteReadIInv ==
  ASSUME IInv, NEW c \in Calls, NEW r \in Resources, ExecuteRead(c, r) PROVE IInv'
<1> DEFINE read == [Nothing EXCEPT !.row = bound[r], !.resource = r, !.hash = HashOf(r)]
<1>1. TypeOK /\ BoundCaptured /\ bound[r] # NoRow
  BY DEF IInv, ExecuteRead
<1>2. read \in Local /\ read.row = bound[r] /\ read.resource = r /\ read.hash = HashOf(r)
  BY <1>1, HashInType DEF Local, Nothing, NoHash, TypeOK
<1>3. Step(c, "idle", "execute_approval", read) /\ UNCHANGED <<stored, swept, history, crashes>>
  BY DEF ExecuteRead
<1>4. pc'[c] = "execute_approval" /\ local'[c] = read
  BY <1>1, <1>2, <1>3, StepFacts, ZenonT(60) DEF PC
<1>5. Captured(bound[r], r)'
  <2>1. Captured(bound[r], r)
    BY <1>1 DEF BoundCaptured
  <2> QED BY <1>3, <2>1 DEF Captured, Exists, stored, history
<1>6. bound' = bound
  BY <1>3 DEF stored
<1> HIDE DEF read
<1>7. CallOK(c)'
  BY <1>1, <1>2, <1>4, <1>5, <1>6, HashInType DEF CallOK
<1> QED BY <1>2, <1>3, <1>7, ReadStep DEF PC

LEMMA ExecuteApprovalIInv ==
  ASSUME IInv, NEW c \in Calls, ExecuteApproval(c) PROVE IInv'
<1>1. TypeOK /\ CallOK(c) /\ ApprovedByHuman /\ local[c] \in Local /\ pc[c] = "execute_approval"
  BY DEF IInv, TypeOK, ExecuteApproval, Step
<1>2. PICK a \in Approvals, r \in Resources :
        /\ local[c].row = a /\ local[c].resource = r
        /\ Captured(a, r)
        /\ r \in Hashed => local[c].hash # NoHash
  BY <1>1 DEF CallOK, Captured
<1> DEFINE to == IF ApprovedFor(a, r) THEN "execute_fresh" ELSE "idle"
           read == [local[c] EXCEPT !.reviewer = rows[a].reviewedBy]
<1>3. Step(c, "execute_approval", to, read) /\ UNCHANGED <<stored, swept, history, crashes>>
  BY <1>2 DEF ExecuteApproval
<1>4. /\ read \in Local /\ read.row = a /\ read.resource = r
      /\ read.hash = local[c].hash /\ read.reviewer = rows[a].reviewedBy
  BY <1>1, <1>2 DEF Local, Row, TypeOK
<1>5. to \in PC /\ to \in {"idle", "execute_fresh"}
  BY DEF PC
<1>6. to = "execute_fresh" => rows[a].reviewedBy \in Humans
  BY <1>1 DEF ApprovedFor, ApprovedByHuman
<1> HIDE DEF to, read
<1>7. pc'[c] = to /\ (to # "idle" => local'[c] = read)
  BY <1>1, <1>3, <1>4, <1>5, StepFacts
<1>8. Captured(a, r)'
  BY <1>2, <1>3 DEF Captured, Exists, stored, history
<1>9. CallOK(c)'
  BY <1>2, <1>4, <1>5, <1>6, <1>7, <1>8 DEF CallOK
<1> QED BY <1>3, <1>4, <1>5, <1>9, ReadStep

LEMMA ExecuteFreshIInv ==
  ASSUME IInv, NEW c \in Calls, ExecuteFresh(c) PROVE IInv'
<1>1. TypeOK /\ CallOK(c) /\ local[c] \in Local
  BY DEF IInv, TypeOK
<1>2. /\ pc' \in [Calls -> PC] /\ local' \in [Calls -> Local]
      /\ pc[c] = "execute_fresh" /\ pc'[c] = "idle"
      /\ \A d \in Calls \ {c} : pc'[d] = pc[d] /\ local'[d] = local[d]
  BY <1>1, StepFacts, Constants DEF ExecuteFresh, Return, PC
<1>3. PICK a \in Approvals, r \in Resources :
        /\ local[c].row = a /\ local[c].resource = r
        /\ Captured(a, r)
        /\ r \in Hashed => local[c].hash # NoHash
        /\ local[c].reviewer \in Humans
  BY <1>1, <1>2 DEF CallOK, Captured
<1> DEFINE new == [row |-> a, resource |-> r, by |-> local[c].reviewer, hash |-> local[c].hash, at |-> now]
           fresh == Staleness(rows[a].expiresAt, now, snapshot[a], local[c].hash) = "FRESH"
<1>4. executions' = IF fresh THEN {new} ELSE executions
  BY <1>3 DEF ExecuteFresh
<1>5. UNCHANGED <<stored, swept, announced, about, crashes>>
  BY DEF ExecuteFresh
<1>6. new \in Execution
  BY <1>1, <1>3 DEF Execution, Local, TypeOK
<1>7. TypeOK'
  BY <1>1, <1>2, <1>4, <1>5, <1>6 DEF TypeOK, stored
<1>8. RowsKept
  BY <1>5 DEF RowsKept, Exists, stored
<1>9. fresh => ExecutionOK(new)
  <2>1. fresh => /\ ~(rows[a].expiresAt < now)
                 /\ snapshot[a] # NoHash /\ local[c].hash # NoHash => snapshot[a] = local[c].hash
    BY DEF Staleness, Overdue
  <2>2. rows[a].expiresAt \in Int /\ now \in Int
    BY <1>1, BoundsAssumption DEF TypeOK, Row
  <2>3. fresh => now <= rows[a].expiresAt
    BY <2>1, <2>2
  <2>4. fresh => (r \in Hashed => local[c].hash = about[a])
    BY <1>3, <2>1 DEF Captured
  <2> QED BY <1>3, <2>3, <2>4 DEF ExecutionOK, Captured
<1>10. \A e \in executions' : ExecutionOK(e)
  BY <1>4, <1>9 DEF IInv
<1>11. \A e \in executions' : ExecutionOK(e)'
  <2> TAKE e \in executions'
  <2>1. ExecutionOK(e)
    BY <1>10
  <2> QED BY <1>5, <2>1 DEF ExecutionOK, Exists, stored
<1>12. \A d \in Calls : CallOK(d)'
  <2>1. CallOK(c)'
    BY <1>2 DEF CallOK
  <2> QED BY <1>2, <1>8, <2>1, CallKept DEF IInv
<1>13. ApprovedByHuman' /\ BoundCaptured'
  BY <1>5, <1>8, BoundKept DEF IInv, ApprovedByHuman, stored
<1> QED BY <1>7, <1>11, <1>12, <1>13 DEF IInv

-----------------------------------------------------------------------------
(* The environment: no row, binding or history changes.                    *)
LEMMA EnvironmentIInv ==
  ASSUME IInv, \/ \E r \in Resources : EditResource(r)
               \/ Tick
               \/ Crash
               \/ UNCHANGED vars
  PROVE  IInv'
<1> USE DEF stored, history, inFlight
<1>1. UNCHANGED <<rows, snapshot, bound, history>>
  BY DEF EditResource, Tick, Crash, vars
<1>2. TypeOK'
  <2>1. CASE \E r \in Resources : EditResource(r)
    BY <2>1, BoundsAssumption DEF EditResource, IInv, TypeOK, Versions
  <2>2. CASE Tick
    BY <2>2, BoundsAssumption DEF Tick, IInv, TypeOK
  <2>3. CASE Crash
    BY <2>3, BoundsAssumption, Constants DEF Crash, IInv, TypeOK, PC
  <2>4. CASE UNCHANGED vars
    BY <2>4 DEF vars, IInv, TypeOK
  <2> QED BY <2>1, <2>2, <2>3, <2>4
<1>3. RowsKept
  BY <1>1 DEF RowsKept, Exists
<1>4. \A d \in Calls : CallOK(d)'
  <2>1. CASE Crash
    <3>1. \A d \in Calls : pc'[d] = "idle"
      BY <2>1 DEF Crash
    <3> QED BY <3>1 DEF CallOK
  <2>2. CASE UNCHANGED <<pc, local>>
    BY <1>3, <2>2, CallKept DEF IInv
  <2> QED BY <2>1, <2>2 DEF EditResource, Tick, vars
<1>5. ApprovedByHuman' /\ BoundCaptured' /\ \A e \in executions' : ExecutionOK(e)'
  BY <1>1, <1>3, BoundKept, ExecutionsKept DEF IInv, ApprovedByHuman
<1> QED BY <1>2, <1>4, <1>5 DEF IInv

LEMMA NextIInv == IInv /\ [Next]_vars => IInv'
<1> SUFFICES ASSUME IInv, [Next]_vars PROVE IInv'
  OBVIOUS
<1>1. ASSUME NEW c \in Calls, Begin(c) PROVE IInv'
  BY <1>1, RequestReadIInv, ExecuteReadIInv, DecideReadIInv, RequeueReadIInv, SweepListIInv DEF Begin
<1>2. ASSUME NEW c \in Calls, Continue(c) PROVE IInv'
  BY <1>2, RequestCreateIInv, RequestSnapshotIInv, RequestAttachIInv, DecideWriteIInv, DecidePublishIInv,
     SweepExpireIInv, RequeueWriteIInv, ExecuteApprovalIInv, ExecuteFreshIInv
  DEF Continue
<1>3. ASSUME (\E r \in Resources : EditResource(r)) \/ Tick \/ Crash \/ UNCHANGED vars PROVE IInv'
  BY <1>3, EnvironmentIInv
<1> QED BY <1>1, <1>2, <1>3 DEF Next

LEMMA Invariance == Spec => []IInv
BY InitIInv, NextIInv, PTL DEF Spec

-----------------------------------------------------------------------------
(* Every reachable state is well typed.                                    *)
THEOREM TypeCorrectness == Spec => []TypeOK
<1>1. IInv => TypeOK
  BY DEF IInv
<1> QED BY <1>1, Invariance, PTL

(* For any number of racing calls and any crashes: what passes the checks  *)
(* of an EXECUTE step was approved by a human, for that very resource.     *)
THEOREM HumanApproval == Spec => []ExecutionsAreHumanApproved
<1>1. IInv => ExecutionsAreHumanApproved
  BY DEF IInv, ExecutionsAreHumanApproved, ExecutionOK
<1> QED BY <1>1, Invariance, PTL

(* And it is the content the approval was requested for, in time, although *)
(* row, snapshot and binding are three writes with awaits in between.      *)
THEOREM RequestMatch == Spec => []ExecutionsMatchTheRequest
<1>1. IInv => ExecutionsMatchTheRequest
  BY DEF IInv, ExecutionsMatchTheRequest, ExecutionOK
<1> QED BY <1>1, Invariance, PTL

-----------------------------------------------------------------------------
(* Calls served one at a time. No transaction protects a call from the     *)
(* others, so the promises below need that no two calls overlap: the       *)
(* hypothesis OneAtATime. Crashes are still allowed anywhere.              *)
OneAtATime == \A c, d \in Calls : c = d

(* What a call has checked is still so when it writes.                     *)
StillTrue(c) ==
  LET a == local[c].row IN
  /\ pc[c] = "decide_write" => rows[a].status = "PENDING"
  /\ pc[c] = "decide_publish" => rows[a].status = local[c].decision
  /\ pc[c] = "requeue_write" => rows[a].status = "DEFERRED"
  /\ pc[c] = "sweep" => \A b \in swept[c] : rows[b].status = "PENDING"

SerialInv ==
  /\ IInv
  /\ \A c \in Calls : StillTrue(c)
  /\ AnnouncedDecisionsStand

LEMMA TransitionFacts ==
  /\ \A s \in ApprovalStatus \cup {"ABSENT"} : CanTransition(s, "PENDING") /\ s # "ABSENT" => s = "DEFERRED"
  /\ \A s \in ApprovalStatus, d \in RouteDecision : CanTransition(s, d) => s = "PENDING"
  /\ "PENDING" \notin DecidedStatus /\ "DEFERRED" \notin DecidedStatus /\ "ABSENT" \notin DecidedStatus
  /\ DecidedStatus \subseteq ApprovalStatus
  /\ \A s \in ApprovalStatus : s \in DecidedStatus \/ s = "PENDING" \/ s = "DEFERRED"
BY DEF CanTransition, ApprovalTransitions, ApprovalStatus, RouteDecision, DecidedStatus

(* The only ways the table of rows changes: a row is created after all its *)
(* predecessors, or an undecided row is resolved.                          *)
CreateRow(a) ==
  /\ ~Exists(a) /\ \A b \in 1 .. (a - 1) : Exists(b)
  /\ \E row \in Row : row.status = "PENDING" /\ rows' = [rows EXCEPT ![a] = row]

ResolveRow(a) ==
  /\ rows[a].status \in {"PENDING", "DEFERRED"}
  /\ \E s \in ApprovalStatus, by \in Humans \cup {NoOne, Sweeper} : rows' = Resolved(a, s, by)

LEMMA RowSteps ==
  ASSUME SerialInv, [Next]_vars
  PROVE  \/ rows' = rows
         \/ \E a \in Approvals : CreateRow(a) \/ ResolveRow(a)
<1>1. CASE \E c \in Calls : RequestCreate(c)
  <2> PICK c \in Calls : RequestCreate(c)
    BY <1>1
  <2>1. RequestCreate(c) /\ IInv
    BY DEF SerialInv
  <2>2. TypeOK /\ TypeOK' /\ local[c] \in Local
    BY <2>1, RequestCreateIInv DEF IInv, TypeOK
  <2>3. PICK a \in Approvals :
         /\ ~Exists(a) /\ \A b \in 1 .. (a - 1) : Exists(b)
         /\ rows' = [rows EXCEPT ![a] =
                    [status |-> "PENDING", resource |-> local[c].resource,
                     expiresAt |-> NewExpiry, reviewedBy |-> NoOne]]
    BY <2>1 DEF RequestCreate
  <2>4. [status |-> "PENDING", resource |-> local[c].resource,
         expiresAt |-> NewExpiry, reviewedBy |-> NoOne] \in Row
    BY <2>2, BoundsAssumption, Constants DEF Row, TypeOK, Local, NewExpiry
  <2> QED BY <2>3, <2>4 DEF CreateRow
<1>2. CASE \E c \in Calls : DecideWrite(c)
  <2> PICK c \in Calls : DecideWrite(c)
    BY <1>2
  <2>1. pc[c] = "decide_write" /\ rows' = Resolved(local[c].row, local[c].decision, local[c].reviewer)
    BY DEF DecideWrite, Step
  <2>2. local[c].row \in Approvals /\ local[c].decision \in RouteDecision /\ local[c].reviewer \in Humans
    BY <2>1 DEF SerialInv, IInv, CallOK
  <2>3. rows[local[c].row].status = "PENDING"
    BY <2>1 DEF SerialInv, StillTrue
  <2> QED BY <2>1, <2>2, <2>3, Constants DEF ResolveRow
<1>3. CASE \E c \in Calls : SweepExpire(c)
  <2> PICK c \in Calls : SweepExpire(c)
    BY <1>3
  <2> PICK a \in swept[c] : pc[c] = "sweep" /\ rows' = Resolved(a, "EXPIRED", Sweeper)
    BY DEF SweepExpire, Step
  <2>1. a \in Approvals /\ rows[a].status = "PENDING"
    BY DEF SerialInv, StillTrue, IInv, TypeOK
  <2> QED BY <2>1, Constants DEF ResolveRow
<1>4. CASE \E c \in Calls : RequeueWrite(c)
  <2> PICK c \in Calls : pc[c] = "requeue_write" /\ rows' = Resolved(local[c].row, "PENDING", NoOne)
    BY <1>4 DEF RequeueWrite, Return, Step
  <2>1. local[c].row \in Approvals /\ rows[local[c].row].status = "DEFERRED"
    BY DEF SerialInv, StillTrue, IInv, CallOK
  <2> QED BY <2>1, Constants DEF ResolveRow
<1>5. CASE ~ \E c \in Calls : RequestCreate(c) \/ DecideWrite(c) \/ SweepExpire(c) \/ RequeueWrite(c)
  BY <1>5 DEF Next, Begin, Continue, vars, stored, RequestRead, RequestSnapshot, RequestAttach, DecideRead,
     DecidePublish, SweepList, RequeueRead, ExecuteRead, ExecuteApproval, ExecuteFresh, EditResource, Tick, Crash
<1> QED BY <1>1, <1>2, <1>3, <1>4, <1>5

(* A decided row keeps its status over any step of the rows.               *)
LEMMA DecidedKept ==
  ASSUME TypeOK, \/ rows' = rows
                 \/ \E a \in Approvals : CreateRow(a) \/ ResolveRow(a)
  PROVE  \A b \in Approvals : rows[b].status \in DecidedStatus => rows'[b].status = rows[b].status
<1> SUFFICES ASSUME NEW b \in Approvals, rows[b].status \in DecidedStatus PROVE rows'[b].status = rows[b].status
  OBVIOUS
<1>1. CASE rows' = rows
  BY <1>1
<1>2. CASE \E a \in Approvals : CreateRow(a)
  BY <1>2, TransitionFacts DEF CreateRow, Exists, TypeOK
<1>3. CASE \E a \in Approvals : ResolveRow(a)
  BY <1>3, TransitionFacts, ZenonT(60) DEF ResolveRow, Resolved, TypeOK
<1> QED BY <1>1, <1>2, <1>3

(* With one call at a time nothing comes between a check and its write.    *)
LEMMA StillTrueKept ==
  ASSUME OneAtATime, SerialInv, [Next]_vars, NEW c \in Calls
  PROVE  StillTrue(c)'
<1>0. TypeOK /\ CallOK(c) /\ StillTrue(c) /\ local[c] \in Local
  BY DEF SerialInv, IInv, TypeOK
<1> USE DEF StillTrue, Return
<1>1. CASE \E r \in Resources : RequestRead(c, r) \/ ExecuteRead(c, r)
  <2>1. pc'[c] \in {"request_create", "execute_approval"}
    BY <1>0, <1>1 DEF RequestRead, ExecuteRead, Step, TypeOK
  <2> QED BY <2>1
<1>2. CASE \E a \in Approvals, h \in Humans, to \in RouteDecision : DecideRead(c, a, h, to)
  <2> PICK a \in Approvals, h \in Humans, to \in RouteDecision : DecideRead(c, a, h, to)
    BY <1>2
  <2>1. pc'[c] = "decide_write" /\ local'[c].row = a /\ rows' = rows
    BY <1>0 DEF DecideRead, Step, TypeOK, Nothing, stored
  <2>2. rows[a].status = "PENDING"
    BY <1>0, TransitionFacts DEF DecideRead, Exists, TypeOK, Row
  <2> QED BY <2>1, <2>2
<1>3. CASE \E a \in Approvals : RequeueRead(c, a)
  <2> PICK a \in Approvals : RequeueRead(c, a)
    BY <1>3
  <2>1. pc'[c] = "requeue_write" /\ local'[c].row = a /\ rows' = rows
    BY <1>0 DEF RequeueRead, Step, TypeOK, Nothing, stored
  <2>2. rows[a].status = "DEFERRED"
    BY <1>0, TransitionFacts DEF RequeueRead, Exists, TypeOK, Row
  <2> QED BY <2>1, <2>2
<1>4. CASE SweepList(c)
  BY <1>0, <1>4 DEF SweepList, OverdueQueue, Step, TypeOK, stored
<1>5. CASE RequestCreate(c) \/ RequestSnapshot(c) \/ RequestAttach(c)
  <2>1. pc'[c] \in {"request_attach", "request_snapshot", "idle"}
    BY <1>0, <1>5 DEF RequestCreate, RequestSnapshot, RequestAttach, Step, TypeOK
  <2> QED BY <2>1
<1>6. CASE DecideWrite(c)
  <2>1. /\ pc[c] = "decide_write" /\ pc'[c] = "decide_publish" /\ local'[c] = local[c]
        /\ rows' = Resolved(local[c].row, local[c].decision, local[c].reviewer)
    BY <1>0, <1>6 DEF DecideWrite, Step, TypeOK
  <2>2. local[c].row \in Approvals
    BY <1>0, <2>1 DEF CallOK
  <2>3. rows'[local[c].row].status = local[c].decision
    BY <1>0, <2>1, <2>2 DEF Resolved, TypeOK, Row
  <2> QED BY <2>1, <2>3
<1>7. CASE DecidePublish(c) \/ RequeueWrite(c) \/ ExecuteFresh(c) \/ ExecuteApproval(c)
  <2>1. pc'[c] \in {"idle", "execute_fresh"}
    BY <1>0, <1>7 DEF DecidePublish, RequeueWrite, ExecuteFresh, ExecuteApproval, Step, TypeOK
  <2> QED BY <2>1
<1>8. CASE SweepExpire(c)
  <2> PICK a \in swept[c] :
        /\ Step(c, "sweep", IF swept[c] = {a} THEN "idle" ELSE "sweep", Nothing)
        /\ rows' = Resolved(a, "EXPIRED", Sweeper)
        /\ swept' = [swept EXCEPT ![c] = @ \ {a}]
    BY <1>8 DEF SweepExpire
  <2>1. pc[c] = "sweep" /\ pc'[c] \in {"idle", "sweep"}
    BY <1>0 DEF Step, TypeOK
  <2>2. \A b \in swept'[c] : b # a /\ b \in swept[c] /\ b \in Approvals
    BY <1>0 DEF TypeOK
  <2>3. \A b \in swept'[c] : rows'[b].status = "PENDING"
    BY <1>0, <2>1, <2>2 DEF Resolved, TypeOK
  <2> QED BY <2>1, <2>3
<1>9. CASE UNCHANGED <<pc, local, swept, rows>>
  BY <1>0, <1>9
<1>10. CASE Crash
  BY <1>10 DEF Crash
<1> QED BY <1>1, <1>2, <1>3, <1>4, <1>5, <1>6, <1>7, <1>8, <1>9, <1>10
    DEF OneAtATime, Next, Begin, Continue, EditResource, Tick, vars, stored, inFlight

LEMMA AnnouncedKept ==
  ASSUME SerialInv, [Next]_vars
  PROVE  AnnouncedDecisionsStand'
<1>0. TypeOK
  BY DEF SerialInv, IInv
<1>1. \A b \in Approvals : rows[b].status \in DecidedStatus => rows'[b].status = rows[b].status
  BY <1>0, RowSteps, DecidedKept
<1>2. CASE \E c \in Calls : DecidePublish(c)
  <2> PICK c \in Calls : DecidePublish(c)
    BY <1>2
  <2>1. /\ pc[c] = "decide_publish" /\ rows' = rows
        /\ announced' = announced \cup {<<local[c].row, local[c].decision>>}
    BY DEF DecidePublish, Return, Step, stored
  <2>2. rows[local[c].row].status = local[c].decision
    BY <2>1 DEF SerialInv, StillTrue
  <2> QED BY <2>1, <2>2 DEF SerialInv, AnnouncedDecisionsStand
<1>3. CASE announced' = announced
  BY <1>0, <1>1, <1>3 DEF SerialInv, AnnouncedDecisionsStand, TypeOK
<1>4. (\E c \in Calls : DecidePublish(c)) \/ announced' = announced
  BY DEF Next, Begin, Continue, vars, history, RequestRead, RequestCreate, RequestSnapshot, RequestAttach,
     DecideRead, DecideWrite, SweepList, SweepExpire, RequeueRead, RequeueWrite, ExecuteRead, ExecuteApproval,
     ExecuteFresh, EditResource, Tick, Crash
<1> QED BY <1>2, <1>3, <1>4

LEMMA SerialInvariance ==
  ASSUME OneAtATime
  PROVE  Spec => []SerialInv
<1>1. Init => SerialInv
  <2> SUFFICES ASSUME Init PROVE SerialInv
    OBVIOUS
  <2> QED BY InitIInv DEF Init, SerialInv, StillTrue, AnnouncedDecisionsStand
<1>2. SerialInv /\ [Next]_vars => SerialInv'
  BY NextIInv, StillTrueKept, AnnouncedKept DEF SerialInv
<1> QED BY <1>1, <1>2, PTL DEF Spec

-----------------------------------------------------------------------------
(* With calls served one at a time, what was announced stays true.         *)
THEOREM AnnouncementsStand ==
  ASSUME OneAtATime
  PROVE  Spec => []AnnouncedDecisionsStand
<1>1. SerialInv => AnnouncedDecisionsStand
  BY DEF SerialInv
<1> QED BY <1>1, SerialInvariance, PTL

(* With calls served one at a time, a decision is final.                   *)
THEOREM Finality ==
  ASSUME OneAtATime
  PROVE  Spec => DecisionIsFinal
<1>1. SerialInv /\ [Next]_vars =>
        [\A a \in Approvals : rows[a].status \in DecidedStatus => rows'[a].status = rows[a].status]_vars
  BY RowSteps, DecidedKept DEF SerialInv, IInv
<1> QED BY <1>1, SerialInvariance, PTL DEF Spec, DecisionIsFinal

(* With calls served one at a time, the engine implements the ledger: one  *)
(* verdict for each request, never withdrawn.                              *)
THEOREM Refinement ==
  ASSUME OneAtATime
  PROVE  Spec => ImplementsLedger
<1>1. Init => Ledger!Init
  BY TransitionFacts DEF Init, Ledger!Init, LedgerEntry, Exists, Absent, Approvals
<1>2. SerialInv /\ [Next]_vars => [Ledger!Next]_LedgerEntry
  <2> SUFFICES ASSUME SerialInv, [Next]_vars PROVE Ledger!Next \/ LedgerEntry' = LedgerEntry
    OBVIOUS
  <2>0. TypeOK
    BY DEF SerialInv, IInv
  <2>1. CASE rows' = rows
    BY <2>1 DEF LedgerEntry, Exists
  <2>2. ASSUME NEW a \in Approvals, CreateRow(a) PROVE Ledger!Next
    <3>0. \A b \in 1 .. (a - 1) : b \in Approvals
      BY BoundsAssumption DEF Approvals
    <3>a. LedgerEntry[a] = "none"
      BY <2>2, Constants DEF CreateRow, LedgerEntry, Exists, DecidedStatus
    <3>b. \A b \in Approvals : Exists(b) => LedgerEntry[b] # "none"
      BY DEF LedgerEntry, Exists, DecidedStatus, ApprovalStatus
    <3>1. LedgerEntry[a] = "none" /\ \A b \in 1 .. (a - 1) : LedgerEntry[b] # "none"
      BY <2>2, <3>0, <3>a, <3>b DEF CreateRow
    <3>2. LedgerEntry' = [LedgerEntry EXCEPT ![a] = "open"]
      BY <2>0, <2>2, TransitionFacts, ZenonT(60) DEF CreateRow, LedgerEntry, Exists, TypeOK
    <3> QED BY <3>1, <3>2 DEF Ledger!Next, Ledger!Open, Approvals
  <2>3. ASSUME NEW a \in Approvals, ResolveRow(a) PROVE Ledger!Next \/ LedgerEntry' = LedgerEntry
    <3>1. PICK s \in ApprovalStatus, by \in Humans \cup {NoOne, Sweeper} : rows' = Resolved(a, s, by)
      BY <2>3 DEF ResolveRow
    <3>2. rows'[a].status = s /\ \A b \in Approvals \ {a} : rows'[b] = rows[b]
      BY <2>0, <3>1 DEF Resolved, TypeOK, Row
    <3>3. LedgerEntry[a] = "open"
      BY <2>3, TransitionFacts DEF ResolveRow, LedgerEntry, Exists
    <3>4. CASE s \in DecidedStatus
      <4>1. LedgerEntry' = [LedgerEntry EXCEPT ![a] = s]
        BY <3>2, <3>4 DEF LedgerEntry, Exists
      <4> QED BY <3>3, <3>4, <4>1 DEF Ledger!Next, Ledger!Decide, Approvals
    <3>5. CASE s \notin DecidedStatus
      BY <3>2, <3>3, <3>5, Constants DEF LedgerEntry, Exists
    <3> QED BY <3>4, <3>5
  <2> QED BY <2>1, <2>2, <2>3, RowSteps
<1> QED BY <1>1, <1>2, SerialInvariance, PTL DEF Spec, ImplementsLedger, Ledger!Spec
=============================================================================
