---------------------------- MODULE Predictions ----------------------------
(***************************************************************************)
(* What the company expected and what happened: predictions of a metric    *)
(* are recorded ahead, resolved once their period is over, by hand or by   *)
(* the sweep of an operating cycle, and a bad one becomes a lesson; so     *)
(* does a memo the human rejects, and an approved kill pauses the product. *)
(*                                                                         *)
(* A call gives way at every write, and wherever rows are read in one      *)
(* statement and written in the next. A restart ends every call.           *)
(***************************************************************************)
EXTENDS Integers, Sequences, FiniteSets

CONSTANTS
  Calls,                            \* requests that may be in flight
  MaxTime, MaxHistory,              \* bounds: the clock, resolutions and lessons
  Uses                              \* the ways the component is used, one for each behaviour

VARIABLES
  use,           \* [ops, load, crashes, restarts, rows, types, values, memos]: what may be called, how many calls at a time, ...
  db,            \* the tables, see PredictionsInit
  calls,         \* call -> where it is
  resolutions    \* history: [p, value, by, at] for each time a prediction was resolved

vars == <<use, db, calls, resolutions>>

None == -1
Use ==
  [ops : SUBSET STRING, load : Nat, crashes : Nat, restarts : Nat, rows : Nat, types : SUBSET STRING, values : SUBSET (Int \ {None}),
   memos : Seq([action : STRING, decision : {"none"}])]

(* What is assumed of the constants.                                       *)
PredictionsConstants == IsFiniteSet(Calls) /\ MaxTime \in Nat /\ \A u \in Uses : u \in Use /\ u.crashes = u.restarts

Idle == [at |-> "idle", op |-> "none", due |-> {}, p |-> 0, value |-> None, now |-> 0, m |-> 0, o |-> 0]
Begin(op, c) ==
  /\ op \in use.ops /\ calls[c].at = "idle"
  /\ Cardinality({d \in Calls : calls[d].at # "idle"}) < use.load
GoTo(c, call) == calls' = [calls EXCEPT ![c] = call]
Return(c) == GoTo(c, Idle)

(* The rows as they are created.                                           *)
NewPrediction(type, value, now, end) ==
  [type |-> type, value |-> value, made |-> now, end |-> end, observed |-> None, resolved |-> None]
NewMetric(type, value, now) == [type |-> type, value |-> value, at |-> now]
NewMemo(action) == [action |-> action, decision |-> "none"]
NewLesson(p, m) == [prediction |-> p, memo |-> m]
NewExpectation == [actual |-> None, lesson |-> 0]

PredictionsInit ==
  /\ use \in Uses
  /\ db = [now |-> 0, predictions |-> <<>>, metrics |-> <<>>, lessons |-> <<>>, outcomes |-> <<>>,
           memos |-> use.memos, product |-> "LIVE"]
  /\ calls = [c \in Calls |-> Idle]
  /\ resolutions = <<>>

-----------------------------------------------------------------------------
(* predictionOutcomeService.record, and the metrics it is compared with,   *)
(* whatever they say of their own origin.                                  *)

PredictionIsForward(now, end) == end > now

Record(type, value, end) ==
  /\ "record" \in use.ops /\ Len(db.predictions) < use.rows
  /\ PredictionIsForward(db.now, end)
  /\ db' = [db EXCEPT !.predictions = Append(@, NewPrediction(type, value, db.now, end))]
  /\ UNCHANGED <<use, calls, resolutions>>

RecordMetric(type, value) ==
  /\ "metric" \in use.ops /\ Len(db.metrics) < use.rows
  /\ db' = [db EXCEPT !.metrics = Append(@, NewMetric(type, value, db.now))]
  /\ UNCHANGED <<use, calls, resolutions>>

Tick == db.now < MaxTime /\ db' = [db EXCEPT !.now = @ + 1] /\ UNCHANGED <<use, calls, resolutions>>

-----------------------------------------------------------------------------
(* predictionOutcomeService.resolveAllDue: what is due is listed once, in  *)
(* whatever order the database returns it, and each row is then resolved   *)
(* with the first metric of its type that was recorded when its period was *)
(* over, or left for another sweep.                                        *)

listUnresolvedPastTarget ==
  {p \in DOMAIN db.predictions : db.predictions[p].observed = None /\ db.predictions[p].end <= db.now}

ResolveAllDue(c) ==
  /\ Begin("sweep", c)
  /\ listUnresolvedPastTarget # {}
  /\ GoTo(c, [Idle EXCEPT !.at = "candidates", !.op = "sweep", !.due = listUnresolvedPastTarget, !.now = db.now])
  /\ UNCHANGED <<use, db, resolutions>>

NextDue(call) ==
  IF call.op = "sweep" /\ call.due # {}
  THEN [Idle EXCEPT !.at = "candidates", !.op = "sweep", !.due = call.due, !.now = call.now] ELSE Idle

(* Mutation of ObservedAfterTarget: the earliest metric of the type will   *)
(* do.                                                                     *)
ObservedAfterTarget_Early(p) ==
  LET all == {i \in DOMAIN db.metrics : db.metrics[i].type = db.predictions[p].type}
  IN  {i \in all : \A j \in all : db.metrics[i].at <= db.metrics[j].at}

ObservedAfterTarget(p) ==
  LET after == {i \in DOMAIN db.metrics : db.metrics[i].type = db.predictions[p].type /\ db.metrics[i].at >= db.predictions[p].end}
  IN  {i \in after : \A j \in after : db.metrics[i].at <= db.metrics[j].at}

SweepCandidates(c) ==
  LET call == calls[c]
  IN  /\ call.at = "candidates"
      /\ \E p \in call.due :
           LET rest == [call EXCEPT !.due = @ \ {p}]
           IN  \/ ObservedAfterTarget(p) = {} /\ GoTo(c, NextDue(rest))
               \/ \E i \in ObservedAfterTarget(p) :
                    GoTo(c, [rest EXCEPT !.at = "resolve", !.p = p, !.value = db.metrics[i].value])
      /\ UNCHANGED <<use, db, resolutions>>

(* predictionOutcomeService.resolve, for the sweep or by hand: a row that  *)
(* was resolved before is resolved again.                                  *)

Resolve(c, p, value) ==
  /\ Begin("resolve", c)
  /\ GoTo(c, [Idle EXCEPT !.at = "resolve", !.op = "resolve", !.p = p, !.value = value, !.now = db.now])
  /\ UNCHANGED <<use, db, resolutions>>

ResolutionIsPremature(end, now) == now < end

ResolveRead(c) ==
  LET call == calls[c]
  IN  /\ call.at = "resolve"
      /\ IF ResolutionIsPremature(db.predictions[call.p].end, call.now)
         THEN Return(c) ELSE GoTo(c, [call EXCEPT !.at = "resolveWrite"])
      /\ UNCHANGED <<use, db, resolutions>>

(* The relative error, which a predicted zero leaves undefined, is more    *)
(* than a quarter.                                                         *)
Distance(x, y) == IF x >= y THEN x - y ELSE y - x
ShouldGenerateLearningRecord(predicted, observed) ==
  predicted # 0 /\ 4 * Distance(observed, predicted) > Distance(predicted, 0)

(* Mutation of ResolveWrite: a lesson is drawn only from what fell short.  *)
ResolveWrite_ShortOnly(c) ==
  LET call == calls[c]
  IN  /\ call.at = "resolveWrite" /\ Len(resolutions) < MaxHistory
      /\ db' = [db EXCEPT !.predictions[call.p].observed = call.value, !.predictions[call.p].resolved = call.now]
      /\ resolutions' = Append(resolutions, [p |-> call.p, value |-> call.value, by |-> call.op, at |-> db.now])
      /\ GoTo(c, IF 4 * (db.predictions[call.p].value - call.value) > Distance(db.predictions[call.p].value, 0)
                 THEN [call EXCEPT !.at = "lesson"] ELSE NextDue(call))
      /\ UNCHANGED use

ResolveWrite(c) ==
  LET call == calls[c]
  IN  /\ call.at = "resolveWrite" /\ Len(resolutions) < MaxHistory
      /\ db' = [db EXCEPT !.predictions[call.p].observed = call.value, !.predictions[call.p].resolved = call.now]
      /\ resolutions' = Append(resolutions, [p |-> call.p, value |-> call.value, by |-> call.op, at |-> db.now])
      /\ GoTo(c, IF ShouldGenerateLearningRecord(db.predictions[call.p].value, call.value)
                 THEN [call EXCEPT !.at = "lesson"] ELSE NextDue(call))
      /\ UNCHANGED use

CreateLesson(c) ==
  LET call == calls[c]
  IN  /\ call.at = "lesson"
      /\ db' = [db EXCEPT !.lessons = Append(@, NewLesson(call.p, call.m))]
      /\ GoTo(c, IF call.m # 0 THEN Idle ELSE NextDue(call))
      /\ UNCHANGED <<use, resolutions>>

-----------------------------------------------------------------------------
(* businessReviewMemoService: the human's decision on a memo is recorded   *)
(* once, and an approved kill pauses a live product.                       *)

ACTIONS_THAT_PAUSE_ON_APPROVAL == {"PREPARE_KILL_REVIEW", "KILL"}

DecideMemo(c, m) ==
  /\ Begin("memo", c)
  /\ db.memos[m].decision = "none"
  /\ GoTo(c, [Idle EXCEPT !.at = "memoWrite", !.op = "memo", !.m = m])
  /\ UNCHANGED <<use, db, resolutions>>

RecordHumanDecision(c, decision) ==
  LET call == calls[c]
  IN  /\ call.at = "memoWrite"
      /\ db' = [db EXCEPT !.memos[call.m].decision = decision]
      /\ IF decision = "APPROVE" /\ db.memos[call.m].action \in ACTIONS_THAT_PAUSE_ON_APPROVAL
         THEN GoTo(c, [call EXCEPT !.at = "pauseRead"]) ELSE Return(c)
      /\ UNCHANGED <<use, resolutions>>

PauseRead(c) ==
  /\ calls[c].at = "pauseRead"
  /\ IF db.product = "LIVE" THEN GoTo(c, [calls[c] EXCEPT !.at = "pause"]) ELSE Return(c)
  /\ UNCHANGED <<use, db, resolutions>>

(* productService.setStatus: from LIVE, and from PAUSED to itself not.     *)
Pause(c) ==
  /\ calls[c].at = "pause"
  /\ db' = [db EXCEPT !.product = "PAUSED"]
  /\ Return(c)
  /\ UNCHANGED <<use, resolutions>>

(* learningService.recordFromRejectedMemo.                                 *)
RecordFromRejectedMemo(c, m) ==
  /\ Begin("learn", c) /\ Len(db.lessons) < MaxHistory
  /\ db.memos[m].decision = "REJECT"
  /\ GoTo(c, [Idle EXCEPT !.at = "lesson", !.op = "learn", !.m = m])
  /\ UNCHANGED <<use, db, resolutions>>

-----------------------------------------------------------------------------
(* decisionMemoryService: what a decision was expected to bring, and, once *)
(* only, what it brought and the lesson of it.                             *)

RecordExpectation ==
  /\ "expect" \in use.ops /\ Len(db.outcomes) < use.rows
  /\ db' = [db EXCEPT !.outcomes = Append(@, NewExpectation)]
  /\ UNCHANGED <<use, calls, resolutions>>

EvaluateOutcome(c, o, value) ==
  /\ Begin("evaluate", c)
  /\ db.outcomes[o].actual = None
  /\ GoTo(c, [Idle EXCEPT !.at = "evaluate", !.op = "evaluate", !.o = o, !.value = value])
  /\ UNCHANGED <<use, db, resolutions>>

Evaluate(c, lesson) ==
  /\ calls[c].at = "evaluate"
  /\ db' = [db EXCEPT !.outcomes[calls[c].o] = [actual |-> calls[c].value, lesson |-> lesson]]
  /\ Return(c)
  /\ UNCHANGED <<use, resolutions>>

-----------------------------------------------------------------------------
Restart ==
  /\ use.crashes > 0
  /\ use' = [use EXCEPT !.crashes = @ - 1]
  /\ calls' = [c \in Calls |-> Idle]
  /\ UNCHANGED <<db, resolutions>>

Step(c) ==
  \/ SweepCandidates(c) \/ ResolveRead(c) \/ ResolveWrite(c) \/ CreateLesson(c)
  \/ \E decision \in {"APPROVE", "REQUEST_CHANGES", "REJECT", "DEFER"} : RecordHumanDecision(c, decision)
  \/ PauseRead(c) \/ Pause(c)
  \/ \E lesson \in {0} \cup DOMAIN db.lessons : Evaluate(c, lesson)

Request(c) ==
  \/ ResolveAllDue(c)
  \/ \E p \in DOMAIN db.predictions, value \in use.values : Resolve(c, p, value)
  \/ \E m \in DOMAIN db.memos : DecideMemo(c, m) \/ RecordFromRejectedMemo(c, m)
  \/ \E o \in DOMAIN db.outcomes, value \in use.values : EvaluateOutcome(c, o, value)

PredictionsNext ==
  \/ \E c \in Calls : Step(c) \/ Request(c)
  \/ \E type \in use.types, value \in use.values :
       RecordMetric(type, value) \/ \E end \in 0 .. MaxTime : Record(type, value, end)
  \/ RecordExpectation
  \/ Tick \/ Restart

-----------------------------------------------------------------------------
(* Properties.                                                             *)

PredictionsTypeOK ==
  /\ db.now \in 0 .. MaxTime /\ db.product \in {"LIVE", "PAUSED"}
  /\ \A p \in DOMAIN db.predictions :
       db.predictions[p].observed \in use.values \cup {None} /\ db.predictions[p].resolved \in (0 .. MaxTime) \cup {None}
  /\ \A l \in DOMAIN db.lessons :
       db.lessons[l].prediction \in {0} \cup DOMAIN db.predictions /\ db.lessons[l].memo \in {0} \cup DOMAIN db.memos
  /\ \A o \in DOMAIN db.outcomes : db.outcomes[o].lesson \in {0} \cup DOMAIN db.lessons

(* Nothing is learnt from the future: a prediction was made before its     *)
(* period was over and resolved when it was, and the sweep resolves it     *)
(* with a metric of its type that was recorded in between.                 *)
PredictionsAreNotBackdated ==
  /\ \A p \in DOMAIN db.predictions : db.predictions[p].made < db.predictions[p].end
  /\ \A i \in DOMAIN resolutions :
       LET prediction == db.predictions[resolutions[i].p]
       IN  /\ prediction.end <= resolutions[i].at
           /\ resolutions[i].by = "sweep" =>
                \E k \in DOMAIN db.metrics :
                  /\ db.metrics[k].type = prediction.type /\ db.metrics[k].value = resolutions[i].value
                  /\ prediction.end <= db.metrics[k].at /\ db.metrics[k].at <= resolutions[i].at

(* Every resolution that was off by more than a quarter has its lesson,    *)
(* and only those, unless a restart lost it; sweeps made one after the     *)
(* other resolve a prediction once.                                        *)
BadPredictionsAreLessons ==
  LET off == {i \in DOMAIN resolutions :
                ShouldGenerateLearningRecord(db.predictions[resolutions[i].p].value, resolutions[i].value)}
      lessons(p) == {l \in DOMAIN db.lessons : db.lessons[l].prediction = p}
      coming(p) == {c \in Calls : calls[c].at = "lesson" /\ calls[c].m = 0 /\ calls[c].p = p}
  IN  /\ use.restarts = use.crashes =>
           \A p \in DOMAIN db.predictions :
             Cardinality(lessons(p)) + Cardinality(coming(p)) = Cardinality({i \in off : resolutions[i].p = p})
      /\ use.load = 1 =>
           \A i, j \in DOMAIN resolutions :
             resolutions[i].p = resolutions[j].p /\ resolutions[j].by = "sweep" => i >= j

(* A decision the human took on a memo holds and has its effect: of calls  *)
(* made one after the other, in a process that is not restarted, an        *)
(* approved kill leaves the product paused; a product is paused only by    *)
(* one, and a lesson of a memo was drawn from one the human rejected.      *)
MemoDecisionsTakeEffect ==
  LET killed == {m \in DOMAIN db.memos : db.memos[m].decision = "APPROVE" /\ db.memos[m].action \in ACTIONS_THAT_PAUSE_ON_APPROVAL}
  IN  /\ use.restarts = use.crashes /\ killed # {} =>
           db.product = "PAUSED" \/ \E c \in Calls : calls[c].at \in {"pauseRead", "pause"}
      /\ use.load = 1 /\ db.product = "PAUSED" => killed # {}
      /\ use.load = 1 => \A l \in DOMAIN db.lessons : db.lessons[l].memo # 0 => db.memos[db.lessons[l].memo].decision = "REJECT"
=============================================================================
