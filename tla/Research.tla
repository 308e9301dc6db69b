------------------------------ MODULE Research ------------------------------
(***************************************************************************)
(* How a search becomes an opportunity: raw results are ingested as        *)
(* signals and deduplicated, signals are grouped into clusters, a cluster  *)
(* becomes a problem, a problem with enough independent sources becomes an *)
(* opportunity with evidence, score and gaps, and the gaps are queued for  *)
(* the next research cycle.                                                *)
(*                                                                         *)
(* Requests are calls that give way at every write and wherever rows are   *)
(* looked up in one statement and written in the next.                     *)
(***************************************************************************)
EXTENDS Integers, Sequences, FiniteSets

CONSTANTS
  Calls,      \* requests that may be in flight
  RECENT_COMPARISON_WINDOW, MAX_CLUSTERS_TO_COMPARE,   \* signals and clusters a new signal is compared with
  Uses        \* the ways the component is used, one for each behaviour

VARIABLES
  use,        \* [ops, load, starts, crashes, restarts, mishaps, faults, vary, batches, budget, seeded]
  db,         \* the tables, see ResearchInit
  calls,      \* call -> where it is
  given       \* history: [item, call] for each time a cycle was handed a queue item

vars == <<use, db, calls, given>>

SIGNAL_STATUS_TRANSITIONS ==
  [s \in {"NEW", "PROCESSED", "DUPLICATE", "REJECTED", "CLUSTERED"} |->
     CASE s = "NEW"       -> {"PROCESSED", "DUPLICATE", "REJECTED"}
       [] s = "PROCESSED" -> {"CLUSTERED"}
       [] OTHER           -> {}]      \* no operation archives a signal
PROBLEM_STATUS_TRANSITIONS ==
  [s \in {"CANDIDATE", "PROMOTED", "INSUFFICIENT_EVIDENCE"} |-> IF s = "CANDIDATE" THEN {"PROMOTED"} ELSE {}]
RESEARCH_QUEUE_ITEM_STATUS_TRANSITIONS ==
  [s \in {"PENDING", "IN_PROGRESS", "DONE"} |->
     CASE s = "PENDING"     -> {"IN_PROGRESS"}
       [] s = "IN_PROGRESS" -> {"DONE", "PENDING"}
       [] OTHER             -> {}]    \* no operation skips an item
ResearchCycleStatuses == {"SCHEDULED", "RUNNING", "AWAITING_HUMAN", "STOPPED", "COMPLETED"}
MIN_INDEPENDENT_SOURCES_TO_PROMOTE == 2
MAX_QUERIES == 3            \* a plan of the research agent has one to three queries

RawResult == [text : STRING, near : STRING, url : STRING, group : STRING, theme : STRING, source : STRING]
Use ==
  [ops : SUBSET STRING, load : Nat, starts : Nat, crashes : Nat, restarts : Nat, mishaps : Nat, faults : Nat, vary : SUBSET STRING,
   batches : SUBSET Seq(RawResult), budget : [signals : Nat, tools : Nat, models : Nat], seeded : BOOLEAN]

(* What is assumed of the constants.                                       *)
ResearchConstants ==
  /\ {RECENT_COMPARISON_WINDOW, MAX_CLUSTERS_TO_COMPARE} \subseteq Nat \ {0}
  /\ \A u \in Uses : u \in Use /\ u.crashes = u.restarts /\ u.mishaps = u.faults

Idle ==
  [at |-> "idle", op |-> "none", rest |-> <<>>, ids |-> <<>>, verdict |-> "none", cluster |-> 0, count |-> 0, independent |-> 0,
   touched |-> <<>>, problems |-> <<>>, opp |-> 0, cycle |-> 0, item |-> 0, found |-> 0, signals |-> 0, tools |-> 0, models |-> 0,
   opps |-> 0, stopped |-> FALSE]
Begin(op, c) ==
  /\ op \in use.ops /\ calls[c].at = "idle" /\ use.starts > 0
  /\ Cardinality({d \in Calls : calls[d].at # "idle"}) < use.load
  /\ use' = [use EXCEPT !.starts = @ - 1]
GoTo(c, call) == calls' = [calls EXCEPT ![c] = call]
Return(c) == GoTo(c, Idle)

(* The rows as they are created. A raw result is [text, near, url, group,  *)
(* theme, source]: its normalized text, what it nearly repeats, where and  *)
(* in whose thread it was found, and what it is about.                     *)
NewSignal(raw, status) == [raw |-> raw, status |-> status, cluster |-> 0]
NewCluster(theme) == [theme |-> theme, count |-> 0, independent |-> 0]
NewProblem(cluster, status) == [cluster |-> cluster, status |-> status]
NewOpportunity(problem) == [problem |-> problem, evidence |-> {}, scored |-> FALSE, gaps |-> {}]
NewQueueItem(gap) == [gap |-> gap, status |-> "PENDING"]
NewResearchCycle == [status |-> "SCHEDULED", objective |-> 0, signals |-> 0, tools |-> 0, models |-> 0, opps |-> 0]

ResearchInit ==
  /\ use \in Uses
  /\ db = [signals  |-> <<>>, clusters |-> <<>>, problems |-> <<>>, evidence |-> <<>>,
           opps     |-> IF use.seeded THEN <<[NewOpportunity(0) EXCEPT !.scored = TRUE, !.gaps = {1}]>> ELSE <<>>,
           gaps     |-> IF use.seeded THEN 1 ELSE 0,
           items    |-> IF use.seeded THEN <<NewQueueItem(1)>> ELSE <<>>,
           cycles   |-> <<>>]
  /\ calls = [c \in Calls |-> Idle]
  /\ given = {}

-----------------------------------------------------------------------------
(* Signals are collected, by a search of the research agent, by an import  *)
(* and by the validation of a claim, and ingested one after the other.     *)

Found(batch) == \A i \in DOMAIN batch : batch[i].source # "none"

CollectSignals(c, op, batch) ==
  /\ op \in {"collect", "import"}
  /\ Begin(op, c)
  /\ batch \in use.batches /\ (op = "import" \/ Found(batch))
  /\ GoTo(c, [Idle EXCEPT !.op = op, !.at = "dedup", !.rest = batch])
  /\ UNCHANGED <<db, given>>

SearchForClaim(c, opp, batch) ==
  /\ Begin("validate", c)
  /\ batch \in use.batches /\ Found(batch) /\ opp \in DOMAIN db.opps
  /\ GoTo(c, [Idle EXCEPT !.op = "validate", !.at = "dedup", !.rest = batch, !.opp = opp])
  /\ UNCHANGED <<db, given>>

InUse(i) == db.signals[i].status \in {"NEW", "PROCESSED", "CLUSTERED"}
(* The signals of a source that are in use and stored after another one.   *)
Since(i, source) == {j \in DOMAIN db.signals : j > i /\ InUse(j) /\ db.signals[j].raw.source = source}
listRecentComparable(source) == {i \in Since(0, source) : Cardinality(Since(i, source)) < RECENT_COMPARISON_WINDOW}

(* What the lookups say of a result: the first row of any status with its  *)
(* text or its reference, or a recent row in use of its source that it     *)
(* nearly repeats, makes it a duplicate.                                   *)
Verdict(raw) ==
  LET Row(Like(_)) == \E i \in DOMAIN db.signals : Like(db.signals[i])
  IN  CASE raw.text = "empty"                       -> "REJECTED"
        [] Row(LAMBDA s : s.raw.text = raw.text)    -> "DUPLICATE"
        [] raw.url # "none" /\ Row(LAMBDA s : s.raw.url = raw.url) -> "DUPLICATE"
        [] \E i \in listRecentComparable(raw.source) : db.signals[i].raw.near = raw.near -> "DUPLICATE"
        [] OTHER                                    -> "PROCESSED"

(* Mutation of IngestRead: only the text is compared.                      *)
IngestRead_TextOnly(c) ==
  LET call == calls[c]
      raw == Head(call.rest)
  IN  /\ call.at = "dedup" /\ call.rest # <<>> /\ raw.source # "none"
      /\ GoTo(c, [call EXCEPT !.at = "store", !.verdict = IF raw.text = "empty" THEN "REJECTED" ELSE
                    IF \E i \in DOMAIN db.signals : db.signals[i].raw.text = raw.text THEN "DUPLICATE" ELSE "PROCESSED"])
      /\ UNCHANGED <<use, db, given>>

IngestRead(c) ==
  LET call == calls[c]
      raw == Head(call.rest)
  IN  /\ call.at = "dedup" /\ call.rest # <<>> /\ raw.source # "none"
      /\ GoTo(c, [call EXCEPT !.at = "store", !.verdict = Verdict(raw)])
      /\ UNCHANGED <<use, db, given>>

(* An import passes over an item that names no source.                     *)
NameASource(c) ==
  LET call == calls[c]
  IN  /\ call.at = "dedup" /\ call.rest # <<>> /\ Head(call.rest).source = "none"
      /\ GoTo(c, [call EXCEPT !.rest = Tail(@)])
      /\ UNCHANGED <<use, db, given>>

IngestWrite(c) ==
  LET call == calls[c]
      signal == Len(db.signals) + 1
  IN  /\ call.at = "store"
      /\ call.verdict \in SIGNAL_STATUS_TRANSITIONS["NEW"]
      /\ db' = [db EXCEPT !.signals = Append(@, NewSignal(Head(call.rest), call.verdict))]
      /\ GoTo(c, [call EXCEPT !.rest = Tail(@), !.verdict = "none", !.ids = Append(@, signal),
                              !.at = IF call.op = "import" /\ call.verdict = "PROCESSED" THEN "assign" ELSE "dedup"])
      /\ UNCHANGED <<use, given>>

Of(ids, statuses) == SelectSeq(ids, LAMBDA i : db.signals[i].status \in statuses)

(* Everything is stored: the run of the research agent answers its cycle,  *)
(* the validation promotes whatever is no duplicate, others are done.      *)
Collected(c) ==
  LET call == calls[c]
  IN  /\ call.at = "dedup" /\ call.rest = <<>>
      /\ CASE call.op = "cycle"    -> GoTo(c, [call EXCEPT !.at = "place", !.ids = Of(@, {"PROCESSED"}), !.signals = Len(call.ids)])
           [] call.op = "validate" -> GoTo(c, [call EXCEPT !.at = "promote", !.ids = Of(@, {"PROCESSED", "REJECTED"})])
           [] OTHER                -> Return(c)
      /\ UNCHANGED <<use, db, given>>

-----------------------------------------------------------------------------
(* signalClusteringService.assign, for the signal placed last.             *)

Placing(call) == IF call.op = "import" THEN call.ids[Len(call.ids)] ELSE Head(call.ids)

PlaceNext(c) ==
  LET call == calls[c]
  IN  /\ call.at = "place"
      /\ GoTo(c, [call EXCEPT !.at = IF call.ids = <<>> THEN "budget" ELSE "assign"])
      /\ UNCHANGED <<use, db, given>>

(* The clusters compared are the ones updated last, whichever those are.   *)
ListsActive(clusters) ==
  Cardinality(clusters) = IF Len(db.clusters) < MAX_CLUSTERS_TO_COMPARE THEN Len(db.clusters) ELSE MAX_CLUSTERS_TO_COMPARE

(* The most alike of the clusters that are alike enough, or a new one.     *)
AssignRead(c) ==
  LET call == calls[c]
      theme == db.signals[Placing(call)].raw.theme
  IN  /\ call.at = "assign"
      /\ \E listed \in SUBSET DOMAIN db.clusters :
           /\ ListsActive(listed)
           /\ \/ /\ \A k \in listed : db.clusters[k].theme # theme
                 /\ GoTo(c, [call EXCEPT !.at = "open"])
              \/ \E k \in listed :
                   db.clusters[k].theme = theme /\ GoTo(c, [call EXCEPT !.at = "join", !.cluster = k])
      /\ UNCHANGED <<use, db, given>>

CreateCluster(c) ==
  LET call == calls[c]
  IN  /\ call.at = "open"
      /\ db' = [db EXCEPT !.clusters = Append(@, NewCluster(db.signals[Placing(call)].raw.theme))]
      /\ GoTo(c, [call EXCEPT !.at = "join", !.cluster = Len(db.clusters) + 1])
      /\ UNCHANGED <<use, given>>

markClustered(c) ==
  LET call == calls[c]
      signal == Placing(call)
  IN  /\ call.at = "join"
      /\ "CLUSTERED" \in SIGNAL_STATUS_TRANSITIONS[db.signals[signal].status]
      /\ db' = [db EXCEPT !.signals[signal].status = "CLUSTERED", !.signals[signal].cluster = call.cluster]
      /\ GoTo(c, [call EXCEPT !.at = "count"])
      /\ UNCHANGED <<use, given>>

Members(k) == {i \in DOMAIN db.signals : db.signals[i].cluster = k /\ db.signals[i].status = "CLUSTERED"}
(* Signals of one group count once; one without a group stands alone.      *)
Independent(signals) ==
  Cardinality({IF db.signals[i].raw.group = "none" THEN <<"alone", i>> ELSE <<"group", db.signals[i].raw.group>> : i \in signals})

(* Mutation of RecomputeRead: every signal is taken for a source.          *)
RecomputeRead_Signals(c) ==
  LET call == calls[c]
      members == Members(call.cluster)
  IN  /\ call.at = "count"
      /\ GoTo(c, [call EXCEPT !.at = "recount", !.count = Cardinality(members), !.independent = Cardinality(members)])
      /\ UNCHANGED <<use, db, given>>

RecomputeRead(c) ==
  LET call == calls[c]
      members == Members(call.cluster)
  IN  /\ call.at = "count"
      /\ GoTo(c, [call EXCEPT !.at = "recount", !.count = Cardinality(members), !.independent = Independent(members)])
      /\ UNCHANGED <<use, db, given>>

RecomputeWrite(c) ==
  LET call == calls[c]
      k == call.cluster
      seen == \E i \in DOMAIN call.touched : call.touched[i] = k
      on == [call EXCEPT !.cluster = 0, !.count = 0, !.independent = 0]
  IN  /\ call.at = "recount"
      /\ db' = [db EXCEPT !.clusters[k].count = call.count, !.clusters[k].independent = call.independent]
      /\ GoTo(c, IF call.op = "import" THEN [on EXCEPT !.at = "dedup"]
                 ELSE [on EXCEPT !.at = "place", !.ids = Tail(@), !.touched = IF seen THEN @ ELSE Append(@, k)])
      /\ UNCHANGED <<use, given>>

-----------------------------------------------------------------------------
(* researchCycleService.run, from the start to the research agent.         *)

RunCycle(c) ==
  /\ Begin("cycle", c)
  /\ db' = [db EXCEPT !.cycles = Append(@, NewResearchCycle)]
  /\ GoTo(c, [Idle EXCEPT !.op = "cycle", !.at = "authorize", !.cycle = Len(db.cycles) + 1])
  /\ UNCHANGED given

Authorize(c, granted) ==
  LET call == calls[c]
  IN  /\ call.at = "authorize"
      /\ granted \/ "grant" \in use.vary
      /\ IF granted THEN GoTo(c, [call EXCEPT !.at = "next"]) /\ UNCHANGED db
         ELSE db' = [db EXCEPT !.cycles[call.cycle].status = "AWAITING_HUMAN"] /\ Return(c)
      /\ UNCHANGED <<use, given>>

(* The pending item of the highest priority, whichever that is; without    *)
(* one the objective is the caller's.                                      *)
NextItem(c) ==
  LET call == calls[c]
      pending == {i \in DOMAIN db.items : db.items[i].status = "PENDING"}
  IN  /\ call.at = "next"
      /\ IF pending = {} THEN GoTo(c, [call EXCEPT !.at = "begin"])
         ELSE \E i \in pending : GoTo(c, [call EXCEPT !.at = "checkItem", !.item = i])
      /\ UNCHANGED <<use, db, given>>

(* A refused transition throws out of the run and leaves the cycle as it   *)
(* is.                                                                     *)
CheckItem(c, to) ==
  LET call == calls[c]
      legal == to \in RESEARCH_QUEUE_ITEM_STATUS_TRANSITIONS[db.items[call.item].status]
  IN  /\ call.at = (IF to = "DONE" THEN "checkDone" ELSE "checkItem")
      /\ IF legal THEN GoTo(c, [call EXCEPT !.at = IF to = "DONE" THEN "markDone" ELSE "markInProgress"]) ELSE Return(c)
      /\ UNCHANGED <<use, db, given>>

markInProgress(c) ==
  LET call == calls[c]
  IN  /\ call.at = "markInProgress"
      /\ db' = [db EXCEPT !.items[call.item].status = "IN_PROGRESS"]
      /\ given' = given \cup {[item |-> call.item, cycle |-> call.cycle]}
      /\ GoTo(c, [call EXCEPT !.at = "begin"])
      /\ UNCHANGED use

BeginCycle(c) ==
  LET call == calls[c]
  IN  /\ call.at = "begin"
      /\ db' = [db EXCEPT !.cycles[call.cycle].status = "RUNNING", !.cycles[call.cycle].objective = call.item]
      /\ GoTo(c, [call EXCEPT !.at = "search"])
      /\ UNCHANGED <<use, given>>

(* The research agent asks its model for a plan, once more if the answer   *)
(* has the wrong form, and makes one tool call for each query of the plan. *)
Search(c, batch) ==
  LET call == calls[c]
  IN  /\ call.at = "search"
      /\ batch \in use.batches /\ Found(batch)
      /\ \E queries \in 1 .. MAX_QUERIES, asked \in 1 .. 2 :
           /\ "queries" \in use.vary \/ queries + asked = 2
           /\ GoTo(c, [call EXCEPT !.at = "dedup", !.rest = batch, !.tools = queries, !.models = asked])
      /\ UNCHANGED <<use, db, given>>

(* Mutation of withinBudget: the calls of models are not counted.          *)
withinBudget_NoModels(call) == call.signals <= use.budget.signals /\ call.tools <= use.budget.tools

withinBudget(call) ==
  /\ call.signals <= use.budget.signals
  /\ call.tools <= use.budget.tools
  /\ call.models <= use.budget.models

-----------------------------------------------------------------------------
(* The clusters touched become problems, and those that are candidates     *)
(* become opportunities, until the budget or the time is used up.          *)

StopOrGo(c, at, onTime, then) ==
  LET call == calls[c]
      go == withinBudget(call) /\ onTime
  IN  /\ call.at = at
      /\ onTime \/ "slow" \in use.vary
      /\ GoTo(c, IF go THEN [call EXCEPT !.at = then] ELSE [call EXCEPT !.at = "checkDone", !.stopped = TRUE])

AfterSearch(c, onTime) == StopOrGo(c, "budget", onTime, "clusters") /\ UNCHANGED <<use, db, given>>
ToCluster(c, onTime) ==
  /\ calls[c].touched # <<>>
  /\ StopOrGo(c, "clusters", onTime, "extract")
  /\ UNCHANGED <<use, db, given>>
ToProblem(c, onTime) ==
  /\ calls[c].problems # <<>>
  /\ StopOrGo(c, "problems", onTime, "compete")
  /\ UNCHANGED <<use, db, given>>
Through(c) ==
  LET call == calls[c]
  IN  /\ \/ call.at = "clusters" /\ call.touched = <<>> /\ GoTo(c, [call EXCEPT !.at = "problems"])
         \/ call.at = "problems" /\ call.problems = <<>> /\ GoTo(c, [call EXCEPT !.at = "checkDone"])
      /\ UNCHANGED <<use, db, given>>

(* An analyst may ask its model once: a second question, to correct the    *)
(* answer, is past its own budget and fails the run.                       *)
ReadCluster(c) ==
  LET call == calls[c]
  IN  /\ call.at = "extract"
      /\ GoTo(c, [call EXCEPT !.at = "problem", !.independent = db.clusters[Head(call.touched)].independent, !.models = @ + 1])
      /\ UNCHANGED <<use, db, given>>

meetsBar(independent, confident) == independent >= MIN_INDEPENDENT_SOURCES_TO_PROMOTE /\ confident

CreateProblem(c, confident) ==
  LET call == calls[c]
      good == meetsBar(call.independent, confident)
      problem == NewProblem(Head(call.touched), IF good THEN "CANDIDATE" ELSE "INSUFFICIENT_EVIDENCE")
  IN  /\ call.at = "problem"
      /\ confident \/ "confidence" \in use.vary
      /\ db' = [db EXCEPT !.problems = Append(@, problem)]
      /\ GoTo(c, [call EXCEPT !.at = "clusters", !.touched = Tail(@), !.independent = 0,
                              !.problems = IF good THEN Append(@, Len(db.problems) + 1) ELSE @])
      /\ UNCHANGED <<use, given>>

(* The competitor analyst's failure is no matter (an answer of the wrong   *)
(* form counts as one that is not used), the market analyst's ends this    *)
(* problem.                                                                *)
Analyse(c) ==
  LET call == calls[c]
  IN  /\ call.at = "compete"
      /\ GoTo(c, [call EXCEPT !.at = "market", !.tools = @ + 1, !.models = @ + 1])
      /\ UNCHANGED <<use, db, given>>

SetToSeq(S) == [n \in 1 .. Cardinality(S) |-> CHOOSE i \in S : Cardinality({j \in S : j <= i}) = n]

Market(c) ==
  LET call == calls[c]
  IN  /\ call.at = "market"
      /\ GoTo(c, [call EXCEPT !.at = "promote", !.models = @ + 1,
                              !.ids = SetToSeq(Members(db.problems[Head(call.problems)].cluster))])
      /\ UNCHANGED <<use, db, given>>

-----------------------------------------------------------------------------
(* Signals become evidence, each once: looked up, and created if missing.  *)

EvidenceOf(i) == {e \in DOMAIN db.evidence : db.evidence[e] = i}

(* Mutation of FindEvidence: evidence is never reused.                     *)
FindEvidence_Anew(c) ==
  /\ calls[c].at = "promote" /\ calls[c].ids # <<>>
  /\ GoTo(c, [calls[c] EXCEPT !.at = "createEvidence"])
  /\ UNCHANGED <<use, db, given>>

FindEvidence(c) ==
  LET call == calls[c]
      rows == EvidenceOf(Head(call.ids))
  IN  /\ call.at = "promote" /\ call.ids # <<>>
      /\ IF rows = {} THEN GoTo(c, [call EXCEPT !.at = "createEvidence"])
         ELSE \E e \in rows : GoTo(c, [call EXCEPT !.ids = Tail(@), !.rest = Append(@, e)])
      /\ UNCHANGED <<use, db, given>>

CreateEvidence(c) ==
  LET call == calls[c]
  IN  /\ call.at = "createEvidence"
      /\ db' = [db EXCEPT !.evidence = Append(@, Head(call.ids))]
      /\ GoTo(c, [call EXCEPT !.at = IF call.op = "intake" THEN "attach" ELSE "promote",
                              !.ids = Tail(@), !.rest = Append(@, Len(db.evidence) + 1)])
      /\ UNCHANGED <<use, given>>

(* researchIntakeService.intake: an opportunity reported as a whole. Its   *)
(* evidence is collected and attached item by item, then it is scored and  *)
(* an approval is requested.                                               *)
Intake(c) ==
  /\ Begin("intake", c)
  /\ db' = [db EXCEPT !.opps = Append(@, NewOpportunity(0))]
  /\ GoTo(c, [Idle EXCEPT !.op = "intake", !.at = "createEvidence", !.ids = <<0, 0>>, !.opp = Len(db.opps) + 1])
  /\ UNCHANGED given

(* The opportunity is created for the problem, or it was there already.    *)
CreateOpportunity(c) ==
  LET call == calls[c]
  IN  /\ call.at = "promote" /\ call.ids = <<>>
      /\ IF call.op = "validate" THEN UNCHANGED db /\ GoTo(c, [call EXCEPT !.at = "attach"])
         ELSE /\ db' = [db EXCEPT !.opps = Append(@, NewOpportunity(Head(call.problems)))]
              /\ GoTo(c, [call EXCEPT !.at = "attach", !.opp = Len(db.opps) + 1, !.models = @ + 1])
      /\ UNCHANGED <<use, given>>

AttachEvidence(c) ==
  LET call == calls[c]
  IN  /\ call.at = "attach" /\ call.rest # <<>>
      /\ db' = [db EXCEPT !.opps[call.opp].evidence = @ \cup {Head(call.rest)}]
      /\ GoTo(c, [call EXCEPT !.rest = Tail(@), !.at = IF call.ids = <<>> THEN "attach" ELSE "createEvidence"])
      /\ UNCHANGED <<use, given>>

Score(c) ==
  LET call == calls[c]
  IN  /\ call.at = "attach" /\ call.rest = <<>>
      /\ IF call.op = "validate" THEN UNCHANGED db /\ Return(c)
         ELSE /\ db' = [db EXCEPT !.opps[call.opp].scored = TRUE]
              /\ IF call.op = "intake" THEN Return(c) ELSE GoTo(c, [call EXCEPT !.at = "transition"])
      /\ UNCHANGED <<use, given>>

Promote(c) ==
  LET call == calls[c]
      p == Head(call.problems)
  IN  /\ call.at = "transition"
      /\ "PROMOTED" \in PROBLEM_STATUS_TRANSITIONS[db.problems[p].status]
      /\ db' = [db EXCEPT !.problems[p].status = "PROMOTED"]
      /\ GoTo(c, [call EXCEPT !.at = "gap"])
      /\ UNCHANGED <<use, given>>

(* One gap for each assumed dimension; one stands for them all.            *)
AnalyzeGaps(c) ==
  LET call == calls[c]
  IN  /\ call.at = "gap"
      /\ db' = [db EXCEPT !.gaps = @ + 1, !.opps[call.opp].gaps = @ \cup {db.gaps + 1}]
      /\ GoTo(c, [call EXCEPT !.at = "queue", !.opps = @ + 1])
      /\ UNCHANGED <<use, given>>

-----------------------------------------------------------------------------
(* researchQueueService.populateForOpportunity, for the cycle's new        *)
(* opportunity and, from a decision cycle, for one that is there.          *)

Requeue(c, opp) ==
  /\ Begin("requeue", c)
  /\ opp \in {o \in DOMAIN db.opps : db.opps[o].gaps # {}}
  /\ GoTo(c, [Idle EXCEPT !.op = "requeue", !.at = "queue", !.opp = opp])
  /\ UNCHANGED <<db, given>>

Active(gap) == {i \in DOMAIN db.items : db.items[i].gap = gap /\ db.items[i].status \in {"PENDING", "IN_PROGRESS"}}

FindItem(c) ==
  LET call == calls[c]
  IN  /\ call.at = "queue"
      /\ \E gap \in db.opps[call.opp].gaps :
           GoTo(c, [call EXCEPT !.at = "writeItem", !.found = IF Active(gap) = {} THEN gap ELSE 0])
      /\ UNCHANGED <<use, db, given>>

WriteItem(c) ==
  LET call == calls[c]
      on == [call EXCEPT !.at = "problems", !.problems = Tail(@), !.opp = 0, !.found = 0]
  IN  /\ call.at = "writeItem"
      /\ db' = IF call.found = 0 THEN db ELSE [db EXCEPT !.items = Append(@, NewQueueItem(call.found))]
      /\ IF call.op = "requeue" THEN Return(c) ELSE GoTo(c, on)
      /\ UNCHANGED <<use, given>>

-----------------------------------------------------------------------------
(* The end of a cycle.                                                     *)

Undirected(c) ==
  /\ calls[c].at = "checkDone" /\ calls[c].item = 0
  /\ GoTo(c, [calls[c] EXCEPT !.at = "totals"])
  /\ UNCHANGED <<use, db, given>>

CheckDone(c) == calls[c].item # 0 /\ CheckItem(c, "DONE")

(* Mutation of markDone: a cycle that was stopped keeps its item.          *)
markDone_Completed(c) ==
  LET call == calls[c]
  IN  /\ call.at = "markDone"
      /\ db' = IF call.stopped THEN db ELSE [db EXCEPT !.items[call.item].status = "DONE"]
      /\ GoTo(c, [call EXCEPT !.at = "totals"])
      /\ UNCHANGED <<use, given>>

markDone(c) ==
  LET call == calls[c]
  IN  /\ call.at = "markDone"
      /\ db' = [db EXCEPT !.items[call.item].status = "DONE"]
      /\ GoTo(c, [call EXCEPT !.at = "totals"])
      /\ UNCHANGED <<use, given>>

WriteTotals(c) ==
  LET call == calls[c]
      k == call.cycle
  IN  /\ call.at = "totals"
      /\ db' = [db EXCEPT !.cycles[k] = [@ EXCEPT !.signals = call.signals, !.tools = call.tools, !.models = call.models, !.opps = call.opps]]
      /\ GoTo(c, [call EXCEPT !.at = "finish"])
      /\ UNCHANGED <<use, given>>

FinishCycle(c) ==
  LET call == calls[c]
  IN  /\ call.at = "finish"
      /\ db' = [db EXCEPT !.cycles[call.cycle].status = IF call.stopped THEN "STOPPED" ELSE "COMPLETED"]
      /\ Return(c)
      /\ UNCHANGED <<use, given>>

-----------------------------------------------------------------------------
(* An agent's run that fails is recorded and answered, with the calls it   *)
(* made until then: the research agent keeps what it stored and the cycle  *)
(* goes on without it; an analyst's cluster or problem is passed over,     *)
(* whatever it wrote, except for the competitor analyst's.                 *)

Spend == use.faults > 0 /\ use' = [use EXCEPT !.faults = @ - 1]

NextCluster(call) == [call EXCEPT !.at = "clusters", !.touched = Tail(@), !.independent = 0]
NextProblem(call) == [call EXCEPT !.at = "problems", !.problems = Tail(@), !.ids = <<>>, !.rest = <<>>, !.opp = 0]

RunFails(c) ==
  LET call == calls[c]
  IN  /\ Spend
      /\ \/ /\ call.at = "search"
            /\ \E tools \in 0 .. MAX_QUERIES, models \in 0 .. 2 :
                 /\ tools > 0 => models > 0
                 /\ GoTo(c, [call EXCEPT !.at = "budget", !.tools = tools, !.models = models])
         \/ /\ call.at \in {"dedup", "store"} /\ call.op = "cycle"
            /\ GoTo(c, [call EXCEPT !.at = "budget", !.rest = <<>>, !.ids = <<>>, !.verdict = "none"])
         \/ /\ call.at \in {"dedup", "store", "promote", "createEvidence", "attach"} /\ call.op \in {"collect", "validate"}
            /\ Return(c)
         \/ call.at \in {"extract", "problem"} /\ GoTo(c, NextCluster(call))
         \/ /\ call.at = "compete"
            /\ \E tools \in 0 .. 1 : GoTo(c, [call EXCEPT !.at = "market", !.tools = @ + tools])
         \/ /\ call.at = "market" \/ (call.at = "promote" /\ call.op = "cycle" /\ call.ids = <<>>)
            /\ GoTo(c, [NextProblem(call) EXCEPT !.models = @ + 1])
         \/ /\ call.at \in {"market", "promote", "createEvidence", "attach", "transition", "gap"} /\ call.op = "cycle"
            /\ GoTo(c, NextProblem(call))
      /\ UNCHANGED <<db, given>>

(* The item of an import that fails is reported, and the import goes on.   *)
ItemFails(c) ==
  LET call == calls[c]
  IN  /\ Spend
      /\ call.op = "import"
      /\ \/ call.at = "store" /\ GoTo(c, [call EXCEPT !.at = "dedup", !.rest = Tail(@), !.verdict = "none"])
         \/ /\ call.at \in {"assign", "open", "join", "count", "recount"}
            /\ GoTo(c, [call EXCEPT !.at = "dedup", !.cluster = 0, !.count = 0, !.independent = 0])
      /\ UNCHANGED <<db, given>>

(* An agent that may not start, and a write that fails outside the runs,   *)
(* throw out of the cycle.                                                 *)
Throws(c) ==
  /\ Spend
  /\ calls[c].op = "cycle"
  /\ calls[c].at \in {"search", "join", "extract", "compete", "market", "queue"}
  /\ Return(c)
  /\ UNCHANGED <<db, given>>

Restart ==
  /\ use.restarts > 0
  /\ \E c \in Calls : calls[c].at # "idle"
  /\ use' = [use EXCEPT !.restarts = @ - 1]
  /\ calls' = [c \in Calls |-> Idle]
  /\ UNCHANGED <<db, given>>

Step(c) ==
  \/ IngestRead(c) \/ NameASource(c) \/ IngestWrite(c) \/ Collected(c)
  \/ PlaceNext(c) \/ AssignRead(c) \/ CreateCluster(c) \/ markClustered(c) \/ RecomputeRead(c) \/ RecomputeWrite(c)
  \/ \E granted \in BOOLEAN : Authorize(c, granted)
  \/ NextItem(c) \/ CheckItem(c, "IN_PROGRESS") \/ markInProgress(c) \/ BeginCycle(c)
  \/ \E batch \in use.batches : Search(c, batch)
  \/ \E onTime \in BOOLEAN : AfterSearch(c, onTime) \/ ToCluster(c, onTime) \/ ToProblem(c, onTime)
  \/ Through(c) \/ ReadCluster(c) \/ (\E confident \in BOOLEAN : CreateProblem(c, confident)) \/ Analyse(c) \/ Market(c)
  \/ FindEvidence(c) \/ CreateEvidence(c) \/ CreateOpportunity(c) \/ AttachEvidence(c) \/ Score(c) \/ Promote(c) \/ AnalyzeGaps(c)
  \/ FindItem(c) \/ WriteItem(c)
  \/ Undirected(c) \/ CheckDone(c) \/ markDone(c) \/ WriteTotals(c) \/ FinishCycle(c)
  \/ RunFails(c) \/ ItemFails(c) \/ Throws(c)

ResearchNext ==
  \/ \E c \in Calls :
       \/ \E batch \in use.batches, op \in {"collect", "import"} : CollectSignals(c, op, batch)
       \/ \E batch \in use.batches, opp \in DOMAIN db.opps : SearchForClaim(c, opp, batch)
       \/ RunCycle(c)
       \/ Intake(c)
       \/ \E opp \in DOMAIN db.opps : Requeue(c, opp)
       \/ Step(c)
  \/ Restart

-----------------------------------------------------------------------------
(* Properties.                                                             *)

ResearchTypeOK ==
  /\ \A i \in DOMAIN db.signals :
       LET s == db.signals[i]
       IN  /\ s.status \in DOMAIN SIGNAL_STATUS_TRANSITIONS
           /\ (s.status = "CLUSTERED") = (s.cluster \in DOMAIN db.clusters)
  /\ \A p \in DOMAIN db.problems : db.problems[p].status \in DOMAIN PROBLEM_STATUS_TRANSITIONS /\ db.problems[p].cluster \in DOMAIN db.clusters
  /\ \A e \in DOMAIN db.evidence : db.evidence[e] \in {0} \cup DOMAIN db.signals
  /\ \A o \in DOMAIN db.opps : db.opps[o].evidence \subseteq DOMAIN db.evidence /\ db.opps[o].gaps \subseteq 1 .. db.gaps
  /\ \A i \in DOMAIN db.items : db.items[i].gap \in 1 .. db.gaps /\ db.items[i].status \in DOMAIN RESEARCH_QUEUE_ITEM_STATUS_TRANSITIONS
  /\ \A k \in DOMAIN db.cycles : db.cycles[k].status \in ResearchCycleStatuses

Quiet == \A c \in Calls : calls[c].at = "idle"
Unbroken == use.restarts = use.crashes /\ use.faults = use.mishaps

(* A problem is a candidate, and an opportunity is made of it, only if     *)
(* signals of two independent sources are in its cluster; a cluster never  *)
(* claims more sources than it has, whatever joins it at the same time.    *)
ProblemsAreCorroborated ==
  /\ \A k \in DOMAIN db.clusters : db.clusters[k].independent <= Independent(Members(k))
  /\ \A p \in DOMAIN db.problems :
       db.problems[p].status \in {"CANDIDATE", "PROMOTED"} =>
         Independent(Members(db.problems[p].cluster)) >= MIN_INDEPENDENT_SOURCES_TO_PROMOTE
  /\ \A o \in DOMAIN db.opps : (db.opps[o].problem # 0 /\ db.opps[o].gaps # {}) =>
       db.opps[o].scored /\ db.opps[o].evidence # {} /\ db.problems[db.opps[o].problem].status = "PROMOTED"

(* One after the other, no content counts twice: two signals in use differ *)
(* in text and in reference, a signal is used that nearly repeats another  *)
(* of its source only if a whole window of signals came between, and each  *)
(* is promoted to one evidence row at most.                                *)
ContentCountsOnce ==
  use.load = 1 =>
    /\ \A i, j \in DOMAIN db.signals :
         LET a == db.signals[i].raw
             b == db.signals[j].raw
         IN  (i < j /\ InUse(i) /\ InUse(j)) =>
               /\ a.text # b.text /\ (a.url = b.url => a.url = "none")
               /\ (a.source = b.source /\ a.near = b.near) =>
                    Cardinality(Since(i, a.source) \ Since(j - 1, a.source)) >= RECENT_COMPARISON_WINDOW
    /\ \A i \in DOMAIN db.signals : Cardinality(EvidenceOf(i)) <= 1

(* A signal found by an import or a cycle is on its way to a cluster, a    *)
(* queue item that is taken is in the hands of a cycle, a gap has one      *)
(* active item, and when nothing runs no cycle is left half done, unless   *)
(* the process or a run broke down or requests raced.                      *)
NothingIsLeftHalfDone ==
  (use.load = 1 /\ Unbroken) =>
    /\ \A g \in 1 .. db.gaps : Cardinality(Active(g)) <= 1
    /\ Quiet =>
         /\ \A i \in DOMAIN db.items : db.items[i].status # "IN_PROGRESS"
         /\ \A k \in DOMAIN db.cycles : db.cycles[k].status \notin {"SCHEDULED", "RUNNING"}
         /\ \A k \in DOMAIN db.clusters :
              db.clusters[k].independent = Independent(Members(k)) /\ db.clusters[k].count = Cardinality(Members(k))
         /\ use.ops \cap {"collect", "validate"} = {} => \A i \in DOMAIN db.signals : db.signals[i].status # "PROCESSED"
         /\ \A o \in DOMAIN db.opps : db.opps[o].scored /\ (db.opps[o].problem # 0 => db.opps[o].gaps # {})

(* A finished item was handed to a cycle that ran, and to no two of them   *)
(* unless they raced.                                                      *)
ItemsAreResearched ==
  /\ \A i \in DOMAIN db.items : db.items[i].status = "DONE" =>
       \E g \in given : g.item = i /\ db.cycles[g.cycle].objective = i
  /\ use.load = 1 => \A g, h \in given : g.item = h.item => g = h

ResearchIsBackedAndHandedOn ==
  ProblemsAreCorroborated /\ ContentCountsOnce /\ NothingIsLeftHalfDone /\ ItemsAreResearched

(* A cycle stops at its budget: it passes its model calls by no more than  *)
(* the work on one problem, and its tool calls by the one of a problem     *)
(* unless the search it starts with already made more; and a cycle within  *)
(* its budget and its time is not stopped.                                 *)
CyclesKeepTheirResearchBudget ==
  /\ \A c \in Calls : calls[c].op = "cycle" =>
       /\ calls[c].models <= use.budget.models + 3
       /\ calls[c].tools <= use.budget.tools + 1 \/ calls[c].tools <= MAX_QUERIES
  /\ \A k \in DOMAIN db.cycles :
       (db.cycles[k].status = "STOPPED" /\ "slow" \notin use.vary) =>
         ~withinBudget([signals |-> db.cycles[k].signals, tools |-> db.cycles[k].tools, models |-> db.cycles[k].models])
=============================================================================
