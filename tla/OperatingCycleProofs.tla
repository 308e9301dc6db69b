------------------------ MODULE OperatingCycleProofs ------------------------
(***************************************************************************)
(* What holds of the operating cycles for any number of cycles, keys and   *)
(* events. Types, and that a key has one cycle, with every interleaving    *)
(* and every restart. The promises about stages when calls are served one  *)
(* at a time: a call writes what it has read, so that they need that no    *)
(* other call has written in between; the runs that race calls, and the    *)
(* README, say what is left of them otherwise. A call may still be lost in *)
(* the middle, by a restart.                                               *)
(***************************************************************************)
EXTENDS OperatingCycle, FiniteSetTheorems, SequenceTheorems, TLAPS

-----------------------------------------------------------------------------
(* What a call has in hand is well typed where it uses it.                 *)

Row == [status : CycleStatus \cup {"ABSENT"}, stage : CycleStage, of : Cycles \cup {Null}, key : Keys]
Event == [stage : CycleStage, done : BOOLEAN, about : CycleStage \cup {"none"}]
Local ==
  [cycle : Cycles \cup {Null}, stage : CycleStage \cup {"none"}, status : CycleStatus \cup {"none"},
   to : CycleStage \cup Keys, about : CycleStage \cup {"none"}, event : Nat]

Advancing == {"advance_budget", "advance_stop", "advance_find", "advance_complete", "advance_create", "advance_write"}
Targeted  == Advancing \ {"advance_budget"}
Asking    == {"run_recs", "run_ceo", "run_chairman"}
Resuming  == {"human_complete", "human_history", "human_event", "human_write"}

CallOK(c) ==
  LET l == local[c] IN
  /\ pc[c] = "start_row" => l.to \in Keys /\ l.status \in {"RUNNING", "SCHEDULED"}
  /\ pc[c] \notin {"idle", "start_row"} => l.cycle \in Cycles
  /\ pc[c] \in Asking \cup {"advance_read", "advance_budget"} => l.to \in {"none", "EXECUTING"}
  /\ pc[c] \in Asking => l.to = "none" /\ l.about = "DECIDING"
  /\ pc[c] = "advance_read" => l.about \in CycleStage
  /\ pc[c] \in Advancing => l.status = "RUNNING"
  /\ pc[c] \in Advancing \cup {"stop_read", "stop_write", "stop_event", "route_event", "route_write"} =>
       l.stage \in CycleStage
  /\ pc[c] \in Targeted \cup {"human_event", "human_write", "retry_row", "retry_event"} => l.to \in CycleStage
  /\ pc[c] = "status_write" => l.status \in {"PAUSED", "RUNNING", "CANCELLED", "FAILED"}

(* A key is on one row; a row that does not exist has none.                *)
KeysOK ==
  /\ \A k \in Cycles : ~Exists(k) => cycles[k].key = "none"
  /\ \A j, k \in Cycles : cycles[k].key # "none" /\ cycles[j].key = cycles[k].key => j = k

IInv ==
  /\ TypeOK
  /\ \A c \in Calls : CallOK(c)
  /\ KeysOK

-----------------------------------------------------------------------------
(* Stages and statuses.                                                    *)

LEMMA Stages ==
  /\ CycleStage = {"CREATED", "PLANNING", "RESEARCHING", "ANALYZING", "DECIDING", "AWAITING_HUMAN", "EXECUTING",
                   "OBSERVING", "LEARNING", "COMPLETED"}
  /\ DOMAIN CYCLE_STAGES = 1 .. 10 /\ Len(CYCLE_STAGES) = 10
BY DEF CycleStage, CYCLE_STAGES

LEMMA Indices ==
  /\ Index("CREATED") = 1 /\ Index("PLANNING") = 2 /\ Index("RESEARCHING") = 3 /\ Index("ANALYZING") = 4
  /\ Index("DECIDING") = 5 /\ Index("AWAITING_HUMAN") = 6 /\ Index("EXECUTING") = 7 /\ Index("OBSERVING") = 8
  /\ Index("LEARNING") = 9 /\ Index("COMPLETED") = 10
BY Stages DEF Index, CYCLE_STAGES

LEMMA IndexFacts ==
  /\ \A s \in CycleStage : Index(s) \in 1 .. 10 /\ CYCLE_STAGES[Index(s)] = s
  /\ \A i \in 1 .. 10 : CYCLE_STAGES[i] \in CycleStage /\ Index(CYCLE_STAGES[i]) = i
BY Stages, Indices DEF CYCLE_STAGES

LEMMA AdjacentFacts ==
  \A s \in CycleStage :
    /\ s # "COMPLETED" => Adjacent(s) \in CycleStage /\ Index(Adjacent(s)) = Index(s) + 1
    /\ s = "COMPLETED" => Adjacent(s) = "none"
BY Stages, Indices, IndexFacts DEF Adjacent

LEMMA StageTransitions ==
  \A s \in CycleStage :
    /\ CYCLE_STAGE_TRANSITIONS[s] \subseteq CycleStage
    /\ "AWAITING_HUMAN" \in CYCLE_STAGE_TRANSITIONS[s] => s \in {"CREATED", "PLANNING", "RESEARCHING", "ANALYZING", "DECIDING", "EXECUTING"}
    /\ "EXECUTING" \in CYCLE_STAGE_TRANSITIONS[s] => s \in {"DECIDING", "AWAITING_HUMAN"}
BY Stages, AdjacentFacts, Indices DEF CYCLE_STAGE_TRANSITIONS

LEMMA StatusTransitions ==
  /\ \A s \in CycleStatus : CYCLE_STATUS_TRANSITIONS[s] \subseteq CycleStatus
  /\ \A s \in Ended : CYCLE_STATUS_TRANSITIONS[s] = {}
  /\ \A s \in CycleStatus : "AWAITING_HUMAN" \in CYCLE_STATUS_TRANSITIONS[s] => s \in {"SCHEDULED", "RUNNING"}
BY DEF CycleStatus, Ended, CYCLE_STATUS_TRANSITIONS

(* The maximum of a nonempty finite set of numbers is one of them: of the  *)
(* sets above(i) the one of the maximum is minimal.                        *)
LEMMA MaxFacts ==
  ASSUME NEW n \in Nat, NEW S \in SUBSET (1 .. n), S # {}
  PROVE  Max(S) \in S /\ \A i \in S : i <= Max(S)
<1> DEFINE above(i) == (i + 1) .. n
           T == {above(i) : i \in S}
<1>1. IsFiniteSet(1 .. n)
  BY FS_Interval
<1>2. FiniteSubsetsOf(1 .. n) = SUBSET (1 .. n)
  BY <1>1, FS_FiniteSubsetsOfFinite
<1>3. IsWellFoundedOn(StrictSubsetOrdering(1 .. n), SUBSET (1 .. n))
  BY <1>2, FS_StrictSubsetOrderingWellFounded
<1>4. T \subseteq SUBSET (1 .. n) /\ T # {}
  <2>1. \A i \in S : above(i) \subseteq 1 .. n
    OBVIOUS
  <2>2. \E i \in S : above(i) \in T
    OBVIOUS
  <2> QED BY <2>1, <2>2
<1>5. PICK x \in T : \A y \in T : ~(<<y, x>> \in StrictSubsetOrdering(1 .. n))
  <2> HIDE DEF T
  <2> QED BY <1>3, <1>4, WFMin
<1>6. PICK m \in S : x = above(m)
  BY <1>5
<1>7. \A i \in S : i <= m
  <2> SUFFICES ASSUME NEW i \in S, i > m PROVE FALSE
    OBVIOUS
  <2>1. above(i) \subseteq above(m)
    OBVIOUS
  <2>2. i \in above(m) /\ i \notin above(i)
    OBVIOUS
  <2>3. <<above(i), x>> \in StrictSubsetOrdering(1 .. n)
    BY <1>4, <1>6, <2>1, <2>2 DEF StrictSubsetOrdering
  <2> QED BY <1>5, <2>3
<1>8. \A y \in S : m >= y
  BY <1>7
<1> QED BY <1>8 DEF Max

(* findOpenStageEvent returns an open event of the stage, if there is one. *)
LEMMA FindOpenFacts ==
  ASSUME TypeOK, NEW k \in Cycles, NEW stage
  PROVE  \/ FindOpen(k, stage) = 0 /\ Open(k, stage) = {}
         \/ FindOpen(k, stage) \in Open(k, stage) /\ FindOpen(k, stage) \in DOMAIN events[k]
<1>1. CASE Open(k, stage) = {}
  BY <1>1 DEF FindOpen
<1>2. CASE Open(k, stage) # {}
  <2>1. events[k] \in Seq(Event)
    BY DEF TypeOK, Event
  <2>2. Len(events[k]) \in Nat /\ DOMAIN events[k] = 1 .. Len(events[k])
    BY <2>1
  <2>3. Open(k, stage) \in SUBSET (1 .. Len(events[k]))
    BY <2>2 DEF Open
  <2>4. Max(Open(k, stage)) \in Open(k, stage)
    BY <1>2, <2>2, <2>3, MaxFacts
  <2> QED BY <1>2, <2>2, <2>3, <2>4 DEF FindOpen
<1> QED BY <1>1, <1>2

(* The stage to resume at is the one after the furthest that was completed.*)
LEMMA ResumeFacts ==
  ASSUME NEW stages \in SUBSET CycleStage
  PROVE  /\ resolveResumeStage(stages) \in CycleStage
         /\ "COMPLETED" \notin stages =>
              /\ \A s \in stages : Index(s) < Index(resolveResumeStage(stages))
              /\ \/ resolveResumeStage(stages) = "CREATED"
                 \/ \E s \in stages : Index(s) = Index(resolveResumeStage(stages)) - 1
<1> DEFINE indices == {Index(s) : s \in stages}
           furthest == IF stages = {} THEN 0 ELSE Max(indices)
<1>1. stages # {} => indices \in SUBSET (1 .. 10) /\ indices # {}
  BY IndexFacts
<1>2. stages # {} => Max(indices) \in indices /\ \A i \in indices : i <= Max(indices)
  BY <1>1, MaxFacts
<1>3. furthest \in 0 .. 10
  BY <1>1, <1>2
<1>4. resolveResumeStage(stages) = IF furthest < 10 THEN CYCLE_STAGES[furthest + 1] ELSE "COMPLETED"
  BY Stages DEF resolveResumeStage
<1>5. resolveResumeStage(stages) \in CycleStage
  <2> HIDE DEF furthest
  <2> QED BY <1>3, <1>4, Stages, IndexFacts
<1>6. ASSUME "COMPLETED" \notin stages
      PROVE  /\ \A s \in stages : Index(s) < Index(resolveResumeStage(stages))
             /\ \/ resolveResumeStage(stages) = "CREATED"
                \/ \E s \in stages : Index(s) = Index(resolveResumeStage(stages)) - 1
  <2>1. CASE stages = {}
    <3>1. furthest = 0
      BY <2>1
    <3>2. resolveResumeStage(stages) = CYCLE_STAGES[1]
      <4> HIDE DEF furthest
      <4> QED BY <1>4, <3>1
    <3> QED BY <2>1, <3>2 DEF CYCLE_STAGES
  <2>2. CASE stages # {}
    <3>1. PICK s \in stages : Index(s) = furthest
      BY <1>2, <2>2
    <3>2. \A t \in stages : Index(t) <= furthest
      BY <1>2, <2>2
    <3>3. furthest < 10
      <4> HIDE DEF furthest
      <4> QED BY <1>3, <1>6, <3>1, IndexFacts, Stages, Indices
    <3>4. Index(resolveResumeStage(stages)) = furthest + 1
      <4> HIDE DEF furthest
      <4> QED BY <1>3, <1>4, <3>3, IndexFacts
    <3> HIDE DEF furthest
    <3> QED BY <1>3, <3>1, <3>2, <3>4, IndexFacts
  <2> QED BY <2>1, <2>2
<1> QED BY <1>5, <1>6

-----------------------------------------------------------------------------
(* Types and keys, for any number of calls.                                *)

LEMMA Types ==
  TypeOK <=>
    /\ cycles \in [Cycles -> Row] /\ events \in [Cycles -> Seq(Event)] /\ recs \in [Cycles -> Seq({"pending", "decided"})]
    /\ stopped \in BOOLEAN /\ exceeded \in BOOLEAN
    /\ profile \in Profiles /\ crashes \in 0 .. profile.crashes
    /\ DOMAIN pc = Calls /\ local \in [Calls -> Local]
BY DEF TypeOK, Row, Event, Local

LEMMA NothingIsLocal == Nothing \in Local
BY KeysAssumption DEF Nothing, Local, Null

(* A step of a call sets where it is and what it has read.                 *)
LEMMA StepFacts ==
  ASSUME TypeOK, NEW c \in Calls, NEW from, NEW to, NEW read, Step(c, from, to, read)
  PROVE  /\ pc[c] = from /\ (from = "idle" => Free(c))
         /\ DOMAIN pc' = Calls /\ pc'[c] = to
         /\ to # "idle" => local'[c] = read
         /\ to = "idle" => local'[c] = Nothing
         /\ to = "idle" \/ read \in Local => local' \in [Calls -> Local]
         /\ \A d \in Calls \ {c} : pc'[d] = pc[d] /\ local'[d] = local[d]
         /\ UNCHANGED <<crashes, profile>>
<1>1. DOMAIN pc = Calls /\ local \in [Calls -> Local]
  BY Types
<1>2. pc' = [pc EXCEPT ![c] = to] /\ local' = [local EXCEPT ![c] = IF to = "idle" THEN Nothing ELSE read]
  BY DEF Step
<1>3. pc[c] = from /\ (from = "idle" => Free(c))
  BY DEF Step, Free
<1>4. to = "idle" \/ read \in Local => local' \in [Calls -> Local]
  BY <1>1, <1>2, NothingIsLocal
<1> QED BY <1>1, <1>2, <1>3, <1>4 DEF Step

(* The types follow when each table's new value is typed and so is what    *)
(* the call has in hand.                                                   *)
LEMMA StepIInv ==
  ASSUME IInv, NEW c \in Calls, NEW from, NEW to, NEW read, Step(c, from, to, read),
         to = "idle" \/ (read \in Local /\ CallOK(c)'),
         cycles' \in [Cycles -> Row], events' \in [Cycles -> Seq(Event)], recs' \in [Cycles -> Seq({"pending", "decided"})],
         stopped' \in BOOLEAN, exceeded' \in BOOLEAN, KeysOK'
  PROVE  IInv'
<1>1. TypeOK
  BY DEF IInv
<1>2. TypeOK'
  <2>1. (cycles \in [Cycles -> Row] /\ events \in [Cycles -> Seq(Event)] /\ recs \in [Cycles -> Seq({"pending", "decided"})]
         /\ stopped \in BOOLEAN /\ exceeded \in BOOLEAN
         /\ profile \in Profiles /\ crashes \in 0 .. profile.crashes
         /\ DOMAIN pc = Calls /\ local \in [Calls -> Local])'
    BY <1>1, StepFacts, Types
  <2> QED BY <2>1 DEF TypeOK, Row, Event, Local
<1>3. \A d \in Calls \ {c} : CallOK(d)'
  <2> SUFFICES ASSUME NEW d \in Calls \ {c} PROVE CallOK(d)'
    OBVIOUS
  <2> QED BY <1>1, StepFacts DEF IInv, CallOK
<1>4. CallOK(c)'
  BY <1>1, StepFacts DEF CallOK, Advancing, Targeted, Asking
<1> QED BY <1>2, <1>3, <1>4 DEF IInv

(* A step that only reads.                                                 *)
LEMMA ReadIInv ==
  ASSUME IInv, NEW c \in Calls, NEW from, NEW to, NEW read, Step(c, from, to, read), UNCHANGED tables,
         to = "idle" \/ (read \in Local /\ CallOK(c)')
  PROVE  IInv'
<1>0. TypeOK
  BY DEF IInv
<1>1. KeysOK'
  BY DEF IInv, KeysOK, Exists, tables
<1> QED BY <1>0, <1>1, StepIInv, Types DEF tables

(* A write of status, or of stage and status, of the call's cycle.         *)
RowSet(k, stage, status) ==
  \/ cycles' = [cycles EXCEPT ![k] = [@ EXCEPT !.status = status]] /\ stage = cycles[k].stage
  \/ cycles' = [cycles EXCEPT ![k] = [@ EXCEPT !.stage = stage, !.status = status]]

LEMMA RowWritten ==
  ASSUME TypeOK, NEW k \in Cycles, NEW stage \in CycleStage, NEW status \in CycleStatus,
         RowSet(k, stage, status)
  PROVE  /\ cycles' \in [Cycles -> Row]
         /\ cycles'[k].status = status /\ cycles'[k].stage = stage
         /\ cycles'[k].of = cycles[k].of /\ cycles'[k].key = cycles[k].key
         /\ \A j \in Cycles \ {k} : cycles'[j] = cycles[j]
<1>1. cycles \in [Cycles -> Row] /\ cycles[k] \in Row
  BY Types
<1>2. CASE cycles' = [cycles EXCEPT ![k] = [@ EXCEPT !.status = status]] /\ stage = cycles[k].stage
  <2>1. cycles'[k] = [cycles[k] EXCEPT !.status = status] /\ cycles' = [cycles EXCEPT ![k] = cycles'[k]]
    BY <1>1, <1>2
  <2>2. cycles'[k] \in Row
    BY <1>1, <2>1 DEF Row
  <2> QED BY <1>1, <1>2, <2>1, <2>2 DEF Row
<1>3. CASE cycles' = [cycles EXCEPT ![k] = [@ EXCEPT !.stage = stage, !.status = status]]
  <2>1. cycles'[k] = [cycles[k] EXCEPT !.stage = stage, !.status = status] /\ cycles' = [cycles EXCEPT ![k] = cycles'[k]]
    BY <1>1, <1>3
  <2>2. cycles'[k] \in Row
    BY <1>1, <2>1 DEF Row
  <2> QED BY <1>1, <2>1, <2>2 DEF Row
<1> QED BY <1>2, <1>3 DEF RowSet

LEMMA RowWrittenKeys ==
  ASSUME IInv, NEW k \in Cycles, NEW stage \in CycleStage, NEW status \in CycleStatus,
         RowSet(k, stage, status)
  PROVE  KeysOK'
<1>0. TypeOK
  BY DEF IInv
<1>1. /\ cycles'[k].status = status /\ cycles'[k].key = cycles[k].key
      /\ \A j \in Cycles \ {k} : cycles'[j] = cycles[j]
  BY <1>0, RowWritten
<1>2. \A j \in Cycles : cycles'[j].key = cycles[j].key /\ (Exists(j) => Exists(j)')
  BY <1>1 DEF Exists, CycleStatus
<1> QED BY <1>2 DEF IInv, KeysOK

(* An event created, or completed, in the call's cycle.                    *)
EventAdded(k, stage, about) == events' = [events EXCEPT ![k] = Append(@, StageEvent(stage, about))]

EventMarked(k, i, about) ==
  events' = [events EXCEPT ![k] =
               [j \in DOMAIN @ |-> IF j = i THEN [@[j] EXCEPT !.done = TRUE, !.about = about] ELSE @[j]]]

LEMMA EventCreated ==
  ASSUME TypeOK, NEW k \in Cycles, NEW stage \in CycleStage, NEW about \in CycleStage \cup {"none"},
         EventAdded(k, stage, about)
  PROVE  /\ events' \in [Cycles -> Seq(Event)]
         /\ \A j \in Cycles \ {k} : events'[j] = events[j]
         /\ DOMAIN events'[k] = 1 .. (Len(events[k]) + 1) /\ DOMAIN events[k] = 1 .. Len(events[k]) /\ Len(events[k]) \in Nat
         /\ \A i \in DOMAIN events[k] : events'[k][i] = events[k][i]
         /\ events'[k][Len(events[k]) + 1] = [stage |-> stage, done |-> FALSE, about |-> about]
<1>1. events \in [Cycles -> Seq(Event)] /\ events[k] \in Seq(Event)
  BY Types
<1>2. StageEvent(stage, about) \in Event
  BY DEF StageEvent, Event
<1>3. events'[k] = Append(events[k], StageEvent(stage, about)) /\ \A j \in Cycles \ {k} : events'[j] = events[j]
  BY <1>1 DEF EventAdded
<1>4. events'[k] \in Seq(Event)
  BY <1>1, <1>2, <1>3
<1>5. events' \in [Cycles -> Seq(Event)]
  BY <1>1, <1>4 DEF EventAdded
<1> QED BY <1>1, <1>2, <1>3, <1>5 DEF StageEvent

LEMMA EventSeq ==
  ASSUME NEW s \in Seq(Event)
  PROVE  DOMAIN s = 1 .. Len(s) /\ Len(s) \in Nat /\ \A j \in 1 .. Len(s) : s[j] \in Event
BY ElementOfSeq

LEMMA EventCompleted ==
  ASSUME TypeOK, NEW k \in Cycles, NEW i, NEW about, i \in DOMAIN events[k] => about \in CycleStage \cup {"none"},
         EventMarked(k, i, about)
  PROVE  /\ events' \in [Cycles -> Seq(Event)]
         /\ \A j \in Cycles \ {k} : events'[j] = events[j]
         /\ DOMAIN events'[k] = DOMAIN events[k]
         /\ \A j \in DOMAIN events[k] : events'[k][j].stage = events[k][j].stage /\ (j # i => events'[k][j] = events[k][j])
         /\ i \in DOMAIN events[k] => events'[k][i].done /\ events'[k][i].about = about
<1>1. events \in [Cycles -> Seq(Event)] /\ events[k] \in Seq(Event)
  BY Types
<1>2. /\ events'[k] = [j \in DOMAIN events[k] |-> IF j = i THEN [events[k][j] EXCEPT !.done = TRUE, !.about = about] ELSE events[k][j]]
      /\ \A j \in Cycles \ {k} : events'[j] = events[j]
  BY <1>1 DEF EventMarked
<1>3. DOMAIN events[k] = 1 .. Len(events[k]) /\ Len(events[k]) \in Nat
  BY <1>1, EventSeq, Zenon
<1>4. \A j \in 1 .. Len(events[k]) : events[k][j] \in Event
  BY <1>1, EventSeq, Zenon
<1> DEFINE new(j) == IF j = i THEN [events[k][j] EXCEPT !.done = TRUE, !.about = about] ELSE events[k][j]
<1>5. \A j \in 1 .. Len(events[k]) : new(j) \in Event
  BY <1>3, <1>4 DEF Event
<1>6. events'[k] = [j \in 1 .. Len(events[k]) |-> new(j)]
  BY <1>2, <1>3
<1>7. events'[k] \in Seq(Event)
  <2> HIDE DEF new
  <2>1. [j \in 1 .. Len(events[k]) |-> new(j)] \in Seq(Event)
    BY <1>3, <1>5, SeqDef
  <2> QED BY <1>6, <2>1
<1>8. events' \in [Cycles -> Seq(Event)]
  BY <1>1, <1>7 DEF EventMarked
<1>9. \A j \in 1 .. Len(events[k]) :
        /\ new(j).stage = events[k][j].stage
        /\ j = i => new(j).done /\ new(j).about = about
        /\ j # i => new(j) = events[k][j]
  BY <1>4 DEF Event
<1> HIDE DEF new
<1>10. DOMAIN events'[k] = 1 .. Len(events[k]) /\ \A j \in 1 .. Len(events[k]) : events'[k][j] = new(j)
  BY <1>6
<1> QED BY <1>2, <1>3, <1>8, <1>9, <1>10, ZenonT(60)

LEMMA StartReadIInv ==
  ASSUME IInv, NEW c \in Calls, NEW key \in Keys, NEW status \in {"RUNNING", "SCHEDULED"}, StartRead(c, key, status)
  PROVE  IInv'
<1> DEFINE to == IF ~KeyTaken(key) THEN "start_row" ELSE "idle"
           read == [Nothing EXCEPT !.to = key, !.status = status]
<1>0. TypeOK /\ CallOK(c) /\ local[c] \in Local /\ cycles \in [Cycles -> Row]
  BY Types DEF IInv
<1>1. Step(c, "idle", to, read) /\ UNCHANGED tables
  BY DEF StartRead, ReadStep
<1>2. pc[c] = "idle" /\ pc'[c] = to /\ (to # "idle" => local'[c] = read)
  BY <1>0, <1>1, StepFacts
<1>3. to # "idle" => read \in Local
  BY <1>0, <1>2, NothingIsLocal, KeysAssumption DEF Local, CycleStatus
<1>4. to = "idle" \/ CallOK(c)'
  BY <1>0, <1>2, NothingIsLocal DEF Local, CallOK, Advancing, Targeted, Asking, CycleStatus
<1> QED BY <1>1, <1>3, <1>4, ReadIInv

LEMMA AdvanceReadIInv ==
  ASSUME IInv, NEW c \in Calls, NEW from, NEW k \in Cycles, NEW target \in {"none", "EXECUTING"},
         NEW about \in CycleStage \cup {"none"}, AdvanceRead(c, from, k, target, about)
  PROVE  IInv'
<1> DEFINE to == IF cycles[k].status = "RUNNING" THEN "advance_budget" ELSE "idle"
           read == [Nothing EXCEPT !.cycle = k, !.stage = cycles[k].stage, !.status = cycles[k].status,
                                   !.to = target, !.about = about]
<1>0. TypeOK /\ CallOK(c) /\ local[c] \in Local /\ cycles \in [Cycles -> Row]
  BY Types DEF IInv
<1>1. Step(c, from, to, read) /\ UNCHANGED tables
  BY DEF AdvanceRead, ReadStep
<1>2. pc[c] = from /\ pc'[c] = to /\ (to # "idle" => local'[c] = read)
  BY <1>0, <1>1, StepFacts
<1>3. to # "idle" => read \in Local
  BY <1>0, <1>2, Stages, NothingIsLocal, KeysAssumption, ZenonT(60) DEF Local, Row, CycleStatus
<1>4. to = "idle" \/ CallOK(c)'
  BY <1>0, <1>2, NothingIsLocal, ZenonT(60) DEF Local, CallOK, Advancing, Targeted, Asking, Row, CycleStatus
<1> QED BY <1>1, <1>3, <1>4, ReadIInv

(* The stage that advance goes to when the caller names none.              *)
LEMMA NextStageFacts ==
  ASSUME NEW c \in Calls, CallOK(c), pc[c] = "advance_budget"
  PROVE  /\ NextStage(c) \in {"EXECUTING", Adjacent(local[c].stage)}
         /\ NextStage(c) \in CYCLE_STAGE_TRANSITIONS[local[c].stage] =>
              NextStage(c) \in CycleStage /\ Index(NextStage(c)) > Index(local[c].stage)
<1>1. local[c].stage \in CycleStage /\ local[c].to \in {"none", "EXECUTING"}
  BY DEF CallOK, Advancing
<1>2. NextStage(c) \in {"EXECUTING", Adjacent(local[c].stage)}
  BY <1>1 DEF NextStage
<1>3. CASE NextStage(c) = Adjacent(local[c].stage)
  <2>1. CASE local[c].stage = "COMPLETED"
    BY <1>3, <2>1, AdjacentFacts, StageTransitions, Stages
  <2>2. CASE local[c].stage # "COMPLETED"
    BY <1>1, <1>2, <1>3, <2>2, AdjacentFacts, IndexFacts
  <2> QED BY <2>1, <2>2
<1>4. CASE NextStage(c) = "EXECUTING"
  BY <1>1, <1>4, StageTransitions, Indices, Stages
<1> QED BY <1>2, <1>3, <1>4

LEMMA AdvanceWithinIInv ==
  ASSUME IInv, NEW c \in Calls, AdvanceWithin(c, NextStage(c))
  PROVE  IInv'
<1> DEFINE to == IF NextStage(c) \in CYCLE_STAGE_TRANSITIONS[local[c].stage]
                 THEN IF NextStage(c) = "EXECUTING" THEN "advance_stop" ELSE "advance_find"
                 ELSE "idle"
           read == [local[c] EXCEPT !.to = NextStage(c)]
<1>0. TypeOK /\ CallOK(c) /\ local[c] \in Local /\ cycles \in [Cycles -> Row]
  BY Types DEF IInv
<1>1. Step(c, "advance_budget", to, read) /\ UNCHANGED tables
  BY DEF AdvanceWithin, ReadStep
<1>2. pc[c] = "advance_budget" /\ pc'[c] = to /\ (to # "idle" => local'[c] = read)
  BY <1>0, <1>1, StepFacts
<1>3. to # "idle" => read \in Local
  BY <1>0, <1>2, NextStageFacts, NothingIsLocal, KeysAssumption DEF Local
<1>4. to = "idle" \/ CallOK(c)'
  BY <1>0, <1>2, NextStageFacts, NothingIsLocal DEF Local, CallOK, Advancing, Targeted, Asking
<1> QED BY <1>1, <1>3, <1>4, ReadIInv

(* A step that keeps what the call has read, and checks or asks something. *)
LEMMA CheckIInv ==
  ASSUME IInv, NEW c \in Calls, NEW from, NEW to, Step(c, from, to, local[c]), UNCHANGED tables,
         \/ from = "advance_budget" /\ to = "stop_read"
         \/ from = "advance_stop" /\ to = "advance_find"
         \/ from = "stop_read" /\ to = "stop_write"
         \/ from = "run_recs" /\ to = "run_ceo"
         \/ from \in {"run_ceo", "run_chairman"} /\ to = "route_read"
         \/ from = "human_complete" /\ to = "human_history"
         \/ to = "idle"
  PROVE  IInv'
<1>0. TypeOK /\ CallOK(c) /\ local[c] \in Local
  BY Types DEF IInv
<1>1. pc[c] = from /\ pc'[c] = to /\ (to # "idle" => local'[c] = local[c])
  BY <1>0, StepFacts
<1>2. to = "idle" \/ CallOK(c)'
  BY <1>0, <1>1 DEF CallOK, Advancing, Targeted, Asking
<1> QED BY <1>0, <1>2, ReadIInv

LEMMA AdvanceFindIInv ==
  ASSUME IInv, NEW c \in Calls, AdvanceFind(c)
  PROVE  IInv'
<1> DEFINE to == "advance_complete"
           read == [local[c] EXCEPT !.event = FindOpen(local[c].cycle, local[c].stage)]
<1>0. TypeOK /\ CallOK(c) /\ local[c] \in Local /\ cycles \in [Cycles -> Row]
  BY Types DEF IInv
<1>a. local[c].cycle \in Cycles /\ FindOpen(local[c].cycle, local[c].stage) \in Nat
  <2>1. local[c].cycle \in Cycles
    BY <1>0, StepFacts DEF CallOK, AdvanceFind, ReadStep
  <2>2. events[local[c].cycle] \in Seq(Event)
    BY <1>0, <2>1, Types
  <2> QED BY <1>0, <2>1, <2>2, FindOpenFacts, EventSeq
<1>1. Step(c, "advance_find", to, read) /\ UNCHANGED tables
  BY DEF AdvanceFind, ReadStep
<1>2. pc[c] = "advance_find" /\ pc'[c] = to /\ (to # "idle" => local'[c] = read)
  BY <1>0, <1>1, StepFacts
<1>3. to # "idle" => read \in Local
  BY <1>0, <1>2, <1>a, NothingIsLocal, KeysAssumption DEF Local
<1>4. to = "idle" \/ CallOK(c)'
  BY <1>0, <1>2, NothingIsLocal DEF Local, CallOK, Advancing, Targeted, Asking
<1> QED BY <1>1, <1>3, <1>4, ReadIInv

LEMMA RunIInv ==
  ASSUME IInv, NEW c \in Calls, NEW k \in Cycles, Run(c, k)
  PROVE  IInv'
<1> DEFINE to == IF cycles[k].stage = "DECIDING" THEN "run_recs" ELSE "advance_read"
           read == [Nothing EXCEPT !.cycle = k, !.about = cycles[k].stage]
<1>0. TypeOK /\ CallOK(c) /\ local[c] \in Local /\ cycles \in [Cycles -> Row]
  BY Types DEF IInv
<1>1. Step(c, "idle", to, read) /\ UNCHANGED tables
  BY DEF Run, ReadStep
<1>2. pc[c] = "idle" /\ pc'[c] = to /\ (to # "idle" => local'[c] = read)
  BY <1>0, <1>1, StepFacts
<1>3. to # "idle" => read \in Local
  BY <1>0, <1>2, NothingIsLocal, KeysAssumption DEF Local, Row, Nothing
<1>4. to = "idle" \/ CallOK(c)'
  BY <1>0, <1>2, NothingIsLocal, ZenonT(60) DEF Local, CallOK, Advancing, Targeted, Asking, Row, Nothing
<1> QED BY <1>1, <1>3, <1>4, ReadIInv

LEMMA RunRecsIInv ==
  ASSUME IInv, NEW c \in Calls, RunRecs(c)
  PROVE  IInv'
<1> DEFINE read == [local[c] EXCEPT !.to = "EXECUTING"]
<1>0. TypeOK /\ CallOK(c) /\ local[c] \in Local
  BY Types DEF IInv
<1>1. CASE Step(c, "run_recs", "advance_read", read) /\ UNCHANGED tables
  <2>1. pc[c] = "run_recs" /\ pc'[c] = "advance_read" /\ local'[c] = read
    BY <1>0, <1>1, StepFacts
  <2>2. read \in Local
    BY <1>0, Stages DEF Local
  <2>3. CallOK(c)'
    BY <1>0, <2>1, Stages DEF Local, CallOK, Advancing, Targeted, Asking
  <2> QED BY <1>1, <2>2, <2>3, ReadIInv
<1>2. CASE Step(c, "run_recs", "run_ceo", local[c]) /\ UNCHANGED tables
  BY <1>2, CheckIInv
<1> QED BY <1>1, <1>2 DEF RunRecs, ReadStep

LEMMA RunCeoIInv ==
  ASSUME IInv, NEW c \in Calls, RunCeo(c)
  PROVE  IInv'
<1>0. TypeOK /\ CallOK(c) /\ local[c] \in Local
  BY Types DEF IInv
<1>1. CASE Step(c, "run_ceo", "route_read", local[c]) /\ UNCHANGED tables
  BY <1>1, CheckIInv
<1>2. CASE /\ Step(c, "run_ceo", "run_chairman", local[c])
           /\ recs' = [recs EXCEPT ![local[c].cycle] = Append(@, "pending")]
           /\ UNCHANGED <<cycles, events, stopped, exceeded>>
  <2>1. pc[c] = "run_ceo" /\ pc'[c] = "run_chairman" /\ local'[c] = local[c]
    BY <1>0, <1>2, StepFacts
  <2>2. CallOK(c)'
    BY <1>0, <2>1 DEF CallOK, Advancing, Targeted, Asking
  <2>3. recs' \in [Cycles -> Seq({"pending", "decided"})]
    <3>1. local[c].cycle \in Cycles /\ recs \in [Cycles -> Seq({"pending", "decided"})]
      BY <1>0, <2>1, Types DEF CallOK
    <3>2. Append(recs[local[c].cycle], "pending") \in Seq({"pending", "decided"})
      BY <3>1
    <3> QED BY <1>2, <3>1, <3>2
  <2>4. KeysOK'
    BY <1>2 DEF IInv, KeysOK, Exists
  <2> QED BY <1>0, <1>2, <2>2, <2>3, <2>4, StepIInv, Types
<1> QED BY <1>1, <1>2 DEF RunCeo, ReadStep

LEMMA RunChairmanIInv ==
  ASSUME IInv, NEW c \in Calls, RunChairman(c)
  PROVE  IInv'
<1>1. \/ Step(c, "run_chairman", "route_read", local[c])
      \/ Step(c, "run_chairman", "idle", local[c])
  BY DEF RunChairman, ReadStep
<1>2. UNCHANGED tables
  BY DEF RunChairman, ReadStep
<1> QED BY <1>1, <1>2, CheckIInv

LEMMA RouteReadIInv ==
  ASSUME IInv, NEW c \in Calls, NEW from, NEW k \in Cycles, RouteRead(c, from, k)
  PROVE  IInv'
<1> DEFINE to == IF /\ "AWAITING_HUMAN" \in CYCLE_STAGE_TRANSITIONS[cycles[k].stage]
                    /\ "AWAITING_HUMAN" \in CYCLE_STATUS_TRANSITIONS[cycles[k].status]
                 THEN "route_event" ELSE "idle"
           read == [Nothing EXCEPT !.cycle = k, !.stage = cycles[k].stage]
<1>0. TypeOK /\ CallOK(c) /\ local[c] \in Local /\ cycles \in [Cycles -> Row]
  BY Types DEF IInv
<1>1. Step(c, from, to, read) /\ UNCHANGED tables
  BY DEF RouteRead, ReadStep
<1>2. pc[c] = from /\ pc'[c] = to /\ (to # "idle" => local'[c] = read)
  BY <1>0, <1>1, StepFacts
<1>3. to # "idle" => read \in Local
  BY <1>0, <1>2, NothingIsLocal, KeysAssumption DEF Local, Row
<1>4. to = "idle" \/ CallOK(c)'
  BY <1>0, <1>2, NothingIsLocal, ZenonT(60) DEF Local, CallOK, Advancing, Targeted, Asking, Row
<1> QED BY <1>1, <1>3, <1>4, ReadIInv

LEMMA HumanReadIInv ==
  ASSUME IInv, NEW c \in Calls, NEW k \in Cycles, HumanRead(c, k)
  PROVE  IInv'
<1> DEFINE to == IF cycles[k].status = "AWAITING_HUMAN" THEN "human_complete" ELSE "idle"
           read == [Nothing EXCEPT !.cycle = k, !.event = FindOpen(k, "AWAITING_HUMAN")]
<1>0. TypeOK /\ CallOK(c) /\ local[c] \in Local /\ cycles \in [Cycles -> Row]
  BY Types DEF IInv
<1>a. FindOpen(k, "AWAITING_HUMAN") \in Nat
  BY <1>0, FindOpenFacts, EventSeq, Types, SMTT(60)
<1>1. Step(c, "idle", to, read) /\ UNCHANGED tables
  BY DEF HumanRead, ReadStep
<1>2. pc[c] = "idle" /\ pc'[c] = to /\ (to # "idle" => local'[c] = read)
  BY <1>0, <1>1, StepFacts
<1>3. to # "idle" => read \in Local
  BY <1>0, <1>2, <1>a, NothingIsLocal, KeysAssumption DEF Local
<1>4. to = "idle" \/ CallOK(c)'
  BY <1>0, <1>2, NothingIsLocal DEF Local, CallOK, Advancing, Targeted, Asking
<1> QED BY <1>1, <1>3, <1>4, ReadIInv

LEMMA CompletedStages ==
  ASSUME TypeOK, NEW k \in Cycles
  PROVE  completedLinearStages(k) \in SUBSET CycleStage
<1>1. events[k] \in Seq(Event)
  BY Types
<1>2. \A i \in DOMAIN events[k] : events[k][i] \in Event
  BY <1>1, EventSeq
<1> QED BY <1>2 DEF Event, completedLinearStages

LEMMA HumanHistoryIInv ==
  ASSUME IInv, NEW c \in Calls, HumanHistory(c)
  PROVE  IInv'
<1> DEFINE to == IF resolveResumeStage(completedLinearStages(local[c].cycle)) = "EXECUTING" => ~stopped THEN "human_event" ELSE "idle"
           read == [local[c] EXCEPT !.to = resolveResumeStage(completedLinearStages(local[c].cycle))]
<1>0. TypeOK /\ CallOK(c) /\ local[c] \in Local /\ cycles \in [Cycles -> Row]
  BY Types DEF IInv
<1>a. ASSUME pc[c] = "human_history"
      PROVE  resolveResumeStage(completedLinearStages(local[c].cycle)) \in CycleStage
  BY <1>0, <1>a, CompletedStages, ResumeFacts DEF CallOK
<1>1. Step(c, "human_history", to, read) /\ UNCHANGED tables
  BY DEF HumanHistory, ReadStep
<1>2. pc[c] = "human_history" /\ pc'[c] = to /\ (to # "idle" => local'[c] = read)
  BY <1>0, <1>1, StepFacts
<1>3. to # "idle" => read \in Local
  BY <1>0, <1>2, <1>a, NothingIsLocal, KeysAssumption DEF Local
<1>4. to = "idle" \/ CallOK(c)'
  BY <1>0, <1>2, <1>a, NothingIsLocal DEF Local, CallOK, Advancing, Targeted, Asking
<1> QED BY <1>1, <1>3, <1>4, ReadIInv

LEMMA RetryHistoryIInv ==
  ASSUME IInv, NEW c \in Calls, RetryHistory(c)
  PROVE  IInv'
<1> DEFINE to == IF resolveResumeStage(completedLinearStages(local[c].cycle)) = "EXECUTING" => ~stopped THEN "retry_row" ELSE "idle"
           read == [local[c] EXCEPT !.to = resolveResumeStage(completedLinearStages(local[c].cycle))]
<1>0. TypeOK /\ CallOK(c) /\ local[c] \in Local /\ cycles \in [Cycles -> Row]
  BY Types DEF IInv
<1>a. ASSUME pc[c] = "retry_history"
      PROVE  resolveResumeStage(completedLinearStages(local[c].cycle)) \in CycleStage
  BY <1>0, <1>a, CompletedStages, ResumeFacts DEF CallOK
<1>1. Step(c, "retry_history", to, read) /\ UNCHANGED tables
  BY DEF RetryHistory, ReadStep
<1>2. pc[c] = "retry_history" /\ pc'[c] = to /\ (to # "idle" => local'[c] = read)
  BY <1>0, <1>1, StepFacts
<1>3. to # "idle" => read \in Local
  BY <1>0, <1>2, <1>a, NothingIsLocal, KeysAssumption DEF Local
<1>4. to = "idle" \/ CallOK(c)'
  BY <1>0, <1>2, <1>a, NothingIsLocal DEF Local, CallOK, Advancing, Targeted, Asking
<1> QED BY <1>1, <1>3, <1>4, ReadIInv

LEMMA StatusOps == \A op \in DOMAIN StatusOf : StatusOf[op] \in {"PAUSED", "RUNNING", "CANCELLED", "FAILED"}
BY DEF StatusOf

LEMMA StatusReadIInv ==
  ASSUME IInv, NEW c \in Calls, NEW k \in Cycles, NEW op \in DOMAIN StatusOf, StatusRead(c, k, op)
  PROVE  IInv'
<1> DEFINE to == IF StatusOf[op] \in CYCLE_STATUS_TRANSITIONS[cycles[k].status] THEN "status_write" ELSE "idle"
           read == [Nothing EXCEPT !.cycle = k, !.status = StatusOf[op]]
<1>0. TypeOK /\ CallOK(c) /\ local[c] \in Local /\ cycles \in [Cycles -> Row]
  BY Types DEF IInv
<1>1. Step(c, "idle", to, read) /\ UNCHANGED tables
  BY DEF StatusRead, ReadStep
<1>2. pc[c] = "idle" /\ pc'[c] = to /\ (to # "idle" => local'[c] = read)
  BY <1>0, <1>1, StepFacts
<1>3. to # "idle" => read \in Local
  BY <1>0, <1>2, StatusOps, NothingIsLocal, KeysAssumption DEF Local, CycleStatus
<1>4. to = "idle" \/ CallOK(c)'
  BY <1>0, <1>2, StatusOps, NothingIsLocal DEF Local, CallOK, Advancing, Targeted, Asking, CycleStatus
<1> QED BY <1>1, <1>3, <1>4, ReadIInv

LEMMA RetryReadIInv ==
  ASSUME IInv, NEW c \in Calls, NEW k \in Cycles, RetryRead(c, k)
  PROVE  IInv'
<1> DEFINE to == IF cycles[k].status = "FAILED" THEN "retry_history" ELSE "idle"
           read == [Nothing EXCEPT !.cycle = k]
<1>0. TypeOK /\ CallOK(c) /\ local[c] \in Local /\ cycles \in [Cycles -> Row]
  BY Types DEF IInv
<1>1. Step(c, "idle", to, read) /\ UNCHANGED tables
  BY DEF RetryRead, ReadStep
<1>2. pc[c] = "idle" /\ pc'[c] = to /\ (to # "idle" => local'[c] = read)
  BY <1>0, <1>1, StepFacts
<1>3. to # "idle" => read \in Local
  BY <1>0, <1>2, NothingIsLocal, KeysAssumption DEF Local
<1>4. to = "idle" \/ CallOK(c)'
  BY <1>0, <1>2, NothingIsLocal DEF Local, CallOK, Advancing, Targeted, Asking
<1> QED BY <1>1, <1>3, <1>4, ReadIInv

-----------------------------------------------------------------------------
(* Steps that write.                                                       *)

LEMMA RowStepIInv ==
  ASSUME IInv, NEW c \in Calls, NEW from, NEW to, NEW read, Step(c, from, to, read),
         to = "idle" \/ (read \in Local /\ CallOK(c)'),
         NEW k \in Cycles, NEW stage \in CycleStage, NEW status \in CycleStatus, RowSet(k, stage, status),
         UNCHANGED <<events, recs, stopped, exceeded>>
  PROVE  IInv'
<1>0. TypeOK
  BY DEF IInv
<1>1. KeysOK'
  BY RowWrittenKeys
<1>2. cycles' \in [Cycles -> Row]
  BY <1>0, RowWritten
<1> QED BY <1>0, <1>1, <1>2, StepIInv, Types

LEMMA EventStepIInv ==
  ASSUME IInv, NEW c \in Calls, NEW from, NEW to, NEW read, Step(c, from, to, read),
         to = "idle" \/ (read \in Local /\ CallOK(c)'),
         events' \in [Cycles -> Seq(Event)], UNCHANGED <<cycles, recs, stopped, exceeded>>
  PROVE  IInv'
<1>0. TypeOK
  BY DEF IInv
<1>1. KeysOK'
  BY DEF IInv, KeysOK, Exists
<1> QED BY <1>0, <1>1, StepIInv, Types

(* A step of no call: rows and events stay, and so does every call.        *)
LEMMA QuietIInv ==
  ASSUME IInv, recs' \in [Cycles -> Seq({"pending", "decided"})], stopped' \in BOOLEAN, exceeded' \in BOOLEAN,
         UNCHANGED <<cycles, events, pc, local, crashes, profile>>
  PROVE  IInv'
<1>1. TypeOK'
  BY DEF IInv, TypeOK
<1>2. KeysOK' /\ \A c \in Calls : CallOK(c)'
  BY DEF IInv, KeysOK, Exists, CallOK
<1> QED BY <1>1, <1>2 DEF IInv

LEMMA AdvanceWriteIInv ==
  ASSUME IInv, NEW c \in Calls, AdvanceWrite(c)
  PROVE  IInv'
<1> DEFINE k == local[c].cycle
           stage == local[c].to
           status == IF local[c].to = "COMPLETED" THEN "COMPLETED" ELSE local[c].status
<1>0. TypeOK /\ CallOK(c) /\ local[c] \in Local
  BY Types DEF IInv
<1>1. Step(c, "advance_write", "idle", Nothing)
  BY DEF AdvanceWrite
<1>2. pc[c] = "advance_write" /\ pc'[c] = "idle"
  BY <1>0, <1>1, StepFacts
<1>3. k \in Cycles /\ stage \in CycleStage /\ status \in CycleStatus
  BY <1>0, <1>2, Types DEF CallOK, Targeted, Advancing, CycleStatus, Row
<1>4. RowSet(k, stage, status) /\ UNCHANGED <<events, recs, stopped, exceeded>>
  BY DEF AdvanceWrite, WriteStage, RowSet
<1> QED BY <1>1, <1>3, <1>4, RowStepIInv

LEMMA StopWriteIInv ==
  ASSUME IInv, NEW c \in Calls, StopWrite(c)
  PROVE  IInv'
<1> DEFINE k == local[c].cycle
           stage == cycles[k].stage
           status == "STOPPED"
<1>0. TypeOK /\ CallOK(c) /\ local[c] \in Local
  BY Types DEF IInv
<1>1. Step(c, "stop_write", "stop_event", local[c])
  BY DEF StopWrite
<1>2. pc[c] = "stop_write" /\ pc'[c] = "stop_event" /\ local'[c] = local[c]
  BY <1>0, <1>1, StepFacts
<1>3. k \in Cycles /\ stage \in CycleStage /\ status \in CycleStatus
  BY <1>0, <1>2, Types DEF CallOK, Targeted, Advancing, CycleStatus, Row
<1>4. RowSet(k, stage, status) /\ UNCHANGED <<events, recs, stopped, exceeded>>
  BY DEF StopWrite, WriteStatus, RowSet
<1>5. CallOK(c)'
  BY <1>0, <1>2 DEF CallOK, Advancing, Targeted, Asking
<1> QED BY <1>0, <1>1, <1>3, <1>4, <1>5, RowStepIInv

LEMMA RouteWriteIInv ==
  ASSUME IInv, NEW c \in Calls, RouteWrite(c)
  PROVE  IInv'
<1> DEFINE k == local[c].cycle
           stage == "AWAITING_HUMAN"
           status == "AWAITING_HUMAN"
<1>0. TypeOK /\ CallOK(c) /\ local[c] \in Local
  BY Types DEF IInv
<1>1. Step(c, "route_write", "idle", Nothing)
  BY DEF RouteWrite
<1>2. pc[c] = "route_write" /\ pc'[c] = "idle"
  BY <1>0, <1>1, StepFacts
<1>3. k \in Cycles /\ stage \in CycleStage /\ status \in CycleStatus
  BY <1>0, <1>2, Types, Stages DEF CallOK, Targeted, Advancing, CycleStatus, Row
<1>4. RowSet(k, stage, status) /\ UNCHANGED <<events, recs, stopped, exceeded>>
  BY DEF RouteWrite, WriteStage, RowSet
<1> QED BY <1>1, <1>3, <1>4, RowStepIInv

LEMMA HumanWriteIInv ==
  ASSUME IInv, NEW c \in Calls, HumanWrite(c)
  PROVE  IInv'
<1> DEFINE k == local[c].cycle
           stage == local[c].to
           status == IF local[c].to = "COMPLETED" THEN "COMPLETED" ELSE "RUNNING"
<1>0. TypeOK /\ CallOK(c) /\ local[c] \in Local
  BY Types DEF IInv
<1>1. Step(c, "human_write", "idle", Nothing)
  BY DEF HumanWrite
<1>2. pc[c] = "human_write" /\ pc'[c] = "idle"
  BY <1>0, <1>1, StepFacts
<1>3. k \in Cycles /\ stage \in CycleStage /\ status \in CycleStatus
  BY <1>0, <1>2, Types DEF CallOK, Targeted, Advancing, CycleStatus, Row
<1>4. RowSet(k, stage, status) /\ UNCHANGED <<events, recs, stopped, exceeded>>
  BY DEF HumanWrite, WriteStage, RowSet
<1> QED BY <1>1, <1>3, <1>4, RowStepIInv

LEMMA StatusWriteIInv ==
  ASSUME IInv, NEW c \in Calls, StatusWrite(c)
  PROVE  IInv'
<1> DEFINE k == local[c].cycle
           stage == cycles[k].stage
           status == local[c].status
<1>0. TypeOK /\ CallOK(c) /\ local[c] \in Local
  BY Types DEF IInv
<1>1. Step(c, "status_write", "idle", Nothing)
  BY DEF StatusWrite
<1>2. pc[c] = "status_write" /\ pc'[c] = "idle"
  BY <1>0, <1>1, StepFacts
<1>3. k \in Cycles /\ stage \in CycleStage /\ status \in CycleStatus
  BY <1>0, <1>2, Types DEF CallOK, Targeted, Advancing, CycleStatus, Row
<1>4. RowSet(k, stage, status) /\ UNCHANGED <<events, recs, stopped, exceeded>>
  BY DEF StatusWrite, WriteStatus, RowSet
<1> QED BY <1>1, <1>3, <1>4, RowStepIInv

LEMMA StartEventIInv ==
  ASSUME IInv, NEW c \in Calls, StartEvent(c)
  PROVE  IInv'
<1> DEFINE k == local[c].cycle
           stage == "CREATED"
           about == "none"
<1>0. TypeOK /\ CallOK(c) /\ local[c] \in Local
  BY Types DEF IInv
<1>1. Step(c, "start_event", "start_done", [local[c] EXCEPT !.event = Len(events[local[c].cycle]) + 1])
  BY DEF StartEvent
<1>2. pc[c] = "start_event" /\ pc'[c] = "start_done" /\ local'[c] = [local[c] EXCEPT !.event = Len(events[local[c].cycle]) + 1]
  BY <1>0, <1>1, StepFacts
<1>3. k \in Cycles /\ stage \in CycleStage /\ about \in CycleStage \cup {"none"}
  BY <1>0, <1>2, Stages DEF CallOK, Local, Targeted, Advancing
<1>4. EventAdded(k, stage, about) /\ UNCHANGED <<cycles, recs, stopped, exceeded>>
  BY DEF StartEvent, CreateEvent, EventAdded
<1>5. events' \in [Cycles -> Seq(Event)]
  <2> HIDE DEF k, stage, about
  <2> QED BY <1>0, <1>3, <1>4, EventCreated
<1>6. [local[c] EXCEPT !.event = Len(events[local[c].cycle]) + 1] \in Local
  <2>1. events[k] \in Seq(Event)
    BY <1>0, <1>3, Types
  <2>2. Len(events[k]) + 1 \in Nat
    BY <2>1, EventSeq
  <2> QED BY <1>0, <2>2 DEF Local
<1>7. CallOK(c)'
  BY <1>0, <1>2 DEF Local, CallOK, Advancing, Targeted, Asking
<1> QED BY <1>0, <1>1, <1>4, <1>5, <1>6, <1>7, EventStepIInv

LEMMA StartDoneIInv ==
  ASSUME IInv, NEW c \in Calls, StartDone(c)
  PROVE  IInv'
<1> DEFINE k == local[c].cycle
           i == local[c].event
           about == "CREATED"
<1>0. TypeOK /\ CallOK(c) /\ local[c] \in Local
  BY Types DEF IInv
<1>1. Step(c, "start_done", "idle", Nothing)
  BY DEF StartDone
<1>2. pc[c] = "start_done" /\ pc'[c] = "idle"
  BY <1>0, <1>1, StepFacts
<1>3. k \in Cycles /\ about \in CycleStage \cup {"none"}
  BY <1>0, <1>2, Stages DEF CallOK, Local, Targeted, Advancing
<1>4. EventMarked(k, i, about) /\ UNCHANGED <<cycles, recs, stopped, exceeded>>
  BY DEF StartDone, CompleteEvent, EventMarked
<1>5. events' \in [Cycles -> Seq(Event)]
  <2> HIDE DEF k, i, about
  <2> QED BY <1>0, <1>3, <1>4, EventCompleted
<1> QED BY <1>1, <1>4, <1>5, EventStepIInv

LEMMA AdvanceCompleteIInv ==
  ASSUME IInv, NEW c \in Calls, AdvanceComplete(c)
  PROVE  IInv'
<1> DEFINE k == local[c].cycle
           i == local[c].event
           about == local[c].about
<1>0. TypeOK /\ CallOK(c) /\ local[c] \in Local
  BY Types DEF IInv
<1>1. Step(c, "advance_complete", "advance_create", local[c])
  BY DEF AdvanceComplete
<1>2. pc[c] = "advance_complete" /\ pc'[c] = "advance_create" /\ local'[c] = local[c]
  BY <1>0, <1>1, StepFacts
<1>3. k \in Cycles /\ about \in CycleStage \cup {"none"}
  BY <1>0, <1>2, Stages DEF CallOK, Local, Targeted, Advancing
<1>4. EventMarked(k, i, about) /\ UNCHANGED <<cycles, recs, stopped, exceeded>>
  BY DEF AdvanceComplete, CompleteEvent, EventMarked
<1>5. events' \in [Cycles -> Seq(Event)]
  <2> HIDE DEF k, i, about
  <2> QED BY <1>0, <1>3, <1>4, EventCompleted
<1>7. CallOK(c)'
  BY <1>0, <1>2 DEF Local, CallOK, Advancing, Targeted, Asking
<1> QED BY <1>0, <1>1, <1>4, <1>5, <1>7, EventStepIInv

LEMMA AdvanceCreateIInv ==
  ASSUME IInv, NEW c \in Calls, AdvanceCreate(c)
  PROVE  IInv'
<1> DEFINE k == local[c].cycle
           stage == local[c].to
           about == "none"
<1>0. TypeOK /\ CallOK(c) /\ local[c] \in Local
  BY Types DEF IInv
<1>1. Step(c, "advance_create", "advance_write", local[c])
  BY DEF AdvanceCreate
<1>2. pc[c] = "advance_create" /\ pc'[c] = "advance_write" /\ local'[c] = local[c]
  BY <1>0, <1>1, StepFacts
<1>3. k \in Cycles /\ stage \in CycleStage /\ about \in CycleStage \cup {"none"}
  BY <1>0, <1>2, Stages DEF CallOK, Local, Targeted, Advancing
<1>4. EventAdded(k, stage, about) /\ UNCHANGED <<cycles, recs, stopped, exceeded>>
  BY DEF AdvanceCreate, CreateEvent, EventAdded
<1>5. events' \in [Cycles -> Seq(Event)]
  <2> HIDE DEF k, stage, about
  <2> QED BY <1>0, <1>3, <1>4, EventCreated
<1>7. CallOK(c)'
  BY <1>0, <1>2 DEF Local, CallOK, Advancing, Targeted, Asking
<1> QED BY <1>0, <1>1, <1>4, <1>5, <1>7, EventStepIInv

LEMMA RouteEventIInv ==
  ASSUME IInv, NEW c \in Calls, RouteEvent(c)
  PROVE  IInv'
<1> DEFINE k == local[c].cycle
           stage == "AWAITING_HUMAN"
           about == local[c].stage
<1>0. TypeOK /\ CallOK(c) /\ local[c] \in Local
  BY Types DEF IInv
<1>1. Step(c, "route_event", "route_write", local[c])
  BY DEF RouteEvent
<1>2. pc[c] = "route_event" /\ pc'[c] = "route_write" /\ local'[c] = local[c]
  BY <1>0, <1>1, StepFacts
<1>3. k \in Cycles /\ stage \in CycleStage /\ about \in CycleStage \cup {"none"}
  BY <1>0, <1>2, Stages DEF CallOK, Local, Targeted, Advancing
<1>4. EventAdded(k, stage, about) /\ UNCHANGED <<cycles, recs, stopped, exceeded>>
  BY DEF RouteEvent, CreateEvent, EventAdded
<1>5. events' \in [Cycles -> Seq(Event)]
  <2> HIDE DEF k, stage, about
  <2> QED BY <1>0, <1>3, <1>4, EventCreated
<1>7. CallOK(c)'
  BY <1>0, <1>2 DEF Local, CallOK, Advancing, Targeted, Asking
<1> QED BY <1>0, <1>1, <1>4, <1>5, <1>7, EventStepIInv

LEMMA HumanEventIInv ==
  ASSUME IInv, NEW c \in Calls, HumanEvent(c)
  PROVE  IInv'
<1> DEFINE k == local[c].cycle
           stage == local[c].to
           about == "none"
<1>0. TypeOK /\ CallOK(c) /\ local[c] \in Local
  BY Types DEF IInv
<1>1. Step(c, "human_event", "human_write", local[c])
  BY DEF HumanEvent
<1>2. pc[c] = "human_event" /\ pc'[c] = "human_write" /\ local'[c] = local[c]
  BY <1>0, <1>1, StepFacts
<1>3. k \in Cycles /\ stage \in CycleStage /\ about \in CycleStage \cup {"none"}
  BY <1>0, <1>2, Stages DEF CallOK, Local, Targeted, Advancing
<1>4. EventAdded(k, stage, about) /\ UNCHANGED <<cycles, recs, stopped, exceeded>>
  BY DEF HumanEvent, CreateEvent, EventAdded
<1>5. events' \in [Cycles -> Seq(Event)]
  <2> HIDE DEF k, stage, about
  <2> QED BY <1>0, <1>3, <1>4, EventCreated
<1>7. CallOK(c)'
  BY <1>0, <1>2 DEF Local, CallOK, Advancing, Targeted, Asking
<1> QED BY <1>0, <1>1, <1>4, <1>5, <1>7, EventStepIInv

LEMMA RetryEventIInv ==
  ASSUME IInv, NEW c \in Calls, RetryEvent(c)
  PROVE  IInv'
<1> DEFINE k == local[c].cycle
           stage == local[c].to
           about == "none"
<1>0. TypeOK /\ CallOK(c) /\ local[c] \in Local
  BY Types DEF IInv
<1>1. Step(c, "retry_event", "idle", Nothing)
  BY DEF RetryEvent
<1>2. pc[c] = "retry_event" /\ pc'[c] = "idle"
  BY <1>0, <1>1, StepFacts
<1>3. k \in Cycles /\ stage \in CycleStage /\ about \in CycleStage \cup {"none"}
  BY <1>0, <1>2, Stages DEF CallOK, Local, Targeted, Advancing
<1>4. EventAdded(k, stage, about) /\ UNCHANGED <<cycles, recs, stopped, exceeded>>
  BY DEF RetryEvent, CreateEvent, EventAdded
<1>5. events' \in [Cycles -> Seq(Event)]
  <2> HIDE DEF k, stage, about
  <2> QED BY <1>0, <1>3, <1>4, EventCreated
<1> QED BY <1>1, <1>4, <1>5, EventStepIInv

LEMMA StopEventIInv ==
  ASSUME IInv, NEW c \in Calls, StopEvent(c)
  PROVE  IInv'
<1>0. TypeOK /\ CallOK(c) /\ local[c] \in Local
  BY Types DEF IInv
<1>1. CASE Step(c, "stop_event", "idle", Nothing) /\ UNCHANGED tables
  BY <1>1, ReadIInv
<1>2. CASE Step(c, "stop_event", "idle", Nothing) /\ CreateEvent(c, local[c].stage, "none")
  <2>1. pc[c] = "stop_event"
    BY <1>0, <1>2, StepFacts
  <2>2. local[c].cycle \in Cycles /\ local[c].stage \in CycleStage
    BY <1>0, <2>1 DEF CallOK
  <2>3. EventAdded(local[c].cycle, local[c].stage, "none") /\ UNCHANGED <<cycles, recs, stopped, exceeded>>
    BY <1>2 DEF CreateEvent, EventAdded
  <2>4. events' \in [Cycles -> Seq(Event)]
    BY <1>0, <2>2, <2>3, EventCreated
  <2> QED BY <1>2, <2>3, <2>4, EventStepIInv
<1> QED BY <1>1, <1>2 DEF StopEvent, ReadStep

LEMMA HumanCompleteIInv ==
  ASSUME IInv, NEW c \in Calls, HumanComplete(c)
  PROVE  IInv'
<1> DEFINE k == local[c].cycle
           i == local[c].event
           about == events[k][i].about
<1>0. TypeOK /\ CallOK(c) /\ local[c] \in Local
  BY Types DEF IInv
<1>1. Step(c, "human_complete", "human_history", local[c])
  BY DEF HumanComplete
<1>2. pc[c] = "human_complete" /\ pc'[c] = "human_history" /\ local'[c] = local[c]
  BY <1>0, <1>1, StepFacts
<1>3. CASE i = 0
  BY <1>1, <1>3, CheckIInv DEF HumanComplete
<1>4. CASE i # 0
  <2>1. k \in Cycles
    BY <1>0, <1>2 DEF CallOK
  <2>2. i \in DOMAIN events[k] => about \in CycleStage \cup {"none"}
    <3>1. events[k] \in Seq(Event)
      BY <1>0, <2>1, Types
    <3>2. i \in DOMAIN events[k] => events[k][i] \in Event
      BY <3>1, EventSeq
    <3> QED BY <3>2 DEF Event
  <2>3. EventMarked(k, i, about) /\ UNCHANGED <<cycles, recs, stopped, exceeded>>
    BY <1>4 DEF HumanComplete, CompleteEvent, EventMarked
  <2>4. events' \in [Cycles -> Seq(Event)]
    <3> HIDE DEF k, i, about
    <3> QED BY <1>0, <2>1, <2>2, <2>3, EventCompleted
  <2>5. CallOK(c)'
    BY <1>0, <1>2 DEF CallOK, Advancing, Targeted, Asking
  <2> QED BY <1>0, <1>1, <2>3, <2>4, <2>5, EventStepIInv
<1> QED BY <1>3, <1>4

LEMMA StartRowIInv ==
  ASSUME IInv, NEW c \in Calls, StartRow(c)
  PROVE  IInv'
<1>0. TypeOK /\ CallOK(c) /\ local[c] \in Local /\ cycles \in [Cycles -> Row]
  BY Types DEF IInv
<1>1. CASE Step(c, "start_row", "idle", Nothing) /\ UNCHANGED tables
  BY <1>1, ReadIInv
<1>2. ASSUME NEW k \in Cycles, NextCycle(k), ~KeyTaken(local[c].to),
             Step(c, "start_row", "start_event", [local[c] EXCEPT !.cycle = k]),
             cycles' = [cycles EXCEPT ![k] = [status |-> local[c].status, stage |-> "CREATED", of |-> Null,
                                              key |-> local[c].to]],
             UNCHANGED <<events, recs, stopped, exceeded>>
      PROVE  IInv'
  <2>1. pc[c] = "start_row" /\ pc'[c] = "start_event" /\ local'[c] = [local[c] EXCEPT !.cycle = k]
    BY <1>0, <1>2, StepFacts
  <2>2. local[c].to \in Keys /\ local[c].status \in {"RUNNING", "SCHEDULED"}
    BY <1>0, <2>1 DEF CallOK
  <2>3. cycles' \in [Cycles -> Row]
    BY <1>0, <1>2, <2>2, Stages DEF Row, CycleStatus
  <2>4. /\ Exists(k)' /\ cycles'[k].key = local[c].to
        /\ \A j \in Cycles \ {k} : cycles'[j] = cycles[j]
    BY <1>0, <1>2, <2>2 DEF Exists
  <2>5. \A j \in Cycles : local[c].to # "none" => cycles[j].key # local[c].to
    BY <1>2 DEF KeyTaken, IInv, KeysOK
  <2>6. KeysOK'
    BY <2>4, <2>5 DEF IInv, KeysOK, Exists
  <2>7. [local[c] EXCEPT !.cycle = k] \in Local
    BY <1>0 DEF Local
  <2>8. CallOK(c)'
    BY <1>0, <2>1, <2>2 DEF Local, CallOK, Advancing, Targeted, Asking
  <2> QED BY <1>0, <1>2, <2>3, <2>6, <2>7, <2>8, StepIInv, Types
<1> QED BY <1>1, <1>2 DEF StartRow, ReadStep

LEMMA RetryRowIInv ==
  ASSUME IInv, NEW c \in Calls, RetryRow(c)
  PROVE  IInv'
<1>0. TypeOK /\ CallOK(c) /\ local[c] \in Local /\ cycles \in [Cycles -> Row]
  BY Types DEF IInv
<1> PICK k \in Cycles :
      /\ NextCycle(k)
      /\ Step(c, "retry_row", "retry_event", [local[c] EXCEPT !.cycle = k])
      /\ cycles' = [cycles EXCEPT ![k] = [status |-> "RUNNING", stage |-> local[c].to, of |-> local[c].cycle, key |-> "none"]]
      /\ UNCHANGED <<events, recs, stopped, exceeded>>
  BY DEF RetryRow
<1>1. pc[c] = "retry_row" /\ pc'[c] = "retry_event" /\ local'[c] = [local[c] EXCEPT !.cycle = k]
  BY <1>0, StepFacts
<1>2. local[c].cycle \in Cycles /\ local[c].to \in CycleStage
  BY <1>0, <1>1 DEF CallOK
<1>3. cycles' \in [Cycles -> Row]
  BY <1>0, <1>2, KeysAssumption DEF Row, CycleStatus
<1>4. Exists(k)' /\ cycles'[k].key = "none" /\ \A j \in Cycles \ {k} : cycles'[j] = cycles[j]
  BY <1>0, <1>2 DEF Exists
<1>5. KeysOK'
  BY <1>4 DEF IInv, KeysOK, Exists
<1>6. [local[c] EXCEPT !.cycle = k] \in Local
  BY <1>0 DEF Local
<1>7. CallOK(c)'
  BY <1>0, <1>1, <1>2 DEF Local, CallOK, Advancing, Targeted, Asking
<1> QED BY <1>0, <1>3, <1>5, <1>6, <1>7, StepIInv, Types

-----------------------------------------------------------------------------
LEMMA InitIInv == Init => IInv
<1> SUFFICES ASSUME Init PROVE IInv
  OBVIOUS
<1>1. TypeOK
  <2>1. profile \in Profiles /\ crashes \in 0 .. profile.crashes
    BY ProfilesAssumption DEF Init, Profile
  <2>2. cycles \in [Cycles -> Row]
    BY KeysAssumption, Stages DEF Init, AbsentCycle, Row, Null
  <2>3. events \in [Cycles -> Seq(Event)] /\ recs \in [Cycles -> Seq({"pending", "decided"})]
    BY DEF Init
  <2>4. stopped \in BOOLEAN /\ exceeded \in BOOLEAN /\ DOMAIN pc = Calls /\ local \in [Calls -> Local]
    BY NothingIsLocal DEF Init
  <2> QED BY <2>1, <2>2, <2>3, <2>4, Types
<1>2. KeysOK
  BY DEF Init, KeysOK, AbsentCycle, Exists
<1> QED BY <1>1, <1>2 DEF Init, IInv, CallOK, Advancing, Targeted, Asking

LEMMA NextIInv == IInv /\ [Next]_vars => IInv'
<1> SUFFICES ASSUME IInv, [Next]_vars PROVE IInv'
  OBVIOUS
<1>0. TypeOK
  BY DEF IInv
<1>1. ASSUME NEW c \in Calls, Begin(c) PROVE IInv'
  <2>1. CASE \E key \in profile.keys, status \in {"RUNNING", "SCHEDULED"} : StartRead(c, key, status)
    <3>1. profile.keys \subseteq Keys
      BY <1>0, ProfilesAssumption, Types DEF Profile
    <3> QED BY <2>1, <3>1, StartReadIInv
  <2>2. CASE \E k \in Cycles : Advance(c, k)
    BY <2>2, AdvanceReadIInv DEF Advance
  <2>3. CASE \E k \in Cycles : Route(c, k)
    BY <2>3, RouteReadIInv DEF Route
  <2>4. CASE \E k \in Cycles : HumanRead(c, k) \/ RetryRead(c, k)
    BY <2>4, HumanReadIInv, RetryReadIInv
  <2>5. CASE \E k \in Cycles, op \in DOMAIN StatusOf : StatusRead(c, k, op)
    BY <2>5, StatusReadIInv
  <2>6. CASE Stop(c)
    BY <1>0, <2>6, QuietIInv, Types DEF Stop
  <2> QED BY <1>1, <2>1, <2>2, <2>3, <2>4, <2>5, <2>6 DEF Begin
<1>2. ASSUME NEW c \in Calls, Continue(c) PROVE IInv'
  <2>1. CASE StartRow(c) \/ StartEvent(c) \/ StartDone(c)
    BY <2>1, StartRowIInv, StartEventIInv, StartDoneIInv
  <2>2. CASE AdvanceRun(c)
    <3>1. pc[c] = "advance_read"
      BY <2>2 DEF AdvanceRun, AdvanceRead, ReadStep, Step
    <3>2. local[c].cycle \in Cycles /\ local[c].to \in {"none", "EXECUTING"} /\ local[c].about \in CycleStage
      BY <3>1 DEF IInv, CallOK
    <3> QED BY <2>2, <3>2, AdvanceReadIInv DEF AdvanceRun
  <2>3. CASE AdvanceBudget(c)
    BY <2>3, CheckIInv, AdvanceWithinIInv DEF AdvanceBudget, ReadStep
  <2>4. CASE AdvanceStop(c)
    <3>1. \/ Step(c, "advance_stop", "advance_find", local[c]) \/ Step(c, "advance_stop", "idle", local[c])
      BY <2>4 DEF AdvanceStop, ReadStep
    <3> QED BY <2>4, <3>1, CheckIInv DEF AdvanceStop, ReadStep
  <2>5. CASE AdvanceFind(c) \/ AdvanceComplete(c) \/ AdvanceCreate(c) \/ AdvanceWrite(c)
    BY <2>5, AdvanceFindIInv, AdvanceCompleteIInv, AdvanceCreateIInv, AdvanceWriteIInv
  <2>6. CASE StopRead(c)
    <3>1. \/ Step(c, "stop_read", "stop_write", local[c]) \/ Step(c, "stop_read", "idle", local[c])
      BY <2>6 DEF StopRead, ReadStep
    <3> QED BY <2>6, <3>1, CheckIInv DEF StopRead, ReadStep
  <2>7. CASE StopWrite(c) \/ StopEvent(c)
    BY <2>7, StopWriteIInv, StopEventIInv
  <2>8. CASE RunRecs(c) \/ RunCeo(c) \/ RunChairman(c)
    BY <2>8, RunRecsIInv, RunCeoIInv, RunChairmanIInv
  <2>9. CASE RouteRun(c)
    <3>1. pc[c] = "route_read"
      BY <2>9 DEF RouteRun, RouteRead, ReadStep, Step
    <3>2. local[c].cycle \in Cycles
      BY <3>1 DEF IInv, CallOK
    <3> QED BY <2>9, <3>2, RouteReadIInv DEF RouteRun
  <2>10. CASE RouteEvent(c) \/ RouteWrite(c)
    BY <2>10, RouteEventIInv, RouteWriteIInv
  <2>11. CASE HumanComplete(c) \/ HumanHistory(c) \/ HumanEvent(c) \/ HumanWrite(c)
    BY <2>11, HumanCompleteIInv, HumanHistoryIInv, HumanEventIInv, HumanWriteIInv
  <2>12. CASE StatusWrite(c) \/ RetryHistory(c) \/ RetryRow(c) \/ RetryEvent(c)
    BY <2>12, StatusWriteIInv, RetryHistoryIInv, RetryRowIInv, RetryEventIInv
  <2> QED BY <1>2, <2>1, <2>2, <2>3, <2>4, <2>5, <2>6, <2>7, <2>8, <2>9, <2>10, <2>11, <2>12 DEF Continue
<1>3. CASE Drive
  BY <1>3, RunIInv DEF Drive
<1>4. CASE HumanDecides
  <2> PICK c \in Calls, k \in Cycles : \E i \in DOMAIN recs[k] : Decide(c, k, i)
    BY <1>4 DEF HumanDecides
  <2> PICK i \in DOMAIN recs[k] : Decide(c, k, i)
    OBVIOUS
  <2>1. recs' = [recs EXCEPT ![k][i] = "decided"] /\ recs \in [Cycles -> Seq({"pending", "decided"})]
    BY <1>0, Types DEF Decide
  <2>2. [recs[k] EXCEPT ![i] = "decided"] \in Seq({"pending", "decided"})
    BY <2>1
  <2>3. recs' \in [Cycles -> Seq({"pending", "decided"})]
    BY <2>1, <2>2
  <2> QED BY <1>0, <2>3, QuietIInv, Types DEF Decide
<1>5. CASE Spend
  BY <1>0, <1>5, QuietIInv, Types DEF Spend
<1>6. CASE Crash
  <2>1. TypeOK'
    <3>1. crashes' \in 0 .. profile.crashes
      BY <1>0, <1>6, ProfilesAssumption, Types DEF Crash, Profile
    <3> QED BY <1>0, <1>6, <3>1, NothingIsLocal DEF Crash, tables, TypeOK, Local
  <2>2. KeysOK' /\ \A c \in Calls : CallOK(c)'
    BY <1>6 DEF Crash, tables, IInv, KeysOK, Exists, CallOK, Advancing, Targeted, Asking
  <2> QED BY <2>1, <2>2 DEF IInv
<1>7. CASE UNCHANGED vars
  BY <1>7, QuietIInv, <1>0, Types DEF vars, tables
<1> QED BY <1>1, <1>2, <1>3, <1>4, <1>5, <1>6, <1>7 DEF Next

LEMMA Invariance == Spec => []IInv
<1> QED BY InitIInv, NextIInv, PTL DEF Spec

(* Every variable keeps its type.                                          *)
THEOREM TypeCorrectness == Spec => []TypeOK
<1>1. IInv => TypeOK
  BY DEF IInv
<1> QED BY <1>1, Invariance, PTL

(* However many requests race with one idempotency key, and whatever is    *)
(* lost in a restart, one cycle is started for it.                         *)
THEOREM OneCyclePerKey == Spec => []KeysStartOneCycle
<1>1. IInv => KeysStartOneCycle
  BY DEF IInv, KeysOK, KeysStartOneCycle
<1> QED BY <1>1, Invariance, PTL

-----------------------------------------------------------------------------
(* Calls one at a time. What a call has read is still so when it writes.   *)

OneAtATime == profile.load <= 1

Alone == \A c, d \in Calls : pc[c] # "idle" /\ pc[d] # "idle" => c = d

(* Event i of k is one of the stage; or i is none, and all of those there  *)
(* are have been completed.                                                *)
Picked(k, i, stage) ==
  \/ i \in DOMAIN events[k] /\ events[k][i].stage = stage
  \/ i = 0 /\ \A j \in DOMAIN events[k] : events[k][j].stage = stage => events[k][j].done

InHand(c) ==
  LET l   == local[c]
      k   == l.cycle
      row == cycles[k]
  IN
  /\ pc[c] \in {"start_event", "start_done"} =>
       row.status \in {"RUNNING", "SCHEDULED"} /\ row.stage = "CREATED" /\ row.of = Null
  /\ pc[c] = "start_event" => events[k] = << >>
  /\ pc[c] = "start_done" => l.event \in DOMAIN events[k] /\ events[k][l.event].stage = "CREATED"
  /\ pc[c] \in Asking \cup {"advance_read", "route_read", "status_write"} => Exists(k)
  /\ pc[c] \in Asking \cup {"advance_read"} => l.about = row.stage
  /\ pc[c] \in Advancing \cup {"stop_read", "stop_write"} =>
       row.status = "RUNNING" /\ row.stage = l.stage /\ l.about \in {"none", l.stage}
  /\ pc[c] \in Targeted => Index(l.to) > Index(l.stage)
  /\ pc[c] \in Targeted \ {"advance_stop"} => (l.to = "EXECUTING" => ~stopped)
  /\ pc[c] = "advance_complete" => Picked(k, l.event, l.stage)
  /\ pc[c] \in {"advance_write", "route_write", "human_write"} => events[k] # << >>
  /\ pc[c] = "stop_event" => row.status = "STOPPED" /\ row.stage = l.stage
  /\ pc[c] \in {"route_event", "route_write"} => row.status \in {"RUNNING", "SCHEDULED"} /\ row.stage = l.stage
  /\ pc[c] \in Resuming => row.status = "AWAITING_HUMAN"
  /\ pc[c] = "human_complete" => Picked(k, l.event, "AWAITING_HUMAN")
  /\ pc[c] \in {"human_event", "human_write", "retry_row"} =>
       l.to = resolveResumeStage(completedLinearStages(k)) /\ (l.to = "EXECUTING" => ~stopped)
  /\ pc[c] = "status_write" => l.status \in CYCLE_STATUS_TRANSITIONS[row.status]
  /\ pc[c] \in {"retry_history", "retry_row"} => row.status = "FAILED"
  /\ pc[c] = "retry_event" => row.status = "RUNNING" /\ row.stage = l.to /\ row.of # Null /\ events[k] = << >>

(* A row that does not exist has left no trace.                            *)
NothingOfTheAbsent == \A k \in Cycles : ~Exists(k) => cycles[k] = AbsentCycle /\ events[k] = << >>

SerialInv ==
  /\ IInv
  /\ Alone
  /\ \A c \in Calls : InHand(c)
  /\ NothingOfTheAbsent

(* Rows and their events: a review has an event, a retry is of a failed    *)
(* cycle and, until it has an event, stands where its predecessor stopped. *)
HistoryOK ==
  \A k \in Cycles :
    /\ cycles[k].status = "AWAITING_HUMAN" => events[k] # << >>
    /\ cycles[k].of # Null =>
         /\ cycles[cycles[k].of].status = "FAILED"
         /\ events[k] = << >> =>
              \A s \in completedLinearStages(cycles[k].of) : Index(s) < Index(cycles[k].stage)
    /\ "COMPLETED" \notin completedLinearStages(k)

HistoryInv == SerialInv /\ WorkMatchesStage /\ HistoryOK /\ RetriesContinue

-----------------------------------------------------------------------------
(* Without the bookkeeping advance: decisions.                             *)

Undirected == "advance" \notin profile.operations

Beyond == {"EXECUTING", "OBSERVING", "LEARNING", "COMPLETED"}

LineageDecided(k) == \E j \in Lineage(k) : Decided(j)

(* What a call that is at p with l in hand has decided, or has read.       *)
DecisionOK(p, l) ==
  /\ p = "advance_read" =>
       \/ l.to = "none" /\ l.about \notin {"DECIDING", "AWAITING_HUMAN", "COMPLETED"}
       \/ l.to = "EXECUTING" /\ Decided(l.cycle) /\ l.about = "DECIDING"
  /\ p \in Advancing => l.stage \notin {"AWAITING_HUMAN", "COMPLETED"} /\ l.about = l.stage
  /\ p = "advance_budget" => (l.to = "EXECUTING" => Decided(l.cycle))
  /\ p \in Targeted => (l.to \in Beyond => LineageDecided(l.cycle))

DecisionInHand(c) == DecisionOK(pc[c], local[c])

DecidedBeyond ==
  \A k \in Cycles : Exists(k) =>
    /\ cycles[k].stage \in Beyond => LineageDecided(k)
    /\ \A s \in completedLinearStages(k) : s \in Beyond => LineageDecided(k)

DecisionInv == HistoryInv /\ DecidedBeyond /\ \A c \in Calls : DecisionInHand(c)

-----------------------------------------------------------------------------
(* And without restarts: every stage on the way.                           *)

Uninterrupted == profile.crashes = 0

Before(stage) == {s \in CycleStage \ {"AWAITING_HUMAN"} : Index(s) < Index(stage)}
DoneInLineage(k) == UNION {completedLinearStages(j) : j \in Lineage(k)}
HasEvent(k, stage) == \E i \in DOMAIN events[k] : events[k][i].stage = stage

(* What a call that is at p with l in hand has completed and created. It   *)
(* goes to the next stage, or past the review from the one before it.      *)
StagesOK(p, l) ==
  /\ p \in Targeted => Before(l.to) \subseteq Before(l.stage) \cup {l.stage}
  /\ p \in {"advance_create", "advance_write"} => l.stage \in completedLinearStages(l.cycle)
  /\ p \in {"advance_write", "human_write"} => HasEvent(l.cycle, l.to)
  /\ p = "route_write" => HasEvent(l.cycle, "AWAITING_HUMAN")

StagesInHand(c) == StagesOK(pc[c], local[c])

StagesDone ==
  \A k \in Cycles : Exists(k) =>
    /\ cycles[k].status = "COMPLETED" => cycles[k].stage = "COMPLETED"
    /\ cycles[k].stage # "AWAITING_HUMAN" => Before(cycles[k].stage) \subseteq DoneInLineage(k)
    /\ \A s \in completedLinearStages(k) : Before(s) \subseteq DoneInLineage(k)
    /\ HasEvent(k, cycles[k].stage) \/ \E c \in Calls : pc[c] \in {"start_event", "retry_event"} /\ local[c].cycle = k

StagesInv == DecisionInv /\ StagesDone /\ \A c \in Calls : StagesInHand(c)


-----------------------------------------------------------------------------
(* And without a resume that passes over the human: reviews.               *)

Unforced == "resume" \notin profile.operations

Reviewable == {"CREATED", "PLANNING", "RESEARCHING", "ANALYZING", "DECIDING", "EXECUTING"}

(* The reviews of a history that a stage has asked for, and the stage that *)
(* asked for the latest of them.                                           *)
Asked(history) == {i \in DOMAIN history : history[i].stage = "AWAITING_HUMAN" /\ history[i].about # "none"}
RequestIn(history) == history[Max(Asked(history))].about

(* A call is about to advance k from the stage it has completed.           *)
Leaving(k) == \E c \in Calls : pc[c] \in {"advance_create", "advance_write"} /\ local[c].cycle = k

ReviewInHand(c) ==
  LET l == local[c]
      k == l.cycle
  IN
  /\ pc[c] \in {"route_event", "route_write"} => l.stage \in Reviewable
  /\ pc[c] = "route_write" => Asked(events[k]) # {} /\ RequestIn(events[k]) = l.stage
  /\ pc[c] = "status_write" => l.status # "RUNNING"

ReviewsOK ==
  \A k \in Cycles : Exists(k) =>
    /\ cycles[k].stage = "CREATED" => completedLinearStages(k) \subseteq {"CREATED"}
    /\ cycles[k].stage \notin {"CREATED", "AWAITING_HUMAN"} =>
         \A s \in completedLinearStages(k) : Index(s) < Index(cycles[k].stage) \/ (s = cycles[k].stage /\ Leaving(k))
    /\ cycles[k].status = "AWAITING_HUMAN" /\ cycles[k].of = Null =>
         /\ Asked(events[k]) # {}
         /\ RequestIn(events[k]) \notin {"CREATED", "EXECUTING"} =>
              resolveResumeStage(completedLinearStages(k)) = RequestIn(events[k])

ReviewsInv == StagesInv /\ ReviewsOK /\ \A c \in Calls : ReviewInHand(c)

-----------------------------------------------------------------------------
(* Calls one at a time: what a call has read stays so.                     *)

(* Only one call has begun when the service is used one call at a time.    *)
LEMMA FreeAlone ==
  ASSUME TypeOK, OneAtATime, NEW c \in Calls, Free(c)
  PROVE  \A d \in Calls : pc[d] = "idle"
<1> DEFINE busy == {d \in Calls : pc[d] # "idle"}
<1>1. IsFiniteSet(busy)
  BY CallsAssumption, FS_Subset
<1>2. Cardinality(busy) \in Nat
  BY <1>1, FS_CardinalityType
<1>3. profile.load \in Nat
  BY ProfilesAssumption, Types DEF Profile
<1>4. Cardinality(busy) = 0
  BY <1>2, <1>3 DEF Free, OneAtATime
<1>5. busy = {}
  BY <1>1, <1>4, FS_EmptySet
<1> QED BY <1>5

LEMMA OthersIdle ==
  ASSUME TypeOK, Alone, OneAtATime, NEW c \in Calls, NEW from, NEW to, NEW read, Step(c, from, to, read)
  PROVE  \A d \in Calls \ {c} : pc[d] = "idle" /\ pc'[d] = "idle"
<1>1. CASE from = "idle"
  BY <1>1, StepFacts, FreeAlone
<1>2. CASE from # "idle"
  BY <1>2, StepFacts DEF Alone
<1> QED BY <1>1, <1>2

LEMMA IdleInHand == ASSUME NEW c \in Calls, pc[c] = "idle" PROVE InHand(c)
BY DEF InHand, Asking, Advancing, Targeted, Resuming

LEMMA SerialStep ==
  ASSUME SerialInv, OneAtATime, IInv', NEW c \in Calls, NEW from, NEW to, NEW read, Step(c, from, to, read),
         to = "idle" \/ InHand(c)', NothingOfTheAbsent'
  PROVE  SerialInv'
<1>0. TypeOK /\ Alone
  BY DEF SerialInv, IInv
<1>1. pc'[c] = to /\ \A d \in Calls \ {c} : pc'[d] = "idle"
  BY <1>0, StepFacts, OthersIdle
<1>2. Alone'
  BY <1>1 DEF Alone
<1>3. \A d \in Calls : InHand(d)'
  BY <1>1 DEF InHand, Asking, Advancing, Targeted, Resuming
<1> QED BY <1>2, <1>3 DEF SerialInv

LEMMA SerialRead ==
  ASSUME SerialInv, OneAtATime, IInv', NEW c \in Calls, NEW from, NEW to, NEW read, Step(c, from, to, read),
         UNCHANGED <<cycles, events>>, to = "idle" \/ InHand(c)'
  PROVE  SerialInv'
<1>1. NothingOfTheAbsent'
  BY DEF SerialInv, NothingOfTheAbsent, Exists
<1> QED BY <1>1, SerialStep

LEMMA CompletedSame ==
  ASSUME NEW k, UNCHANGED events
  PROVE  (completedLinearStages(k))' = completedLinearStages(k)
BY DEF completedLinearStages

LEMMA StartReadSerial ==
  ASSUME SerialInv, OneAtATime, IInv', NEW c \in Calls, NEW key \in Keys, NEW status \in {"RUNNING", "SCHEDULED"}, StartRead(c, key, status)
  PROVE  SerialInv'
<1> DEFINE to == IF ~KeyTaken(key) THEN "start_row" ELSE "idle"
           read == [Nothing EXCEPT !.to = key, !.status = status]
<1>0. TypeOK /\ CallOK(c) /\ InHand(c) /\ local[c] \in Local /\ cycles \in [Cycles -> Row]
  BY Types DEF SerialInv, IInv
<1>1. Step(c, "idle", to, read) /\ UNCHANGED <<cycles, events, stopped>>
  BY DEF StartRead, ReadStep, tables
<1>2. pc[c] = "idle" /\ pc'[c] = to /\ (to # "idle" => local'[c] = read)
  BY <1>0, <1>1, StepFacts
<1>3. to = "idle" \/ InHand(c)'
  BY <1>0, <1>1, <1>2 DEF InHand, Picked, Exists, CallOK, Local, Nothing, Asking, Advancing, Targeted, Resuming
<1> QED BY <1>1, <1>3, SerialRead

LEMMA AdvanceReadSerial ==
  ASSUME SerialInv, OneAtATime, IInv', NEW c \in Calls, NEW from, NEW k \in Cycles, NEW target,
         NEW about \in {"none", cycles[k].stage}, AdvanceRead(c, from, k, target, about)
  PROVE  SerialInv'
<1> DEFINE to == IF cycles[k].status = "RUNNING" THEN "advance_budget" ELSE "idle"
           read == [Nothing EXCEPT !.cycle = k, !.stage = cycles[k].stage, !.status = cycles[k].status,
                                   !.to = target, !.about = about]
<1>0. TypeOK
  BY DEF SerialInv, IInv
<1>1. Step(c, from, to, read) /\ UNCHANGED <<cycles, events, stopped>>
  BY DEF AdvanceRead, ReadStep, tables
<1>2. pc'[c] = to /\ (to # "idle" => local'[c] = read)
  BY <1>0, <1>1, StepFacts
<1>3. ASSUME to # "idle" PROVE InHand(c)'
  <2>1. pc'[c] = "advance_budget" /\ cycles[k].status = "RUNNING"
    BY <1>2, <1>3
  <2>2. local'[c].cycle = k /\ local'[c].stage = cycles[k].stage /\ local'[c].about = about
    BY <1>2, <1>3 DEF Nothing
  <2> QED BY <1>1, <2>1, <2>2 DEF InHand, Asking, Advancing, Targeted, Resuming
<1> QED BY <1>1, <1>3, SerialRead

LEMMA AdvanceWithinSerial ==
  ASSUME SerialInv, OneAtATime, IInv', NEW c \in Calls, AdvanceWithin(c, NextStage(c))
  PROVE  SerialInv'
<1> DEFINE to == IF NextStage(c) \in CYCLE_STAGE_TRANSITIONS[local[c].stage]
                 THEN IF NextStage(c) = "EXECUTING" THEN "advance_stop" ELSE "advance_find"
                 ELSE "idle"
           read == [local[c] EXCEPT !.to = NextStage(c)]
<1>0. TypeOK /\ CallOK(c) /\ InHand(c) /\ local[c] \in Local /\ cycles \in [Cycles -> Row]
  BY Types DEF SerialInv, IInv
<1>1. Step(c, "advance_budget", to, read) /\ UNCHANGED <<cycles, events, stopped>>
  BY DEF AdvanceWithin, ReadStep, tables
<1>2. pc[c] = "advance_budget" /\ pc'[c] = to /\ (to # "idle" => local'[c] = read)
  BY <1>0, <1>1, StepFacts
<1>3. to = "idle" \/ InHand(c)'
  BY <1>0, <1>1, <1>2, NextStageFacts DEF InHand, Picked, Exists, CallOK, Local, Nothing, Asking, Advancing, Targeted, Resuming
<1> QED BY <1>1, <1>3, SerialRead

(* A call that goes on with what it has, after a read that changes nothing *)
(* it has in hand.                                                         *)
LEMMA CheckSerial ==
  ASSUME SerialInv, OneAtATime, IInv', NEW c \in Calls, NEW from, NEW to, Step(c, from, to, local[c]),
         UNCHANGED <<cycles, events, stopped>>,
         \/ to = "idle"
         \/ <<from, to>> \in {<<"advance_budget", "stop_read">>, <<"stop_read", "stop_write">>, <<"run_recs", "run_ceo">>,
                              <<"run_ceo", "route_read">>, <<"run_ceo", "run_chairman">>, <<"run_chairman", "route_read">>}
         \/ from = "advance_stop" /\ to = "advance_find" /\ ~stopped
  PROVE  SerialInv'
<1>0. TypeOK /\ InHand(c)
  BY DEF SerialInv, IInv
<1>1. pc[c] = from /\ pc'[c] = to /\ (to # "idle" => local'[c] = local[c])
  BY <1>0, StepFacts
<1>2. to = "idle" \/ InHand(c)'
  BY <1>0, <1>1 DEF InHand, Exists, Asking, Advancing, Targeted, Resuming
<1> QED BY <1>2, SerialRead

(* The latest open event of the stage, or none.                            *)
LEMMA FindOpenPicks ==
  ASSUME TypeOK, NEW k \in Cycles, NEW stage
  PROVE  Picked(k, FindOpen(k, stage), stage)
BY FindOpenFacts DEF Picked, Open

LEMMA AdvanceFindSerial ==
  ASSUME SerialInv, OneAtATime, IInv', NEW c \in Calls, AdvanceFind(c)
  PROVE  SerialInv'
<1> DEFINE read == [local[c] EXCEPT !.event = FindOpen(local[c].cycle, local[c].stage)]
<1>0. TypeOK /\ CallOK(c) /\ InHand(c) /\ local[c] \in Local
  BY Types DEF SerialInv, IInv
<1>1. Step(c, "advance_find", "advance_complete", read) /\ UNCHANGED <<cycles, events, stopped>>
  BY DEF AdvanceFind, ReadStep, tables
<1>2. pc[c] = "advance_find" /\ pc'[c] = "advance_complete" /\ local'[c] = read
  BY <1>0, <1>1, StepFacts
<1>3. Picked(local[c].cycle, FindOpen(local[c].cycle, local[c].stage), local[c].stage)
  BY <1>0, <1>2, FindOpenPicks DEF CallOK
<1>4. InHand(c)'
  BY <1>0, <1>1, <1>2, <1>3 DEF InHand, Picked, Local, Asking, Advancing, Targeted, Resuming
<1> QED BY <1>1, <1>4, SerialRead

LEMMA RunSerial ==
  ASSUME SerialInv, OneAtATime, IInv', NEW c \in Calls, NEW k \in Cycles, Run(c, k)
  PROVE  SerialInv'
<1> DEFINE read == [Nothing EXCEPT !.cycle = k, !.about = cycles[k].stage]
<1>0. TypeOK
  BY DEF SerialInv, IInv
<1>1. PICK to \in {"advance_read", "run_recs"} : Step(c, "idle", to, read) /\ UNCHANGED <<cycles, events, stopped>>
  BY DEF Run, ReadStep, tables
<1>2. pc'[c] = to /\ local'[c] = read /\ Exists(k)
  BY <1>0, <1>1, StepFacts DEF Run, Room
<1>3. InHand(c)'
  BY <1>1, <1>2 DEF InHand, Exists, Nothing, Asking, Advancing, Targeted, Resuming
<1> QED BY <1>1, <1>3, SerialRead

LEMMA RunRecsSerial ==
  ASSUME SerialInv, OneAtATime, IInv', NEW c \in Calls, RunRecs(c)
  PROVE  SerialInv'
<1>1. CASE ReadStep(c, "run_recs", TRUE, "run_ceo", local[c])
  BY <1>1, CheckSerial DEF ReadStep, tables
<1>2. CASE ReadStep(c, "run_recs", TRUE, "advance_read", [local[c] EXCEPT !.to = "EXECUTING"])
  <2>0. TypeOK /\ InHand(c) /\ local[c] \in Local
    BY Types DEF SerialInv, IInv
  <2>1. Step(c, "run_recs", "advance_read", [local[c] EXCEPT !.to = "EXECUTING"]) /\ UNCHANGED <<cycles, events, stopped>>
    BY <1>2 DEF ReadStep, tables
  <2>2. pc[c] = "run_recs" /\ pc'[c] = "advance_read" /\ local'[c] = [local[c] EXCEPT !.to = "EXECUTING"]
    BY <2>0, <2>1, StepFacts
  <2>3. InHand(c)'
    BY <2>0, <2>1, <2>2 DEF InHand, Exists, Local, Asking, Advancing, Targeted, Resuming
  <2> QED BY <2>1, <2>3, SerialRead
<1> QED BY <1>1, <1>2 DEF RunRecs

LEMMA RunCeoSerial ==
  ASSUME SerialInv, OneAtATime, IInv', NEW c \in Calls, RunCeo(c)
  PROVE  SerialInv'
<1>1. \/ Step(c, "run_ceo", "route_read", local[c]) /\ UNCHANGED <<cycles, events, stopped>>
      \/ Step(c, "run_ceo", "run_chairman", local[c]) /\ UNCHANGED <<cycles, events, stopped>>
  BY DEF RunCeo, ReadStep, tables
<1> QED BY <1>1, CheckSerial

LEMMA RouteReadSerial ==
  ASSUME SerialInv, OneAtATime, IInv', NEW c \in Calls, NEW from, NEW k \in Cycles, Exists(k), RouteRead(c, from, k)
  PROVE  SerialInv'
<1> DEFINE ok == /\ "AWAITING_HUMAN" \in CYCLE_STAGE_TRANSITIONS[cycles[k].stage]
                 /\ "AWAITING_HUMAN" \in CYCLE_STATUS_TRANSITIONS[cycles[k].status]
           to == IF ok THEN "route_event" ELSE "idle"
           read == [Nothing EXCEPT !.cycle = k, !.stage = cycles[k].stage]
<1>0. TypeOK
  BY DEF SerialInv, IInv
<1>1. Step(c, from, to, read) /\ UNCHANGED <<cycles, events, stopped>>
  BY DEF RouteRead, ReadStep, tables
<1>2. pc'[c] = to /\ (to # "idle" => local'[c] = read)
  BY <1>0, <1>1, StepFacts
<1>3. ASSUME to # "idle" PROVE InHand(c)'
  <2>1. pc'[c] = "route_event"
    BY <1>2, <1>3
  <2>2. local'[c].cycle = k /\ local'[c].stage = cycles[k].stage
    BY <1>2, <1>3 DEF Nothing
  <2>3. cycles[k].status \in CycleStatus
    BY <1>0, Types DEF Row, Exists
  <2>4. cycles[k].status \in {"RUNNING", "SCHEDULED"}
    BY <1>3, <2>3, StatusTransitions
  <2> QED BY <1>1, <2>1, <2>2, <2>4 DEF InHand, Asking, Advancing, Targeted, Resuming
<1> QED BY <1>1, <1>3, SerialRead

LEMMA HumanReadSerial ==
  ASSUME SerialInv, OneAtATime, IInv', NEW c \in Calls, NEW k \in Cycles, HumanRead(c, k)
  PROVE  SerialInv'
<1> DEFINE to == IF cycles[k].status = "AWAITING_HUMAN" THEN "human_complete" ELSE "idle"
           read == [Nothing EXCEPT !.cycle = k, !.event = FindOpen(k, "AWAITING_HUMAN")]
<1>0. TypeOK
  BY DEF SerialInv, IInv
<1>1. Step(c, "idle", to, read) /\ UNCHANGED <<cycles, events, stopped>>
  BY DEF HumanRead, ReadStep, tables
<1>2. pc'[c] = to /\ (to # "idle" => local'[c] = read)
  BY <1>0, <1>1, StepFacts
<1>3. ASSUME to # "idle" PROVE InHand(c)'
  <2>1. pc'[c] = "human_complete" /\ cycles[k].status = "AWAITING_HUMAN"
    BY <1>2, <1>3
  <2>2. local'[c].cycle = k /\ local'[c].event = FindOpen(k, "AWAITING_HUMAN")
    BY <1>2, <1>3 DEF Nothing
  <2>3. Picked(k, FindOpen(k, "AWAITING_HUMAN"), "AWAITING_HUMAN")
    BY <1>0, FindOpenPicks
  <2> QED BY <1>1, <2>1, <2>2, <2>3 DEF InHand, Picked, Asking, Advancing, Targeted, Resuming
<1> QED BY <1>1, <1>3, SerialRead

LEMMA HumanHistorySerial ==
  ASSUME SerialInv, OneAtATime, IInv', NEW c \in Calls, HumanHistory(c)
  PROVE  SerialInv'
<1> DEFINE stage == resolveResumeStage(completedLinearStages(local[c].cycle))
           to == IF stage = "EXECUTING" => ~stopped THEN "human_event" ELSE "idle"
           read == [local[c] EXCEPT !.to = stage]
<1>0. TypeOK /\ InHand(c) /\ local[c] \in Local
  BY Types DEF SerialInv, IInv
<1>1. Step(c, "human_history", to, read) /\ UNCHANGED <<cycles, events, stopped>>
  BY DEF HumanHistory, ReadStep, tables
<1>2. pc[c] = "human_history" /\ pc'[c] = to /\ (to # "idle" => local'[c] = read)
  BY <1>0, <1>1, StepFacts
<1>3. ASSUME to # "idle" PROVE InHand(c)'
  <2>1. pc'[c] = "human_event" /\ (stage = "EXECUTING" => ~stopped)
    BY <1>2, <1>3
  <2>2. local'[c].cycle = local[c].cycle /\ local'[c].to = stage
    BY <1>0, <1>2, <1>3 DEF Local
  <2>3. (completedLinearStages(local[c].cycle))' = completedLinearStages(local[c].cycle)
    BY <1>1, <2>2 DEF completedLinearStages
  <2> QED BY <1>0, <1>1, <1>2, <2>1, <2>2, <2>3 DEF InHand, Asking, Advancing, Targeted, Resuming
<1> QED BY <1>1, <1>3, SerialRead

LEMMA RetryHistorySerial ==
  ASSUME SerialInv, OneAtATime, IInv', NEW c \in Calls, RetryHistory(c)
  PROVE  SerialInv'
<1> DEFINE stage == resolveResumeStage(completedLinearStages(local[c].cycle))
           to == IF stage = "EXECUTING" => ~stopped THEN "retry_row" ELSE "idle"
           read == [local[c] EXCEPT !.to = stage]
<1>0. TypeOK /\ InHand(c) /\ local[c] \in Local
  BY Types DEF SerialInv, IInv
<1>1. Step(c, "retry_history", to, read) /\ UNCHANGED <<cycles, events, stopped>>
  BY DEF RetryHistory, ReadStep, tables
<1>2. pc[c] = "retry_history" /\ pc'[c] = to /\ (to # "idle" => local'[c] = read)
  BY <1>0, <1>1, StepFacts
<1>3. ASSUME to # "idle" PROVE InHand(c)'
  <2>1. pc'[c] = "retry_row" /\ (stage = "EXECUTING" => ~stopped)
    BY <1>2, <1>3
  <2>2. local'[c].cycle = local[c].cycle /\ local'[c].to = stage
    BY <1>0, <1>2, <1>3 DEF Local
  <2>3. (completedLinearStages(local[c].cycle))' = completedLinearStages(local[c].cycle)
    BY <1>1, <2>2 DEF completedLinearStages
  <2> QED BY <1>0, <1>1, <1>2, <2>1, <2>2, <2>3 DEF InHand, Asking, Advancing, Targeted, Resuming
<1> QED BY <1>1, <1>3, SerialRead

LEMMA StatusReadSerial ==
  ASSUME SerialInv, OneAtATime, IInv', NEW c \in Calls, NEW k \in Cycles, NEW op, StatusRead(c, k, op)
  PROVE  SerialInv'
<1> DEFINE to == IF StatusOf[op] \in CYCLE_STATUS_TRANSITIONS[cycles[k].status] THEN "status_write" ELSE "idle"
           read == [Nothing EXCEPT !.cycle = k, !.status = StatusOf[op]]
<1>0. TypeOK
  BY DEF SerialInv, IInv
<1>1. Step(c, "idle", to, read) /\ UNCHANGED <<cycles, events, stopped>>
  BY DEF StatusRead, ReadStep, tables
<1>2. pc'[c] = to /\ (to # "idle" => local'[c] = read)
  BY <1>0, <1>1, StepFacts
<1>3. ASSUME to # "idle" PROVE InHand(c)'
  <2>1. pc'[c] = "status_write" /\ StatusOf[op] \in CYCLE_STATUS_TRANSITIONS[cycles[k].status] /\ Exists(k)
    BY <1>2, <1>3 DEF StatusRead
  <2>2. local'[c].cycle = k /\ local'[c].status = StatusOf[op]
    BY <1>2, <1>3 DEF Nothing
  <2> QED BY <1>1, <2>1, <2>2 DEF InHand, Exists, Asking, Advancing, Targeted, Resuming
<1> QED BY <1>1, <1>3, SerialRead

LEMMA RetryReadSerial ==
  ASSUME SerialInv, OneAtATime, IInv', NEW c \in Calls, NEW k \in Cycles, RetryRead(c, k)
  PROVE  SerialInv'
<1> DEFINE to == IF cycles[k].status = "FAILED" THEN "retry_history" ELSE "idle"
           read == [Nothing EXCEPT !.cycle = k]
<1>0. TypeOK
  BY DEF SerialInv, IInv
<1>1. Step(c, "idle", to, read) /\ UNCHANGED <<cycles, events, stopped>>
  BY DEF RetryRead, ReadStep, tables
<1>2. pc'[c] = to /\ (to # "idle" => local'[c] = read)
  BY <1>0, <1>1, StepFacts
<1>3. ASSUME to # "idle" PROVE InHand(c)'
  <2>1. pc'[c] = "retry_history" /\ cycles[k].status = "FAILED"
    BY <1>2, <1>3
  <2>2. local'[c].cycle = k
    BY <1>2, <1>3 DEF Nothing
  <2> QED BY <1>1, <2>1, <2>2 DEF InHand, Asking, Advancing, Targeted, Resuming
<1> QED BY <1>1, <1>3, SerialRead

-----------------------------------------------------------------------------
(* What each write does to the call's row and its events.                  *)

(* A row that has an event, or is about to get one, exists.                *)
LEMMA RowSerial ==
  ASSUME SerialInv, OneAtATime, IInv', NEW c \in Calls, NEW from, NEW to, NEW read, Step(c, from, to, read),
         NEW k \in Cycles, NEW stage \in CycleStage, NEW status \in CycleStatus, RowSet(k, stage, status),
         Exists(k), UNCHANGED events, to = "idle" \/ InHand(c)'
  PROVE  SerialInv'
<1>0. TypeOK
  BY DEF SerialInv, IInv
<1>1. \A j \in Cycles \ {k} : cycles'[j] = cycles[j]
  BY <1>0, RowWritten
<1>2. NothingOfTheAbsent'
  <2>1. Exists(k)'
    BY <1>0, RowWritten DEF Exists, CycleStatus
  <2> QED BY <1>1, <2>1 DEF SerialInv, NothingOfTheAbsent, Exists
<1> QED BY <1>2, SerialStep

LEMMA EventSerial ==
  ASSUME SerialInv, OneAtATime, IInv', NEW c \in Calls, NEW from, NEW to, NEW read, Step(c, from, to, read),
         NEW k \in Cycles, Exists(k), UNCHANGED cycles, \A j \in Cycles \ {k} : events'[j] = events[j],
         to = "idle" \/ InHand(c)'
  PROVE  SerialInv'
<1>1. NothingOfTheAbsent'
  BY DEF SerialInv, NothingOfTheAbsent, Exists
<1> QED BY <1>1, SerialStep

(* The call that writes has a cycle that exists.                           *)
Writing ==
  Targeted \cup Resuming \cup
    {"start_event", "start_done", "stop_write", "stop_event", "route_event", "route_write", "status_write", "retry_event"}

LEMMA WritersCycleExists ==
  ASSUME SerialInv, NEW c \in Calls, pc[c] \in Writing
  PROVE  local[c].cycle \in Cycles /\ Exists(local[c].cycle)
<1>1. CallOK(c) /\ InHand(c) /\ local[c].cycle \in Cycles
  BY DEF SerialInv, IInv, CallOK, Writing, Targeted, Advancing, Resuming
<1> QED BY <1>1 DEF Writing, Targeted, Advancing, Resuming, InHand, Exists

-----------------------------------------------------------------------------
(* Completed stages when an event is created, or completed.                *)

(* The new event is the last one, and is open.                             *)
LEMMA NewEvent ==
  ASSUME TypeOK, NEW k \in Cycles, NEW stage \in CycleStage, NEW about \in CycleStage \cup {"none"},
         EventAdded(k, stage, about)
  PROVE  events'[k][Len(events[k]) + 1].stage = stage /\ ~events'[k][Len(events[k]) + 1].done
<1>1. events'[k][Len(events[k]) + 1] = [stage |-> stage, done |-> FALSE, about |-> about]
  BY EventCreated, Zenon
<1> QED BY <1>1

LEMMA CompletedWhenAdded ==
  ASSUME TypeOK, NEW k \in Cycles, NEW stage \in CycleStage, NEW about \in CycleStage \cup {"none"},
         EventAdded(k, stage, about)
  PROVE  \A j \in Cycles : (completedLinearStages(j))' = completedLinearStages(j)
<1> SUFFICES ASSUME NEW j \in Cycles PROVE (completedLinearStages(j))' = completedLinearStages(j)
  OBVIOUS
<1>1. CASE j # k
  <2>1. events'[j] = events[j]
    BY <1>1, EventCreated
  <2> QED BY <2>1 DEF completedLinearStages
<1>2. CASE j = k
  <2> DEFINE n == Len(events[j])
  <2>1. /\ n \in Nat /\ DOMAIN events[j] = 1 .. n /\ DOMAIN events'[j] = 1 .. (n + 1)
        /\ \A i \in 1 .. n : events'[j][i] = events[j][i]
        /\ ~events'[j][n + 1].done
    <3>1. ~events'[k][Len(events[k]) + 1].done
      BY NewEvent
    <3> QED BY <1>2, <3>1, EventCreated
  <2>2. \A i : i \in DOMAIN events'[j] /\ events'[j][i].done <=> i \in DOMAIN events[j] /\ events[j][i].done
    <3> HIDE DEF n
    <3>1. \A i : i \in 1 .. (n + 1) <=> i \in 1 .. n \/ i = n + 1
      BY <2>1
    <3> QED BY <2>1, <3>1
  <2>3. \A i : i \in DOMAIN events[j] => events'[j][i].stage = events[j][i].stage
    BY <2>1
  <2>4. \A s : s \in completedLinearStages(j)' <=> s \in completedLinearStages(j)
    BY <2>2, <2>3 DEF completedLinearStages
  <2> QED BY <2>4
<1> QED BY <1>1, <1>2

LEMMA CompletedWhenMarked ==
  ASSUME TypeOK, NEW k \in Cycles, NEW i, NEW about, i \in DOMAIN events[k] => about \in CycleStage \cup {"none"},
         EventMarked(k, i, about)
  PROVE  /\ \A j \in Cycles \ {k} : (completedLinearStages(j))' = completedLinearStages(j)
         /\ i \notin DOMAIN events[k] => (completedLinearStages(k))' = completedLinearStages(k)
         /\ i \in DOMAIN events[k] =>
              (completedLinearStages(k))' = completedLinearStages(k) \cup ({events[k][i].stage} \ {"AWAITING_HUMAN"})
<1>1. ASSUME NEW j \in Cycles \ {k} PROVE (completedLinearStages(j))' = completedLinearStages(j)
  <2>1. events'[j] = events[j]
    BY EventCompleted
  <2> QED BY <2>1 DEF completedLinearStages
<1>2. ASSUME i \notin DOMAIN events[k] PROVE (completedLinearStages(k))' = completedLinearStages(k)
  <2>1. DOMAIN events'[k] = DOMAIN events[k] /\ \A j \in DOMAIN events[k] : events'[k][j] = events[k][j]
    BY <1>2, EventCompleted
  <2>2. \A s : s \in completedLinearStages(k)' <=> s \in completedLinearStages(k)
    BY <2>1 DEF completedLinearStages
  <2> QED BY <2>2
<1>3. ASSUME i \in DOMAIN events[k]
      PROVE (completedLinearStages(k))' = completedLinearStages(k) \cup ({events[k][i].stage} \ {"AWAITING_HUMAN"})
  <2>1. /\ DOMAIN events'[k] = DOMAIN events[k]
        /\ \A j \in DOMAIN events[k] : events'[k][j].stage = events[k][j].stage /\ (j # i => events'[k][j] = events[k][j])
        /\ events'[k][i].done
    BY <1>3, EventCompleted
  <2>2. \A s : s \in completedLinearStages(k)' <=>
              s \in completedLinearStages(k) \cup ({events[k][i].stage} \ {"AWAITING_HUMAN"})
    BY <1>3, <2>1 DEF completedLinearStages
  <2> QED BY <2>2
<1> QED BY <1>1, <1>2, <1>3

-----------------------------------------------------------------------------
(* What each write writes, and what is known of the row it writes to.      *)

LEMMA AdvanceWriteFacts ==
  ASSUME SerialInv, NEW c \in Calls, AdvanceWrite(c)
  PROVE  LET k == local[c].cycle
             stage == local[c].to
             status == (IF local[c].to = "COMPLETED" THEN "COMPLETED" ELSE local[c].status)
         IN  /\ Step(c, "advance_write", "idle", Nothing) /\ pc[c] = "advance_write"
             /\ k \in Cycles /\ Exists(k) /\ stage \in CycleStage /\ status \in CycleStatus
             /\ RowSet(k, stage, status) /\ UNCHANGED <<events, recs, stopped>>
             /\ cycles[k].status = "RUNNING" /\ cycles[k].stage = local[c].stage /\ Index(stage) > Index(cycles[k].stage)
             /\ (stage = "EXECUTING" => ~stopped) /\ events[k] # << >>
             /\ status = IF stage = "COMPLETED" THEN "COMPLETED" ELSE "RUNNING"
<1>0. TypeOK /\ CallOK(c) /\ InHand(c)
  BY DEF SerialInv, IInv
<1>1. Step(c, "advance_write", "idle", Nothing)
  BY DEF AdvanceWrite
<1>2. pc[c] = "advance_write"
  BY <1>0, <1>1, StepFacts
<1>3. local[c].cycle \in Cycles /\ Exists(local[c].cycle)
  BY <1>2, WritersCycleExists DEF Writing, Advancing, Targeted, Resuming
<1>4. RowSet(local[c].cycle, local[c].to, (IF local[c].to = "COMPLETED" THEN "COMPLETED" ELSE local[c].status)) /\ UNCHANGED <<events, recs, stopped>>
  BY DEF AdvanceWrite, WriteStage, RowSet
<1>5. local[c].to \in CycleStage /\ (IF local[c].to = "COMPLETED" THEN "COMPLETED" ELSE local[c].status) \in CycleStatus
  BY <1>0, <1>2, <1>3, Types, Stages DEF InHand, CallOK, Asking, Advancing, Targeted, Resuming, CycleStatus, Row
<1> QED BY <1>0, <1>1, <1>2, <1>3, <1>4, <1>5 DEF InHand, CallOK, Asking, Advancing, Targeted, Resuming

LEMMA StopWriteFacts ==
  ASSUME SerialInv, NEW c \in Calls, StopWrite(c)
  PROVE  LET k == local[c].cycle
             stage == cycles[local[c].cycle].stage
             status == "STOPPED"
         IN  /\ Step(c, "stop_write", "stop_event", local[c]) /\ pc[c] = "stop_write"
             /\ k \in Cycles /\ Exists(k) /\ stage \in CycleStage /\ status \in CycleStatus
             /\ RowSet(k, stage, status) /\ UNCHANGED <<events, recs, stopped>>
             /\ cycles[k].status = "RUNNING" /\ cycles[k].stage = local[c].stage
<1>0. TypeOK /\ CallOK(c) /\ InHand(c)
  BY DEF SerialInv, IInv
<1>1. Step(c, "stop_write", "stop_event", local[c])
  BY DEF StopWrite
<1>2. pc[c] = "stop_write"
  BY <1>0, <1>1, StepFacts
<1>3. local[c].cycle \in Cycles /\ Exists(local[c].cycle)
  BY <1>2, WritersCycleExists DEF Writing, Advancing, Targeted, Resuming
<1>4. RowSet(local[c].cycle, cycles[local[c].cycle].stage, "STOPPED") /\ UNCHANGED <<events, recs, stopped>>
  BY DEF StopWrite, WriteStatus, RowSet
<1>5. cycles[local[c].cycle].stage \in CycleStage /\ "STOPPED" \in CycleStatus
  BY <1>0, <1>2, <1>3, Types, Stages DEF InHand, CallOK, Asking, Advancing, Targeted, Resuming, CycleStatus, Row
<1> QED BY <1>0, <1>1, <1>2, <1>3, <1>4, <1>5 DEF InHand, CallOK, Asking, Advancing, Targeted, Resuming

LEMMA RouteWriteFacts ==
  ASSUME SerialInv, NEW c \in Calls, RouteWrite(c)
  PROVE  LET k == local[c].cycle
             stage == "AWAITING_HUMAN"
             status == "AWAITING_HUMAN"
         IN  /\ Step(c, "route_write", "idle", Nothing) /\ pc[c] = "route_write"
             /\ k \in Cycles /\ Exists(k) /\ stage \in CycleStage /\ status \in CycleStatus
             /\ RowSet(k, stage, status) /\ UNCHANGED <<events, recs, stopped>>
             /\ cycles[k].status \in {"RUNNING", "SCHEDULED"} /\ cycles[k].stage = local[c].stage /\ events[k] # << >>
<1>0. TypeOK /\ CallOK(c) /\ InHand(c)
  BY DEF SerialInv, IInv
<1>1. Step(c, "route_write", "idle", Nothing)
  BY DEF RouteWrite
<1>2. pc[c] = "route_write"
  BY <1>0, <1>1, StepFacts
<1>3. local[c].cycle \in Cycles /\ Exists(local[c].cycle)
  BY <1>2, WritersCycleExists DEF Writing, Advancing, Targeted, Resuming
<1>4. RowSet(local[c].cycle, "AWAITING_HUMAN", "AWAITING_HUMAN") /\ UNCHANGED <<events, recs, stopped>>
  BY DEF RouteWrite, WriteStage, RowSet
<1>5. "AWAITING_HUMAN" \in CycleStage /\ "AWAITING_HUMAN" \in CycleStatus
  BY <1>0, <1>2, <1>3, Types, Stages DEF InHand, CallOK, Asking, Advancing, Targeted, Resuming, CycleStatus, Row
<1> QED BY <1>0, <1>1, <1>2, <1>3, <1>4, <1>5 DEF InHand, CallOK, Asking, Advancing, Targeted, Resuming

LEMMA HumanWriteFacts ==
  ASSUME SerialInv, NEW c \in Calls, HumanWrite(c)
  PROVE  LET k == local[c].cycle
             stage == local[c].to
             status == (IF local[c].to = "COMPLETED" THEN "COMPLETED" ELSE "RUNNING")
         IN  /\ Step(c, "human_write", "idle", Nothing) /\ pc[c] = "human_write"
             /\ k \in Cycles /\ Exists(k) /\ stage \in CycleStage /\ status \in CycleStatus
             /\ RowSet(k, stage, status) /\ UNCHANGED <<events, recs, stopped>>
             /\ cycles[k].status = "AWAITING_HUMAN" /\ stage = resolveResumeStage(completedLinearStages(k))
             /\ (stage = "EXECUTING" => ~stopped) /\ events[k] # << >>
             /\ status = IF stage = "COMPLETED" THEN "COMPLETED" ELSE "RUNNING"
<1>0. TypeOK /\ CallOK(c) /\ InHand(c)
  BY DEF SerialInv, IInv
<1>1. Step(c, "human_write", "idle", Nothing)
  BY DEF HumanWrite
<1>2. pc[c] = "human_write"
  BY <1>0, <1>1, StepFacts
<1>3. local[c].cycle \in Cycles /\ Exists(local[c].cycle)
  BY <1>2, WritersCycleExists DEF Writing, Advancing, Targeted, Resuming
<1>4. RowSet(local[c].cycle, local[c].to, (IF local[c].to = "COMPLETED" THEN "COMPLETED" ELSE "RUNNING")) /\ UNCHANGED <<events, recs, stopped>>
  BY DEF HumanWrite, WriteStage, RowSet
<1>5. local[c].to \in CycleStage /\ (IF local[c].to = "COMPLETED" THEN "COMPLETED" ELSE "RUNNING") \in CycleStatus
  BY <1>0, <1>2, <1>3, Types, Stages DEF InHand, CallOK, Asking, Advancing, Targeted, Resuming, CycleStatus, Row
<1> QED BY <1>0, <1>1, <1>2, <1>3, <1>4, <1>5 DEF InHand, CallOK, Asking, Advancing, Targeted, Resuming

LEMMA StatusWriteFacts ==
  ASSUME SerialInv, NEW c \in Calls, StatusWrite(c)
  PROVE  LET k == local[c].cycle
             stage == cycles[local[c].cycle].stage
             status == local[c].status
         IN  /\ Step(c, "status_write", "idle", Nothing) /\ pc[c] = "status_write"
             /\ k \in Cycles /\ Exists(k) /\ stage \in CycleStage /\ status \in CycleStatus
             /\ RowSet(k, stage, status) /\ UNCHANGED <<events, recs, stopped>>
             /\ status \in CYCLE_STATUS_TRANSITIONS[cycles[k].status]
             /\ status \in {"PAUSED", "RUNNING", "CANCELLED", "FAILED"}
<1>0. TypeOK /\ CallOK(c) /\ InHand(c)
  BY DEF SerialInv, IInv
<1>1. Step(c, "status_write", "idle", Nothing)
  BY DEF StatusWrite
<1>2. pc[c] = "status_write"
  BY <1>0, <1>1, StepFacts
<1>3. local[c].cycle \in Cycles /\ Exists(local[c].cycle)
  BY <1>2, WritersCycleExists DEF Writing, Advancing, Targeted, Resuming
<1>4. RowSet(local[c].cycle, cycles[local[c].cycle].stage, local[c].status) /\ UNCHANGED <<events, recs, stopped>>
  BY DEF StatusWrite, WriteStatus, RowSet
<1>5. cycles[local[c].cycle].stage \in CycleStage /\ local[c].status \in CycleStatus
  BY <1>0, <1>2, <1>3, Types, Stages DEF InHand, CallOK, Asking, Advancing, Targeted, Resuming, CycleStatus, Row
<1> QED BY <1>0, <1>1, <1>2, <1>3, <1>4, <1>5 DEF InHand, CallOK, Asking, Advancing, Targeted, Resuming

LEMMA StartEventFacts ==
  ASSUME SerialInv, NEW c \in Calls, StartEvent(c)
  PROVE  LET k == local[c].cycle
             stage == "CREATED"
             about == "none"
         IN  /\ Step(c, "start_event", "start_done", [local[c] EXCEPT !.event = Len(events[local[c].cycle]) + 1]) /\ pc[c] = "start_event"
             /\ k \in Cycles /\ Exists(k) /\ stage \in CycleStage /\ about \in CycleStage \cup {"none"}
             /\ EventAdded(k, stage, about) /\ UNCHANGED <<cycles, recs, stopped>>
             /\ events[k] = << >> /\ cycles[k].stage = "CREATED" /\ cycles[k].status \in {"RUNNING", "SCHEDULED"} /\ cycles[k].of = Null
<1>0. TypeOK /\ CallOK(c) /\ InHand(c) /\ local[c] \in Local
  BY Types DEF SerialInv, IInv
<1>1. Step(c, "start_event", "start_done", [local[c] EXCEPT !.event = Len(events[local[c].cycle]) + 1])
  BY DEF StartEvent, ReadStep
<1>2. pc[c] = "start_event"
  BY <1>0, <1>1, StepFacts
<1>3. local[c].cycle \in Cycles /\ Exists(local[c].cycle)
  BY <1>2, WritersCycleExists DEF Writing, Advancing, Targeted, Resuming
<1>4. EventAdded(local[c].cycle, "CREATED", "none") /\ UNCHANGED <<cycles, recs, stopped>>
  BY DEF StartEvent, CreateEvent, EventAdded
<1>5. "CREATED" \in CycleStage /\ "none" \in CycleStage \cup {"none"}
  BY <1>0, <1>2, <1>3, Types, Stages DEF InHand, CallOK, Asking, Advancing, Targeted, Resuming, Local
<1> QED BY <1>0, <1>1, <1>2, <1>3, <1>4, <1>5 DEF InHand, CallOK, Asking, Advancing, Targeted, Resuming

LEMMA AdvanceCreateFacts ==
  ASSUME SerialInv, NEW c \in Calls, AdvanceCreate(c)
  PROVE  LET k == local[c].cycle
             stage == local[c].to
             about == "none"
         IN  /\ Step(c, "advance_create", "advance_write", local[c]) /\ pc[c] = "advance_create"
             /\ k \in Cycles /\ Exists(k) /\ stage \in CycleStage /\ about \in CycleStage \cup {"none"}
             /\ EventAdded(k, stage, about) /\ UNCHANGED <<cycles, recs, stopped>>
             /\ cycles[k].status = "RUNNING" /\ cycles[k].stage = local[c].stage /\ Index(stage) > Index(cycles[k].stage)
<1>0. TypeOK /\ CallOK(c) /\ InHand(c) /\ local[c] \in Local
  BY Types DEF SerialInv, IInv
<1>1. Step(c, "advance_create", "advance_write", local[c])
  BY DEF AdvanceCreate, ReadStep
<1>2. pc[c] = "advance_create"
  BY <1>0, <1>1, StepFacts
<1>3. local[c].cycle \in Cycles /\ Exists(local[c].cycle)
  BY <1>2, WritersCycleExists DEF Writing, Advancing, Targeted, Resuming
<1>4. EventAdded(local[c].cycle, local[c].to, "none") /\ UNCHANGED <<cycles, recs, stopped>>
  BY DEF AdvanceCreate, CreateEvent, EventAdded
<1>5. local[c].to \in CycleStage /\ "none" \in CycleStage \cup {"none"}
  BY <1>0, <1>2, <1>3, Types, Stages DEF InHand, CallOK, Asking, Advancing, Targeted, Resuming, Local
<1> QED BY <1>0, <1>1, <1>2, <1>3, <1>4, <1>5 DEF InHand, CallOK, Asking, Advancing, Targeted, Resuming

LEMMA RouteEventFacts ==
  ASSUME SerialInv, NEW c \in Calls, RouteEvent(c)
  PROVE  LET k == local[c].cycle
             stage == "AWAITING_HUMAN"
             about == local[c].stage
         IN  /\ Step(c, "route_event", "route_write", local[c]) /\ pc[c] = "route_event"
             /\ k \in Cycles /\ Exists(k) /\ stage \in CycleStage /\ about \in CycleStage \cup {"none"}
             /\ EventAdded(k, stage, about) /\ UNCHANGED <<cycles, recs, stopped>>
             /\ cycles[k].status \in {"RUNNING", "SCHEDULED"} /\ cycles[k].stage = local[c].stage
<1>0. TypeOK /\ CallOK(c) /\ InHand(c) /\ local[c] \in Local
  BY Types DEF SerialInv, IInv
<1>1. Step(c, "route_event", "route_write", local[c])
  BY DEF RouteEvent, ReadStep
<1>2. pc[c] = "route_event"
  BY <1>0, <1>1, StepFacts
<1>3. local[c].cycle \in Cycles /\ Exists(local[c].cycle)
  BY <1>2, WritersCycleExists DEF Writing, Advancing, Targeted, Resuming
<1>4. EventAdded(local[c].cycle, "AWAITING_HUMAN", local[c].stage) /\ UNCHANGED <<cycles, recs, stopped>>
  BY DEF RouteEvent, CreateEvent, EventAdded
<1>5. "AWAITING_HUMAN" \in CycleStage /\ local[c].stage \in CycleStage \cup {"none"}
  BY <1>0, <1>2, <1>3, Types, Stages DEF InHand, CallOK, Asking, Advancing, Targeted, Resuming, Local
<1> QED BY <1>0, <1>1, <1>2, <1>3, <1>4, <1>5 DEF InHand, CallOK, Asking, Advancing, Targeted, Resuming

LEMMA HumanEventFacts ==
  ASSUME SerialInv, NEW c \in Calls, HumanEvent(c)
  PROVE  LET k == local[c].cycle
             stage == local[c].to
             about == "none"
         IN  /\ Step(c, "human_event", "human_write", local[c]) /\ pc[c] = "human_event"
             /\ k \in Cycles /\ Exists(k) /\ stage \in CycleStage /\ about \in CycleStage \cup {"none"}
             /\ EventAdded(k, stage, about) /\ UNCHANGED <<cycles, recs, stopped>>
             /\ cycles[k].status = "AWAITING_HUMAN" /\ stage = resolveResumeStage(completedLinearStages(k))
<1>0. TypeOK /\ CallOK(c) /\ InHand(c) /\ local[c] \in Local
  BY Types DEF SerialInv, IInv
<1>1. Step(c, "human_event", "human_write", local[c])
  BY DEF HumanEvent, ReadStep
<1>2. pc[c] = "human_event"
  BY <1>0, <1>1, StepFacts
<1>3. local[c].cycle \in Cycles /\ Exists(local[c].cycle)
  BY <1>2, WritersCycleExists DEF Writing, Advancing, Targeted, Resuming
<1>4. EventAdded(local[c].cycle, local[c].to, "none") /\ UNCHANGED <<cycles, recs, stopped>>
  BY DEF HumanEvent, CreateEvent, EventAdded
<1>5. local[c].to \in CycleStage /\ "none" \in CycleStage \cup {"none"}
  BY <1>0, <1>2, <1>3, Types, Stages DEF InHand, CallOK, Asking, Advancing, Targeted, Resuming, Local
<1> QED BY <1>0, <1>1, <1>2, <1>3, <1>4, <1>5 DEF InHand, CallOK, Asking, Advancing, Targeted, Resuming

LEMMA RetryEventFacts ==
  ASSUME SerialInv, NEW c \in Calls, RetryEvent(c)
  PROVE  LET k == local[c].cycle
             stage == local[c].to
             about == "none"
         IN  /\ Step(c, "retry_event", "idle", Nothing) /\ pc[c] = "retry_event"
             /\ k \in Cycles /\ Exists(k) /\ stage \in CycleStage /\ about \in CycleStage \cup {"none"}
             /\ EventAdded(k, stage, about) /\ UNCHANGED <<cycles, recs, stopped>>
             /\ cycles[k].status = "RUNNING" /\ cycles[k].stage = stage /\ cycles[k].of # Null /\ events[k] = << >>
<1>0. TypeOK /\ CallOK(c) /\ InHand(c) /\ local[c] \in Local
  BY Types DEF SerialInv, IInv
<1>1. Step(c, "retry_event", "idle", Nothing)
  BY DEF RetryEvent, ReadStep
<1>2. pc[c] = "retry_event"
  BY <1>0, <1>1, StepFacts
<1>3. local[c].cycle \in Cycles /\ Exists(local[c].cycle)
  BY <1>2, WritersCycleExists DEF Writing, Advancing, Targeted, Resuming
<1>4. EventAdded(local[c].cycle, local[c].to, "none") /\ UNCHANGED <<cycles, recs, stopped>>
  BY DEF RetryEvent, CreateEvent, EventAdded
<1>5. local[c].to \in CycleStage /\ "none" \in CycleStage \cup {"none"}
  BY <1>0, <1>2, <1>3, Types, Stages DEF InHand, CallOK, Asking, Advancing, Targeted, Resuming, Local
<1> QED BY <1>0, <1>1, <1>2, <1>3, <1>4, <1>5 DEF InHand, CallOK, Asking, Advancing, Targeted, Resuming

LEMMA StopEventFacts ==
  ASSUME SerialInv, NEW c \in Calls, StopEvent(c), events' # events
  PROVE  LET k == local[c].cycle
             stage == local[c].stage
             about == "none"
         IN  /\ Step(c, "stop_event", "idle", Nothing) /\ pc[c] = "stop_event"
             /\ k \in Cycles /\ Exists(k) /\ stage \in CycleStage /\ about \in CycleStage \cup {"none"}
             /\ EventAdded(k, stage, about) /\ UNCHANGED <<cycles, recs, stopped>>
             /\ cycles[k].status = "STOPPED" /\ cycles[k].stage = stage
<1>0. TypeOK /\ CallOK(c) /\ InHand(c) /\ local[c] \in Local
  BY Types DEF SerialInv, IInv
<1>1. Step(c, "stop_event", "idle", Nothing)
  BY DEF StopEvent, ReadStep, tables
<1>2. pc[c] = "stop_event"
  BY <1>0, <1>1, StepFacts
<1>3. local[c].cycle \in Cycles /\ Exists(local[c].cycle)
  BY <1>2, WritersCycleExists DEF Writing, Advancing, Targeted, Resuming
<1>4. EventAdded(local[c].cycle, local[c].stage, "none") /\ UNCHANGED <<cycles, recs, stopped>>
  BY DEF StopEvent, CreateEvent, EventAdded, ReadStep, tables
<1>5. local[c].stage \in CycleStage /\ "none" \in CycleStage \cup {"none"}
  BY <1>0, <1>2, <1>3, Types, Stages DEF InHand, CallOK, Asking, Advancing, Targeted, Resuming, Local
<1> QED BY <1>0, <1>1, <1>2, <1>3, <1>4, <1>5 DEF InHand, CallOK, Asking, Advancing, Targeted, Resuming

LEMMA StartDoneFacts ==
  ASSUME SerialInv, NEW c \in Calls, StartDone(c)
  PROVE  LET k == local[c].cycle
             i == local[c].event
             about == "CREATED"
         IN  /\ Step(c, "start_done", "idle", Nothing) /\ pc[c] = "start_done"
             /\ k \in Cycles /\ Exists(k) /\ (i \in DOMAIN events[k] => about \in CycleStage \cup {"none"})
             /\ EventMarked(k, i, about) /\ UNCHANGED <<cycles, recs, stopped>>
             /\ i \in DOMAIN events[k] /\ events[k][i].stage = "CREATED"
<1>0. TypeOK /\ CallOK(c) /\ InHand(c) /\ local[c] \in Local
  BY Types DEF SerialInv, IInv
<1>1. Step(c, "start_done", "idle", Nothing)
  BY DEF StartDone
<1>2. pc[c] = "start_done"
  BY <1>0, <1>1, StepFacts
<1>3. local[c].cycle \in Cycles /\ Exists(local[c].cycle)
  BY <1>2, WritersCycleExists DEF Writing, Advancing, Targeted, Resuming
<1>4. EventMarked(local[c].cycle, local[c].event, "CREATED") /\ UNCHANGED <<cycles, recs, stopped>>
  BY DEF StartDone, CompleteEvent, EventMarked, tables
<1>5. local[c].event \in DOMAIN events[local[c].cycle] => "CREATED" \in CycleStage \cup {"none"}
  BY Stages
<1> QED BY <1>0, <1>1, <1>2, <1>3, <1>4, <1>5 DEF InHand, CallOK, Asking, Advancing, Targeted, Resuming

LEMMA AdvanceCompleteFacts ==
  ASSUME SerialInv, NEW c \in Calls, AdvanceComplete(c)
  PROVE  LET k == local[c].cycle
             i == local[c].event
             about == local[c].about
         IN  /\ Step(c, "advance_complete", "advance_create", local[c]) /\ pc[c] = "advance_complete"
             /\ k \in Cycles /\ Exists(k) /\ (i \in DOMAIN events[k] => about \in CycleStage \cup {"none"})
             /\ EventMarked(k, i, about) /\ UNCHANGED <<cycles, recs, stopped>>
             /\ cycles[k].status = "RUNNING" /\ cycles[k].stage = local[c].stage /\ about \in {"none", local[c].stage}
             /\ Picked(k, i, local[c].stage)
<1>0. TypeOK /\ CallOK(c) /\ InHand(c) /\ local[c] \in Local
  BY Types DEF SerialInv, IInv
<1>1. Step(c, "advance_complete", "advance_create", local[c])
  BY DEF AdvanceComplete
<1>2. pc[c] = "advance_complete"
  BY <1>0, <1>1, StepFacts
<1>3. local[c].cycle \in Cycles /\ Exists(local[c].cycle)
  BY <1>2, WritersCycleExists DEF Writing, Advancing, Targeted, Resuming
<1>4. EventMarked(local[c].cycle, local[c].event, local[c].about) /\ UNCHANGED <<cycles, recs, stopped>>
  BY DEF AdvanceComplete, CompleteEvent, EventMarked, tables
<1>5. local[c].event \in DOMAIN events[local[c].cycle] => local[c].about \in CycleStage \cup {"none"}
  BY <1>0 DEF Local
<1> QED BY <1>0, <1>1, <1>2, <1>3, <1>4, <1>5 DEF InHand, CallOK, Asking, Advancing, Targeted, Resuming

LEMMA HumanCompleteFacts ==
  ASSUME SerialInv, NEW c \in Calls, HumanComplete(c), events' # events
  PROVE  LET k == local[c].cycle
             i == local[c].event
             about == events[local[c].cycle][local[c].event].about
         IN  /\ Step(c, "human_complete", "human_history", local[c]) /\ pc[c] = "human_complete"
             /\ k \in Cycles /\ Exists(k) /\ (i \in DOMAIN events[k] => about \in CycleStage \cup {"none"})
             /\ EventMarked(k, i, about) /\ UNCHANGED <<cycles, recs, stopped>>
             /\ cycles[k].status = "AWAITING_HUMAN" /\ i \in DOMAIN events[k] /\ events[k][i].stage = "AWAITING_HUMAN"
<1>0. TypeOK /\ CallOK(c) /\ InHand(c) /\ local[c] \in Local
  BY Types DEF SerialInv, IInv
<1>1. Step(c, "human_complete", "human_history", local[c])
  BY DEF HumanComplete
<1>2. pc[c] = "human_complete"
  BY <1>0, <1>1, StepFacts
<1>3. local[c].cycle \in Cycles /\ Exists(local[c].cycle)
  BY <1>2, WritersCycleExists DEF Writing, Advancing, Targeted, Resuming
<1>4. EventMarked(local[c].cycle, local[c].event, events[local[c].cycle][local[c].event].about) /\ UNCHANGED <<cycles, recs, stopped>>
  <2>1. local[c].event # 0
    BY DEF HumanComplete, tables
  <2>2. CompleteEvent(c, local[c].event, events[local[c].cycle][local[c].event].about) 
    BY <2>1 DEF HumanComplete
  <2> QED BY <2>2 DEF CompleteEvent, EventMarked
<1>5. local[c].event \in DOMAIN events[local[c].cycle] => events[local[c].cycle][local[c].event].about \in CycleStage \cup {"none"}
  <2>1. events[local[c].cycle] \in Seq(Event)
    BY <1>0, <1>3, Types
  <2>2. DOMAIN events[local[c].cycle] = 1 .. Len(events[local[c].cycle])
    BY <2>1, EventSeq, Zenon
  <2>3. \A j \in 1 .. Len(events[local[c].cycle]) : events[local[c].cycle][j] \in Event
    BY <2>1, EventSeq, Zenon
  <2> QED BY <2>2, <2>3 DEF Event
<1>6. /\ local[c].event \in DOMAIN events[local[c].cycle]
      /\ events[local[c].cycle][local[c].event].stage = "AWAITING_HUMAN"
  BY <1>0, <1>2 DEF HumanComplete, tables, InHand, Picked
<1> QED BY <1>0, <1>1, <1>2, <1>3, <1>4, <1>5, <1>6 DEF InHand, CallOK, Asking, Advancing, Targeted, Resuming

-----------------------------------------------------------------------------
(* Writes leave what the call still has in hand true.                      *)

LEMMA RowWritesSerial ==
  ASSUME SerialInv, OneAtATime, IInv', NEW c \in Calls,
         AdvanceWrite(c) \/ RouteWrite(c) \/ HumanWrite(c) \/ StatusWrite(c)
  PROVE  SerialInv'
<1>1. CASE AdvanceWrite(c)
  BY <1>1, AdvanceWriteFacts, RowSerial
<1>2. CASE RouteWrite(c)
  BY <1>2, RouteWriteFacts, RowSerial
<1>3. CASE HumanWrite(c)
  BY <1>3, HumanWriteFacts, RowSerial
<1>4. CASE StatusWrite(c)
  BY <1>4, StatusWriteFacts, RowSerial
<1> QED BY <1>1, <1>2, <1>3, <1>4

LEMMA StopWriteSerial ==
  ASSUME SerialInv, OneAtATime, IInv', NEW c \in Calls, StopWrite(c)
  PROVE  SerialInv'
<1> DEFINE k == local[c].cycle
<1>0. TypeOK
  BY DEF SerialInv, IInv
<1>1. /\ Step(c, "stop_write", "stop_event", local[c]) /\ k \in Cycles /\ Exists(k) /\ cycles[k].stage \in CycleStage
      /\ "STOPPED" \in CycleStatus /\ RowSet(k, cycles[k].stage, "STOPPED") /\ UNCHANGED events
      /\ cycles[k].stage = local[c].stage
  BY StopWriteFacts
<1>2. pc'[c] = "stop_event" /\ local'[c] = local[c]
  BY <1>0, <1>1, StepFacts
<1>3. cycles'[k].status = "STOPPED" /\ cycles'[k].stage = local[c].stage
  <2> HIDE DEF k
  <2> QED BY <1>0, <1>1, RowWritten
<1>4. InHand(c)'
  BY <1>2, <1>3 DEF InHand, Asking, Advancing, Targeted, Resuming
<1> HIDE DEF k
<1> QED BY <1>1, <1>4, RowSerial

LEMMA StartEventSerial ==
  ASSUME SerialInv, OneAtATime, IInv', NEW c \in Calls, StartEvent(c)
  PROVE  SerialInv'
<1> DEFINE k == local[c].cycle
           read == [local[c] EXCEPT !.event = Len(events[local[c].cycle]) + 1]
<1>0. TypeOK /\ local[c] \in Local
  BY Types DEF SerialInv, IInv
<1>1. /\ Step(c, "start_event", "start_done", read) /\ k \in Cycles /\ Exists(k) /\ "CREATED" \in CycleStage
      /\ "none" \in CycleStage \cup {"none"}
      /\ EventAdded(k, "CREATED", "none") /\ UNCHANGED <<cycles, stopped>>
      /\ cycles[k].stage = "CREATED" /\ cycles[k].status \in {"RUNNING", "SCHEDULED"} /\ cycles[k].of = Null
  BY StartEventFacts
<1>2. pc'[c] = "start_done" /\ local'[c] = read
  BY <1>0, <1>1, StepFacts
<1>3. local'[c].cycle = k /\ local'[c].event = Len(events[k]) + 1
  BY <1>0, <1>2 DEF Local
<1> HIDE DEF k
<1>4. /\ Len(events[k]) + 1 \in DOMAIN events'[k] /\ events'[k][Len(events[k]) + 1].stage = "CREATED"
      /\ \A j \in Cycles \ {k} : events'[j] = events[j]
  <2>1. events'[k][Len(events[k]) + 1].stage = "CREATED"
    BY <1>0, <1>1, NewEvent
  <2>2. DOMAIN events'[k] = 1 .. (Len(events[k]) + 1) /\ Len(events[k]) \in Nat
    BY <1>0, <1>1, EventCreated, Zenon
  <2>3. \A j \in Cycles \ {k} : events'[j] = events[j]
    BY <1>0, <1>1, EventCreated, Zenon
  <2> QED BY <2>1, <2>2, <2>3
<1>5. InHand(c)'
  BY <1>1, <1>2, <1>3, <1>4 DEF InHand, Asking, Advancing, Targeted, Resuming
<1> QED BY <1>1, <1>4, <1>5, EventSerial

(* An event created by a call that goes on with what it has.               *)
LEMMA AddedThenWritten ==
  ASSUME SerialInv, OneAtATime, IInv', NEW c \in Calls, NEW from, NEW to, Step(c, from, to, local[c]),
         <<from, to>> \in {<<"advance_create", "advance_write">>, <<"route_event", "route_write">>,
                           <<"human_event", "human_write">>},
         NEW k \in Cycles, k = local[c].cycle, NEW stage \in CycleStage, NEW about \in CycleStage \cup {"none"},
         EventAdded(k, stage, about), UNCHANGED <<cycles, stopped>>, Exists(k)
  PROVE  SerialInv'
<1>0. TypeOK /\ InHand(c)
  BY DEF SerialInv, IInv
<1>1. pc[c] = from /\ pc'[c] = to /\ local'[c] = local[c]
  BY <1>0, StepFacts
<1>2. events'[k] # << >> /\ \A j \in Cycles \ {k} : events'[j] = events[j]
  <2>1. DOMAIN events'[k] = 1 .. (Len(events[k]) + 1) /\ Len(events[k]) \in Nat
    BY <1>0, EventCreated, Zenon
  <2>2. \A j \in Cycles \ {k} : events'[j] = events[j]
    BY <1>0, EventCreated, Zenon
  <2> QED BY <2>1, <2>2
<1>3. completedLinearStages(local[c].cycle)' = completedLinearStages(local[c].cycle)
  <2>1. (completedLinearStages(k))' = completedLinearStages(k)
    BY <1>0, CompletedWhenAdded
  <2>2. local'[c].cycle = k
    BY <1>1
  <2> QED BY <2>1, <2>2 DEF completedLinearStages
<1>4. InHand(c)'
  BY <1>0, <1>1, <1>2, <1>3 DEF InHand, Asking, Advancing, Targeted, Resuming
<1> QED BY <1>2, <1>4, EventSerial

LEMMA EventAddsSerial ==
  ASSUME SerialInv, OneAtATime, IInv', NEW c \in Calls, AdvanceCreate(c) \/ RouteEvent(c) \/ HumanEvent(c)
  PROVE  SerialInv'
<1>1. CASE AdvanceCreate(c)
  BY <1>1, AdvanceCreateFacts, AddedThenWritten
<1>2. CASE RouteEvent(c)
  BY <1>2, RouteEventFacts, AddedThenWritten
<1>3. CASE HumanEvent(c)
  BY <1>3, HumanEventFacts, AddedThenWritten
<1> QED BY <1>1, <1>2, <1>3

LEMMA LastEventSerial ==
  ASSUME SerialInv, OneAtATime, IInv', NEW c \in Calls, RetryEvent(c) \/ StopEvent(c)
  PROVE  SerialInv'
<1>0. TypeOK
  BY DEF SerialInv, IInv
<1>1. CASE events' = events
  <2>1. Step(c, "retry_event", "idle", Nothing) \/ Step(c, "stop_event", "idle", Nothing)
    BY DEF RetryEvent, StopEvent, ReadStep
  <2>2. UNCHANGED cycles
    BY DEF RetryEvent, StopEvent, ReadStep, CreateEvent, tables
  <2> QED BY <1>1, <2>1, <2>2, SerialRead
<1>2. CASE events' # events /\ StopEvent(c)
  <2>1. \A j \in Cycles \ {local[c].cycle} : events'[j] = events[j]
    BY <1>0, <1>2, StopEventFacts, EventCreated
  <2> QED BY <1>2, <2>1, StopEventFacts, EventSerial
<1>3. CASE events' # events /\ RetryEvent(c)
  <2>1. \A j \in Cycles \ {local[c].cycle} : events'[j] = events[j]
    BY <1>0, <1>3, RetryEventFacts, EventCreated
  <2> QED BY <1>3, <2>1, RetryEventFacts, EventSerial
<1> QED BY <1>1, <1>2, <1>3

LEMMA EventMarksSerial ==
  ASSUME SerialInv, OneAtATime, IInv', NEW c \in Calls, StartDone(c) \/ AdvanceComplete(c) \/ HumanComplete(c)
  PROVE  SerialInv'
<1>0. TypeOK /\ InHand(c)
  BY DEF SerialInv, IInv
<1>1. CASE StartDone(c)
  <2>1. \A j \in Cycles \ {local[c].cycle} : events'[j] = events[j]
    BY <1>0, <1>1, StartDoneFacts, EventCompleted
  <2> QED BY <1>1, <2>1, StartDoneFacts, EventSerial
<1>2. CASE AdvanceComplete(c)
  <2>1. \A j \in Cycles \ {local[c].cycle} : events'[j] = events[j]
    BY <1>0, <1>2, AdvanceCompleteFacts, EventCompleted
  <2>2. pc[c] = "advance_complete" /\ pc'[c] = "advance_create" /\ local'[c] = local[c]
    BY <1>0, <1>2, AdvanceCompleteFacts, StepFacts
  <2>3. UNCHANGED <<cycles, stopped>>
    BY <1>2, AdvanceCompleteFacts
  <2>4. InHand(c)'
    BY <1>0, <2>2, <2>3 DEF InHand, Asking, Advancing, Targeted, Resuming
  <2> QED BY <1>2, <2>1, <2>4, AdvanceCompleteFacts, EventSerial
<1>3. CASE HumanComplete(c)
  <2>1. Step(c, "human_complete", "human_history", local[c]) /\ UNCHANGED cycles
    BY <1>3 DEF HumanComplete, CompleteEvent, tables
  <2>2. pc[c] = "human_complete" /\ pc'[c] = "human_history" /\ local'[c] = local[c]
    BY <1>0, <2>1, StepFacts
  <2>3. InHand(c)'
    BY <1>0, <2>1, <2>2 DEF InHand, Asking, Advancing, Targeted, Resuming
  <2>4. CASE events' = events
    BY <2>1, <2>3, <2>4, SerialRead
  <2>5. CASE events' # events
    <3>1. \A j \in Cycles \ {local[c].cycle} : events'[j] = events[j]
      BY <1>0, <1>3, <2>5, HumanCompleteFacts, EventCompleted
    <3> QED BY <1>3, <2>1, <2>3, <2>5, <3>1, HumanCompleteFacts, EventSerial
  <2> QED BY <2>4, <2>5
<1> QED BY <1>1, <1>2, <1>3

(* A row that is created is the first of its number, and is the call's.    *)
LEMMA StartRowFacts ==
  ASSUME SerialInv, NEW c \in Calls, StartRow(c), cycles' # cycles
  PROVE  \E k \in Cycles :
           /\ Step(c, "start_row", "start_event", [local[c] EXCEPT !.cycle = k]) /\ pc[c] = "start_row"
           /\ ~Exists(k) /\ events[k] = << >>
           /\ cycles'[k].status \in {"RUNNING", "SCHEDULED"} /\ cycles'[k].stage = "CREATED" /\ cycles'[k].of = Null
           /\ \A j \in Cycles \ {k} : cycles'[j] = cycles[j]
           /\ UNCHANGED <<events, recs, stopped>>
<1>0. TypeOK /\ CallOK(c) /\ cycles \in [Cycles -> Row]
  BY Types DEF SerialInv, IInv
<1>1. PICK k \in Cycles :
        /\ ~Exists(k) /\ Step(c, "start_row", "start_event", [local[c] EXCEPT !.cycle = k])
        /\ cycles' = [cycles EXCEPT ![k] = [status |-> local[c].status, stage |-> "CREATED", of |-> Null, key |-> local[c].to]]
        /\ UNCHANGED <<events, recs, stopped>>
  BY DEF StartRow, NextCycle, ReadStep, tables
<1>2. pc[c] = "start_row"
  BY <1>0, <1>1, StepFacts
<1>3. local[c].status \in {"RUNNING", "SCHEDULED"}
  BY <1>0, <1>2 DEF CallOK
<1>4. events[k] = << >>
  BY <1>1 DEF SerialInv, NothingOfTheAbsent
<1>5. /\ cycles'[k] = [status |-> local[c].status, stage |-> "CREATED", of |-> Null, key |-> local[c].to]
      /\ \A j \in Cycles \ {k} : cycles'[j] = cycles[j]
  BY <1>0, <1>1
<1>6. cycles'[k].status \in {"RUNNING", "SCHEDULED"} /\ cycles'[k].stage = "CREATED" /\ cycles'[k].of = Null
  BY <1>3, <1>5
<1> WITNESS k \in Cycles
<1> QED BY <1>1, <1>2, <1>4, <1>5, <1>6

LEMMA RetryRowFacts ==
  ASSUME SerialInv, NEW c \in Calls, RetryRow(c)
  PROVE  \E k \in Cycles :
           /\ Step(c, "retry_row", "retry_event", [local[c] EXCEPT !.cycle = k]) /\ pc[c] = "retry_row"
           /\ ~Exists(k) /\ events[k] = << >> /\ local[c].cycle \in Cycles /\ local[c].to \in CycleStage
           /\ cycles'[k].status = "RUNNING" /\ cycles'[k].stage = local[c].to /\ cycles'[k].of = local[c].cycle
           /\ \A j \in Cycles \ {k} : cycles'[j] = cycles[j]
           /\ UNCHANGED <<events, recs, stopped>>
           /\ cycles[local[c].cycle].status = "FAILED"
           /\ local[c].to = resolveResumeStage(completedLinearStages(local[c].cycle)) /\ (local[c].to = "EXECUTING" => ~stopped)
<1>0. TypeOK /\ CallOK(c) /\ InHand(c) /\ cycles \in [Cycles -> Row]
  BY Types DEF SerialInv, IInv
<1>1. PICK k \in Cycles :
        /\ ~Exists(k) /\ Step(c, "retry_row", "retry_event", [local[c] EXCEPT !.cycle = k])
        /\ cycles' = [cycles EXCEPT ![k] = [status |-> "RUNNING", stage |-> local[c].to, of |-> local[c].cycle, key |-> "none"]]
        /\ UNCHANGED <<events, recs, stopped>>
  BY DEF RetryRow, NextCycle
<1>2. pc[c] = "retry_row"
  BY <1>0, <1>1, StepFacts
<1>3. local[c].cycle \in Cycles /\ local[c].to \in CycleStage
  BY <1>0, <1>2 DEF CallOK, Targeted, Advancing
<1>4. events[k] = << >>
  BY <1>1 DEF SerialInv, NothingOfTheAbsent
<1>5. /\ cycles'[k] = [status |-> "RUNNING", stage |-> local[c].to, of |-> local[c].cycle, key |-> "none"]
      /\ \A j \in Cycles \ {k} : cycles'[j] = cycles[j]
  BY <1>0, <1>1
<1>6. /\ cycles[local[c].cycle].status = "FAILED"
      /\ local[c].to = resolveResumeStage(completedLinearStages(local[c].cycle)) /\ (local[c].to = "EXECUTING" => ~stopped)
  BY <1>0, <1>2 DEF InHand
<1>7. cycles'[k].status = "RUNNING" /\ cycles'[k].stage = local[c].to /\ cycles'[k].of = local[c].cycle
  BY <1>5
<1> WITNESS k \in Cycles
<1> QED BY <1>1, <1>2, <1>3, <1>4, <1>5, <1>6, <1>7

LEMMA NewRowsSerial ==
  ASSUME SerialInv, OneAtATime, IInv', NEW c \in Calls, StartRow(c) \/ RetryRow(c)
  PROVE  SerialInv'
<1>0. TypeOK /\ local[c] \in Local
  BY Types DEF SerialInv, IInv
<1>1. CASE StartRow(c) /\ cycles' = cycles
  <2>1. UNCHANGED events /\ Step(c, "start_row", "idle", Nothing)
    <3>1. ASSUME NEW k \in Cycles, NextCycle(k),
                 cycles' = [cycles EXCEPT ![k] = [status |-> local[c].status, stage |-> "CREATED", of |-> Null, key |-> local[c].to]],
                 Step(c, "start_row", "start_event", [local[c] EXCEPT !.cycle = k])
          PROVE  FALSE
      <4>1. cycles'[k].status = local[c].status
        BY <1>0, <3>1, Types
      <4>2. pc[c] = "start_row"
        BY <1>0, <3>1, StepFacts
      <4>3. local[c].status # "ABSENT"
        BY <4>2 DEF SerialInv, IInv, CallOK
      <4> QED BY <1>1, <3>1, <4>1, <4>3 DEF NextCycle, Exists
    <3> QED BY <1>1, <3>1 DEF StartRow, ReadStep, tables
  <2> QED BY <1>1, <2>1, SerialRead
<1>2. CASE StartRow(c) /\ cycles' # cycles
  <2> PICK k \in Cycles :
           /\ Step(c, "start_row", "start_event", [local[c] EXCEPT !.cycle = k])
           /\ ~Exists(k) /\ events[k] = << >>
           /\ cycles'[k].status \in {"RUNNING", "SCHEDULED"} /\ cycles'[k].stage = "CREATED" /\ cycles'[k].of = Null
           /\ \A j \in Cycles \ {k} : cycles'[j] = cycles[j]
           /\ UNCHANGED events
    BY <1>2, StartRowFacts
  <2>1. pc'[c] = "start_event" /\ local'[c] = [local[c] EXCEPT !.cycle = k]
    BY <1>0, StepFacts
  <2>2. local'[c].cycle = k
    BY <1>0, <2>1 DEF Local
  <2>3. InHand(c)'
    BY <2>1, <2>2 DEF InHand, Asking, Advancing, Targeted, Resuming
  <2>4. NothingOfTheAbsent'
    BY DEF SerialInv, NothingOfTheAbsent, Exists
  <2> QED BY <2>3, <2>4, SerialStep
<1>3. CASE RetryRow(c)
  <2> PICK k \in Cycles :
           /\ Step(c, "retry_row", "retry_event", [local[c] EXCEPT !.cycle = k])
           /\ ~Exists(k) /\ events[k] = << >> /\ local[c].cycle \in Cycles
           /\ cycles'[k].status = "RUNNING" /\ cycles'[k].stage = local[c].to /\ cycles'[k].of = local[c].cycle
           /\ \A j \in Cycles \ {k} : cycles'[j] = cycles[j]
           /\ UNCHANGED events
    BY <1>3, RetryRowFacts
  <2>1. pc'[c] = "retry_event" /\ local'[c] = [local[c] EXCEPT !.cycle = k]
    BY <1>0, StepFacts
  <2>2. local'[c].cycle = k /\ local'[c].to = local[c].to
    BY <1>0, <2>1 DEF Local
  <2>3. local[c].cycle # Null
    BY DEF Cycles, Null
  <2>4. InHand(c)'
    BY <2>1, <2>2, <2>3 DEF InHand, Asking, Advancing, Targeted, Resuming
  <2>5. NothingOfTheAbsent'
    BY DEF SerialInv, NothingOfTheAbsent, Exists
  <2> QED BY <2>4, <2>5, SerialStep
<1> QED BY <1>1, <1>2, <1>3

-----------------------------------------------------------------------------
LEMMA InitSerial == Init => SerialInv
<1> SUFFICES ASSUME Init PROVE SerialInv
  OBVIOUS
<1>1. Alone /\ \A c \in Calls : InHand(c)
  BY IdleInHand DEF Init, Alone
<1>2. NothingOfTheAbsent
  BY DEF Init, NothingOfTheAbsent
<1> QED BY <1>1, <1>2, InitIInv DEF SerialInv

(* No call is under way before and after.                                  *)
LEMMA IdleSerial ==
  ASSUME SerialInv, IInv', \A c \in Calls : pc'[c] = "idle", UNCHANGED <<cycles, events>>
  PROVE  SerialInv'
<1>1. Alone' /\ NothingOfTheAbsent'
  BY DEF SerialInv, Alone, NothingOfTheAbsent, Exists
<1>2. \A c \in Calls : InHand(c)'
  BY DEF InHand, Asking, Advancing, Targeted, Resuming
<1> QED BY <1>1, <1>2 DEF SerialInv

LEMMA UntouchedSerial ==
  ASSUME SerialInv, IInv', UNCHANGED <<cycles, events, stopped, pc, local>>
  PROVE  SerialInv'
<1>1. Alone' /\ NothingOfTheAbsent'
  BY DEF SerialInv, Alone, NothingOfTheAbsent, Exists
<1>2. ASSUME NEW c \in Calls PROVE InHand(c)'
  <2>1. (completedLinearStages(local[c].cycle))' = completedLinearStages(local[c].cycle)
    BY DEF completedLinearStages
  <2> QED BY <2>1, ZenonT(60) DEF SerialInv, InHand, Picked, Exists
<1> QED BY <1>1, <1>2 DEF SerialInv

LEMMA BeginSerial ==
  ASSUME SerialInv, OneAtATime, IInv', NEW c \in Calls, Begin(c)
  PROVE  SerialInv'
<1>0. TypeOK /\ \A k \in Cycles : cycles[k].stage \in CycleStage
  BY Types DEF SerialInv, IInv, Row
<1>1. CASE \E key \in profile.keys, status \in {"RUNNING", "SCHEDULED"} : StartRead(c, key, status)
  <2>1. profile.keys \subseteq Keys
    BY <1>0, ProfilesAssumption, Types DEF Profile
  <2> QED BY <1>1, <2>1, StartReadSerial
<1>2. CASE \E k \in Cycles : Advance(c, k)
  BY <1>2, AdvanceReadSerial DEF Advance
<1>3. CASE \E k \in Cycles : Route(c, k)
  BY <1>3, RouteReadSerial DEF Route, Room
<1>4. CASE \E k \in Cycles : HumanRead(c, k) \/ RetryRead(c, k)
  BY <1>4, HumanReadSerial, RetryReadSerial
<1>5. CASE \E k \in Cycles, op \in DOMAIN StatusOf : StatusRead(c, k, op)
  BY <1>5, StatusReadSerial
<1>6. CASE Stop(c)
  <2>1. \A d \in Calls : pc'[d] = "idle"
    BY <1>0, <1>6, FreeAlone DEF Stop
  <2> QED BY <1>6, <2>1, IdleSerial DEF Stop
<1> QED BY <1>1, <1>2, <1>3, <1>4, <1>5, <1>6 DEF Begin

LEMMA ContinueSerial ==
  ASSUME SerialInv, OneAtATime, IInv', NEW c \in Calls, Continue(c)
  PROVE  SerialInv'
<1>0. TypeOK /\ CallOK(c) /\ InHand(c)
  BY DEF SerialInv, IInv
<1>1. CASE StartRow(c) \/ RetryRow(c)
  BY <1>1, NewRowsSerial
<1>2. CASE StartEvent(c) \/ AdvanceCreate(c) \/ RouteEvent(c) \/ HumanEvent(c) \/ RetryEvent(c) \/ StopEvent(c)
  BY <1>2, StartEventSerial, EventAddsSerial, LastEventSerial
<1>3. CASE StartDone(c) \/ AdvanceComplete(c) \/ HumanComplete(c)
  BY <1>3, EventMarksSerial
<1>4. CASE AdvanceWrite(c) \/ RouteWrite(c) \/ HumanWrite(c) \/ StatusWrite(c) \/ StopWrite(c)
  BY <1>4, RowWritesSerial, StopWriteSerial
<1>5. CASE AdvanceRun(c)
  <2>1. pc[c] = "advance_read"
    BY <1>5 DEF AdvanceRun, AdvanceRead, ReadStep, Step
  <2>2. local[c].cycle \in Cycles /\ local[c].about = cycles[local[c].cycle].stage
    BY <1>0, <2>1 DEF CallOK, InHand
  <2> QED BY <1>5, <2>2, AdvanceReadSerial DEF AdvanceRun
<1>6. CASE AdvanceBudget(c)
  <2>1. CASE AdvanceWithin(c, NextStage(c))
    BY <2>1, AdvanceWithinSerial
  <2>2. CASE ReadStep(c, "advance_budget", TRUE, "stop_read", local[c])
    BY <2>2, CheckSerial DEF ReadStep, tables
  <2> QED BY <1>6, <2>1, <2>2 DEF AdvanceBudget
<1>7. CASE AdvanceStop(c)
  <2>1. \/ Step(c, "advance_stop", "advance_find", local[c]) /\ ~stopped
        \/ Step(c, "advance_stop", "idle", local[c])
    BY <1>7 DEF AdvanceStop, ReadStep
  <2> QED BY <1>7, <2>1, CheckSerial DEF AdvanceStop, ReadStep, tables
<1>8. CASE AdvanceFind(c)
  BY <1>8, AdvanceFindSerial
<1>9. CASE StopRead(c)
  <2>1. \/ Step(c, "stop_read", "stop_write", local[c])
        \/ Step(c, "stop_read", "idle", local[c])
    BY <1>9 DEF StopRead, ReadStep
  <2> QED BY <1>9, <2>1, CheckSerial DEF StopRead, ReadStep, tables
<1>10. CASE RunRecs(c) \/ RunCeo(c)
  BY <1>10, RunRecsSerial, RunCeoSerial
<1>11. CASE RunChairman(c)
  <2>1. \/ Step(c, "run_chairman", "route_read", local[c])
        \/ Step(c, "run_chairman", "idle", local[c])
    BY <1>11 DEF RunChairman, ReadStep
  <2> QED BY <1>11, <2>1, CheckSerial DEF RunChairman, ReadStep, tables
<1>12. CASE RouteRun(c)
  <2>1. pc[c] = "route_read"
    BY <1>12 DEF RouteRun, RouteRead, ReadStep, Step
  <2>2. local[c].cycle \in Cycles /\ Exists(local[c].cycle)
    BY <1>0, <2>1 DEF CallOK, InHand
  <2> QED BY <1>12, <2>2, RouteReadSerial DEF RouteRun
<1>13. CASE HumanHistory(c) \/ RetryHistory(c)
  BY <1>13, HumanHistorySerial, RetryHistorySerial
<1> QED BY <1>1, <1>2, <1>3, <1>4, <1>5, <1>6, <1>7, <1>8, <1>9, <1>10, <1>11, <1>12, <1>13 DEF Continue

LEMMA NextSerial == SerialInv /\ OneAtATime /\ [Next]_vars => SerialInv'
<1> SUFFICES ASSUME SerialInv, OneAtATime, [Next]_vars PROVE SerialInv'
  OBVIOUS
<1>0. IInv' /\ TypeOK
  BY NextIInv DEF SerialInv, IInv
<1>1. CASE \E c \in Calls : Begin(c) \/ Continue(c)
  BY <1>0, <1>1, BeginSerial, ContinueSerial
<1>2. CASE Drive
  BY <1>0, <1>2, RunSerial DEF Drive
<1>3. CASE HumanDecides
  BY <1>0, <1>3, UntouchedSerial DEF HumanDecides, Decide
<1>4. CASE Spend
  BY <1>0, <1>4, UntouchedSerial DEF Spend
<1>5. CASE Crash
  <2>1. \A c \in Calls : pc'[c] = "idle"
    BY <1>5 DEF Crash
  <2> QED BY <1>0, <1>5, <2>1, IdleSerial DEF Crash, tables
<1>6. CASE UNCHANGED vars
  BY <1>0, <1>6, UntouchedSerial DEF vars, tables
<1> QED BY <1>1, <1>2, <1>3, <1>4, <1>5, <1>6 DEF Next

(* The way the service is used does not change.                            *)
LEMMA ProfileKept == [Next]_vars => profile' = profile
<1> SUFFICES ASSUME [Next]_vars PROVE profile' = profile
  OBVIOUS
<1>1. ASSUME NEW c \in Calls, Begin(c) PROVE profile' = profile
  BY <1>1 DEF Begin, StartRead, Advance, AdvanceRead, Route, RouteRead, HumanRead, RetryRead, StatusRead, Stop, ReadStep, Step
<1>2. ASSUME NEW c \in Calls, Continue(c) PROVE profile' = profile
  BY <1>2 DEF Continue, StartRow, StartEvent, StartDone, AdvanceRun, AdvanceRead, AdvanceBudget, AdvanceWithin, AdvanceStop,
              AdvanceFind, AdvanceComplete, AdvanceCreate, AdvanceWrite, StopRead, StopWrite, StopEvent, RunRecs, RunCeo,
              RunChairman, RouteRun, RouteRead, RouteEvent, RouteWrite, HumanComplete, HumanHistory, HumanEvent, HumanWrite,
              StatusWrite, RetryHistory, RetryRow, RetryEvent, ReadStep, Step
<1>3. CASE Drive
  BY <1>3 DEF Drive, Run, ReadStep, Step
<1>4. CASE HumanDecides \/ Spend \/ Crash \/ UNCHANGED vars
  BY <1>4 DEF HumanDecides, Decide, Spend, Crash, vars
<1> QED BY <1>1, <1>2, <1>3, <1>4 DEF Next

LEMMA Serial == OneAtATime /\ Spec => [](SerialInv /\ OneAtATime)
<1>1. OneAtATime /\ [Next]_vars => OneAtATime'
  BY ProfileKept DEF OneAtATime
<1> QED BY <1>1, InitSerial, NextSerial, PTL DEF Spec

-----------------------------------------------------------------------------
(* How a row changes: it is created, by a start or a retry; its status is  *)
(* changed; it is advanced; it is routed to a human; or it is resumed.     *)

Holder(k, where) == \E c \in Calls : pc[c] = where /\ local[c].cycle = k

Created(k) ==
  /\ ~Exists(k) /\ events[k] = << >>
  /\ \/ /\ cycles'[k].status \in {"RUNNING", "SCHEDULED"} /\ cycles'[k].stage = "CREATED" /\ cycles'[k].of = Null
        /\ \E c \in Calls : pc'[c] = "start_event" /\ local'[c].cycle = k
     \/ /\ cycles'[k].status = "RUNNING" /\ cycles'[k].of \in Cycles /\ cycles[cycles'[k].of].status = "FAILED"
        /\ cycles'[k].stage = resolveResumeStage(completedLinearStages(cycles'[k].of))
        /\ cycles'[k].stage = "EXECUTING" => ~stopped
        /\ \E c \in Calls : pc'[c] = "retry_event" /\ local'[c].cycle = k

Restated(k) ==
  /\ Exists(k)
  /\ cycles'[k].status \in CYCLE_STATUS_TRANSITIONS[cycles[k].status]
  /\ cycles'[k].status \in {"PAUSED", "RUNNING", "CANCELLED", "FAILED", "STOPPED"}
  /\ cycles'[k].stage = cycles[k].stage /\ cycles'[k].of = cycles[k].of
  /\ cycles'[k].status = "RUNNING" => \E c \in Calls : pc[c] = "status_write" /\ local[c].status = "RUNNING"

Staged(k) ==
  /\ cycles[k].status = "RUNNING"
  /\ cycles'[k].status = (IF cycles'[k].stage = "COMPLETED" THEN "COMPLETED" ELSE "RUNNING")
  /\ Index(cycles'[k].stage) > Index(cycles[k].stage) /\ (cycles'[k].stage = "EXECUTING" => ~stopped)
  /\ cycles'[k].of = cycles[k].of
  /\ \E c \in Calls : pc[c] = "advance_write" /\ local[c].cycle = k /\ local[c].to = cycles'[k].stage /\ local[c].stage = cycles[k].stage

Routed(k) ==
  /\ cycles[k].status \in {"RUNNING", "SCHEDULED"}
  /\ cycles'[k].status = "AWAITING_HUMAN" /\ cycles'[k].stage = "AWAITING_HUMAN" /\ cycles'[k].of = cycles[k].of
  /\ Holder(k, "route_write")

Resumed(k) ==
  /\ cycles[k].status = "AWAITING_HUMAN"
  /\ cycles'[k].status = (IF cycles'[k].stage = "COMPLETED" THEN "COMPLETED" ELSE "RUNNING")
  /\ cycles'[k].stage = resolveResumeStage(completedLinearStages(k)) /\ (cycles'[k].stage = "EXECUTING" => ~stopped)
  /\ cycles'[k].of = cycles[k].of
  /\ \E c \in Calls : pc[c] = "human_write" /\ local[c].cycle = k /\ local[c].to = cycles'[k].stage

RowMoves ==
  \E k \in Cycles :
    /\ \A j \in Cycles \ {k} : cycles'[j] = cycles[j]
    /\ UNCHANGED <<events, recs, stopped>>
    /\ Created(k) \/ Restated(k) \/ Staged(k) \/ Routed(k) \/ Resumed(k)

LEMMA NewRowMoves ==
  ASSUME SerialInv, NEW c \in Calls, StartRow(c) \/ RetryRow(c), cycles' # cycles
  PROVE  RowMoves
<1>0. TypeOK /\ local[c] \in Local
  BY Types DEF SerialInv, IInv
<1>1. CASE StartRow(c)
  <2> PICK k \in Cycles :
           /\ Step(c, "start_row", "start_event", [local[c] EXCEPT !.cycle = k])
           /\ ~Exists(k) /\ events[k] = << >>
           /\ cycles'[k].status \in {"RUNNING", "SCHEDULED"} /\ cycles'[k].stage = "CREATED" /\ cycles'[k].of = Null
           /\ \A j \in Cycles \ {k} : cycles'[j] = cycles[j]
           /\ UNCHANGED <<events, recs, stopped>>
    BY <1>1, StartRowFacts
  <2>1. pc'[c] = "start_event" /\ local'[c] = [local[c] EXCEPT !.cycle = k]
    BY <1>0, StepFacts
  <2>2. local'[c].cycle = k
    BY <1>0, <2>1 DEF Local
  <2>3. Created(k)
    BY <2>1, <2>2 DEF Created
  <2> QED BY <2>3 DEF RowMoves
<1>2. CASE RetryRow(c)
  <2> PICK k \in Cycles :
           /\ Step(c, "retry_row", "retry_event", [local[c] EXCEPT !.cycle = k])
           /\ ~Exists(k) /\ events[k] = << >> /\ local[c].cycle \in Cycles
           /\ cycles'[k].status = "RUNNING" /\ cycles'[k].stage = local[c].to /\ cycles'[k].of = local[c].cycle
           /\ \A j \in Cycles \ {k} : cycles'[j] = cycles[j]
           /\ UNCHANGED <<events, recs, stopped>>
           /\ cycles[local[c].cycle].status = "FAILED"
           /\ local[c].to = resolveResumeStage(completedLinearStages(local[c].cycle)) /\ (local[c].to = "EXECUTING" => ~stopped)
    BY <1>2, RetryRowFacts
  <2>1. pc'[c] = "retry_event" /\ local'[c] = [local[c] EXCEPT !.cycle = k]
    BY <1>0, StepFacts
  <2>2. local'[c].cycle = k
    BY <1>0, <2>1 DEF Local
  <2>3. completedLinearStages(cycles'[k].of) = completedLinearStages(local[c].cycle)
    BY DEF completedLinearStages
  <2>4. Created(k)
    BY <2>1, <2>2, <2>3 DEF Created
  <2> QED BY <2>4 DEF RowMoves
<1> QED BY <1>1, <1>2

LEMMA WrittenRowMoves ==
  ASSUME SerialInv, NEW c \in Calls,
         AdvanceWrite(c) \/ StopWrite(c) \/ RouteWrite(c) \/ HumanWrite(c) \/ StatusWrite(c)
  PROVE  RowMoves
<1> DEFINE k == local[c].cycle
<1>0. TypeOK
  BY DEF SerialInv, IInv
<1>1. CASE AdvanceWrite(c)
  <2> DEFINE stage == local[c].to
             status == IF stage = "COMPLETED" THEN "COMPLETED" ELSE "RUNNING"
  <2>1. /\ pc[c] = "advance_write" /\ k \in Cycles /\ stage \in CycleStage /\ status \in CycleStatus
        /\ RowSet(k, stage, status) /\ UNCHANGED <<events, recs, stopped>>
        /\ cycles[k].status = "RUNNING" /\ cycles[k].stage = local[c].stage /\ Index(stage) > Index(cycles[k].stage)
        /\ stage = "EXECUTING" => ~stopped
    BY <1>1, AdvanceWriteFacts
  <2>2. /\ cycles'[k].status = status /\ cycles'[k].stage = stage /\ cycles'[k].of = cycles[k].of
        /\ \A j \in Cycles \ {k} : cycles'[j] = cycles[j]
    <3> HIDE DEF k, stage, status
    <3> QED BY <1>0, <2>1, RowWritten
  <2>3. Staged(k)
    BY <2>1, <2>2 DEF Staged
  <2> QED BY <2>1, <2>2, <2>3 DEF RowMoves
<1>2. CASE StopWrite(c)
  <2>1. /\ k \in Cycles /\ Exists(k) /\ cycles[k].stage \in CycleStage /\ "STOPPED" \in CycleStatus
        /\ RowSet(k, cycles[k].stage, "STOPPED") /\ UNCHANGED <<events, recs, stopped>>
        /\ cycles[k].status = "RUNNING"
    BY <1>2, StopWriteFacts
  <2>2. /\ cycles'[k].status = "STOPPED" /\ cycles'[k].stage = cycles[k].stage /\ cycles'[k].of = cycles[k].of
        /\ \A j \in Cycles \ {k} : cycles'[j] = cycles[j]
    <3> HIDE DEF k
    <3> QED BY <1>0, <2>1, RowWritten
  <2>3. "STOPPED" \in CYCLE_STATUS_TRANSITIONS["RUNNING"]
    BY DEF CYCLE_STATUS_TRANSITIONS, CycleStatus
  <2>4. Restated(k)
    BY <2>1, <2>2, <2>3 DEF Restated
  <2> QED BY <2>1, <2>2, <2>4 DEF RowMoves
<1>3. CASE RouteWrite(c)
  <2>1. /\ pc[c] = "route_write" /\ k \in Cycles /\ "AWAITING_HUMAN" \in CycleStage /\ "AWAITING_HUMAN" \in CycleStatus
        /\ RowSet(k, "AWAITING_HUMAN", "AWAITING_HUMAN") /\ UNCHANGED <<events, recs, stopped>>
        /\ cycles[k].status \in {"RUNNING", "SCHEDULED"}
    BY <1>3, RouteWriteFacts
  <2>2. /\ cycles'[k].status = "AWAITING_HUMAN" /\ cycles'[k].stage = "AWAITING_HUMAN" /\ cycles'[k].of = cycles[k].of
        /\ \A j \in Cycles \ {k} : cycles'[j] = cycles[j]
    <3> HIDE DEF k
    <3> QED BY <1>0, <2>1, RowWritten
  <2>3. Routed(k)
    BY <2>1, <2>2 DEF Routed, Holder
  <2> QED BY <2>1, <2>2, <2>3 DEF RowMoves
<1>4. CASE HumanWrite(c)
  <2> DEFINE stage == local[c].to
             status == IF stage = "COMPLETED" THEN "COMPLETED" ELSE "RUNNING"
  <2>1. /\ pc[c] = "human_write" /\ k \in Cycles /\ stage \in CycleStage /\ status \in CycleStatus
        /\ RowSet(k, stage, status) /\ UNCHANGED <<events, recs, stopped>>
        /\ cycles[k].status = "AWAITING_HUMAN" /\ stage = resolveResumeStage(completedLinearStages(k))
        /\ stage = "EXECUTING" => ~stopped
    BY <1>4, HumanWriteFacts
  <2>2. /\ cycles'[k].status = status /\ cycles'[k].stage = stage /\ cycles'[k].of = cycles[k].of
        /\ \A j \in Cycles \ {k} : cycles'[j] = cycles[j]
    <3> HIDE DEF k, stage, status
    <3> QED BY <1>0, <2>1, RowWritten
  <2>3. Resumed(k)
    BY <2>1, <2>2 DEF Resumed
  <2> QED BY <2>1, <2>2, <2>3 DEF RowMoves
<1>5. CASE StatusWrite(c)
  <2> DEFINE status == local[c].status
  <2>1. /\ k \in Cycles /\ Exists(k) /\ cycles[k].stage \in CycleStage /\ status \in CycleStatus
        /\ RowSet(k, cycles[k].stage, status) /\ UNCHANGED <<events, recs, stopped>>
        /\ status \in CYCLE_STATUS_TRANSITIONS[cycles[k].status]
        /\ status \in {"PAUSED", "RUNNING", "CANCELLED", "FAILED"} /\ pc[c] = "status_write"
    BY <1>5, StatusWriteFacts
  <2>2. /\ cycles'[k].status = status /\ cycles'[k].stage = cycles[k].stage /\ cycles'[k].of = cycles[k].of
        /\ \A j \in Cycles \ {k} : cycles'[j] = cycles[j]
    <3> HIDE DEF k, status
    <3> QED BY <1>0, <2>1, RowWritten
  <2>3. Restated(k)
    BY <2>1, <2>2 DEF Restated
  <2> QED BY <2>1, <2>2, <2>3 DEF RowMoves
<1> QED BY <1>1, <1>2, <1>3, <1>4, <1>5

(* The calls and steps that write no row.                                  *)
LEMMA ReadersKeepRows ==
  ASSUME NEW c \in Calls, Begin(c) \/ Continue(c)
  PROVE  \/ UNCHANGED cycles
         \/ StartRow(c) \/ RetryRow(c) \/ AdvanceWrite(c) \/ StopWrite(c) \/ RouteWrite(c) \/ HumanWrite(c) \/ StatusWrite(c)
<1>1. CASE Begin(c)
  BY <1>1 DEF Begin, StartRead, Advance, AdvanceRead, Route, RouteRead, HumanRead, RetryRead, StatusRead, Stop, ReadStep, tables
<1>2. CASE Continue(c)
  BY <1>2 DEF Continue, StartEvent, StartDone, AdvanceRun, AdvanceRead, AdvanceBudget, AdvanceWithin, AdvanceStop,
              AdvanceFind, AdvanceComplete, AdvanceCreate, StopRead, StopEvent, RunRecs, RunCeo,
              RunChairman, RouteRun, RouteRead, RouteEvent, HumanComplete, HumanHistory, HumanEvent,
              RetryHistory, RetryEvent, ReadStep, CreateEvent, CompleteEvent, tables
<1> QED BY <1>1, <1>2

LEMMA RowSteps ==
  ASSUME SerialInv, [Next]_vars
  PROVE  UNCHANGED cycles \/ RowMoves
<1>1. ASSUME NEW c \in Calls, Begin(c) \/ Continue(c), cycles' # cycles PROVE RowMoves
  BY <1>1, ReadersKeepRows, NewRowMoves, WrittenRowMoves
<1>2. CASE Drive
  BY <1>2 DEF Drive, Run, ReadStep, tables
<1>3. CASE HumanDecides \/ Spend \/ Crash \/ UNCHANGED vars
  BY <1>3 DEF HumanDecides, Decide, Spend, Crash, vars, tables
<1> QED BY <1>1, <1>2, <1>3 DEF Next

(* Served one at a time, a call finds a cycle that has ended, or that was  *)
(* paused, as it was when it read it: nothing moves it again.              *)
THEOREM SettledStaySettled == OneAtATime /\ Spec => SettledCyclesHoldStill
<1>1. SerialInv /\ [Next]_vars =>
        [\A k \in Cycles :
           /\ cycles[k].status \in Ended => cycles'[k] = cycles[k]
           /\ cycles[k].status = "PAUSED" => cycles'[k].stage = cycles[k].stage]_vars
  <2> SUFFICES ASSUME SerialInv, [Next]_vars, NEW k \in Cycles
               PROVE  /\ cycles[k].status \in Ended => cycles'[k] = cycles[k]
                      /\ cycles[k].status = "PAUSED" => cycles'[k].stage = cycles[k].stage
    OBVIOUS
  <2>1. CASE cycles'[k] = cycles[k]
    BY <2>1
  <2>2. CASE Created(k) \/ Staged(k) \/ Routed(k) \/ Resumed(k)
    BY <2>2 DEF Created, Staged, Routed, Resumed, Ended, Exists
  <2>3. CASE Restated(k)
    BY <2>3, StatusTransitions DEF Restated
  <2> QED BY <2>1, <2>2, <2>3, RowSteps DEF RowMoves
<1> QED BY <1>1, Serial, PTL DEF Spec, SettledCyclesHoldStill

(* The stop is read by the call that goes on to write EXECUTING, and while *)
(* that call is served nobody activates it.                                *)
THEOREM StopsHoldExecution == OneAtATime /\ Spec => NothingStartsExecutingWhileStopped
<1>1. SerialInv /\ [Next]_vars =>
        [\A k \in Cycles : cycles[k].stage # "EXECUTING" /\ cycles'[k].stage = "EXECUTING" => ~stopped]_vars
  <2> SUFFICES ASSUME SerialInv, [Next]_vars, NEW k \in Cycles, cycles[k].stage # "EXECUTING", cycles'[k].stage = "EXECUTING"
               PROVE  ~stopped
    OBVIOUS
  <2>1. CASE cycles'[k] = cycles[k]
    BY <2>1
  <2>2. CASE Created(k) \/ Restated(k) \/ Staged(k) \/ Routed(k) \/ Resumed(k)
    BY <2>2 DEF Created, Restated, Staged, Routed, Resumed
  <2> QED BY <2>1, <2>2, RowSteps DEF RowMoves
<1> QED BY <1>1, Serial, PTL DEF Spec, NothingStartsExecutingWhileStopped

-----------------------------------------------------------------------------
(* How the events of a cycle change: one is created, of the stage the      *)
(* cycle is in or goes to, or one is completed, of the stage it is in.     *)

Appended(k) ==
  \E stage \in CycleStage, about \in CycleStage \cup {"none"} :
    /\ EventAdded(k, stage, about)
    /\ events[k] = << >> /\ cycles[k].of # Null =>
         \/ stage = "AWAITING_HUMAN"
         \/ cycles[k].status = "AWAITING_HUMAN"
         \/ Index(stage) >= Index(cycles[k].stage)
    /\ \A c \in Calls : pc[c] \in {"start_event", "retry_event"} /\ local[c].cycle = k => stage = cycles[k].stage
    /\ cycles[k].status = "AWAITING_HUMAN" => about = "none"

Marked(k) ==
  \E i \in Nat, about \in CycleStage \cup {"none"} :
    /\ EventMarked(k, i, about)
    /\ i \in DOMAIN events[k] =>
         \/ events[k][i].stage = "AWAITING_HUMAN" /\ cycles[k].status = "AWAITING_HUMAN" /\ about = events[k][i].about
         \/ /\ cycles[k].stage = "CREATED" \/ \E c \in Calls : pc'[c] = "advance_create" /\ local'[c].cycle = k
            /\ events[k][i].stage = cycles[k].stage /\ cycles[k].stage # "COMPLETED"
            /\ about \in {"none", cycles[k].stage} /\ cycles[k].status \in {"RUNNING", "SCHEDULED"}

EventMoves ==
  \E k \in Cycles : Exists(k) /\ UNCHANGED <<cycles, recs, stopped>> /\ (Appended(k) \/ Marked(k))

LEMMA AlreadyHeld ==
  ASSUME SerialInv, NEW c \in Calls, NEW d \in Calls, pc[c] # "idle", pc[d] \in {"start_event", "retry_event"}
  PROVE  c = d
BY DEF SerialInv, Alone

LEMMA AppendMoves ==
  ASSUME SerialInv, NEW c \in Calls, events' # events,
         StartEvent(c) \/ AdvanceCreate(c) \/ RouteEvent(c) \/ HumanEvent(c) \/ RetryEvent(c) \/ StopEvent(c)
  PROVE  EventMoves
<1> DEFINE k == local[c].cycle
<1>0. TypeOK /\ \A j \in Cycles : cycles[j].stage \in CycleStage
  BY Types DEF SerialInv, IInv, Row
<1>1. CASE StartEvent(c)
  <2>1. /\ pc[c] = "start_event" /\ k \in Cycles /\ Exists(k) /\ "CREATED" \in CycleStage
        /\ EventAdded(k, "CREATED", "none") /\ UNCHANGED <<cycles, recs, stopped>>
        /\ cycles[k].stage = "CREATED" /\ cycles[k].of = Null
    BY <1>1, StartEventFacts
  <2> HIDE DEF k
  <2> QED BY <2>1 DEF EventMoves, Appended
<1>2. CASE AdvanceCreate(c)
  <2>1. /\ pc[c] = "advance_create" /\ k \in Cycles /\ Exists(k) /\ local[c].to \in CycleStage
        /\ EventAdded(k, local[c].to, "none") /\ UNCHANGED <<cycles, recs, stopped>>
        /\ Index(local[c].to) > Index(cycles[k].stage)
    BY <1>2, AdvanceCreateFacts
  <2>2. \A d \in Calls : pc[d] \notin {"start_event", "retry_event"}
    BY <2>1, AlreadyHeld
  <2> HIDE DEF k
  <2>3. Index(local[c].to) >= Index(cycles[k].stage)
    BY <1>0, <2>1, IndexFacts
  <2> QED BY <2>1, <2>2, <2>3 DEF EventMoves, Appended
<1>3. CASE RouteEvent(c)
  <2>1. /\ pc[c] = "route_event" /\ k \in Cycles /\ Exists(k) /\ "AWAITING_HUMAN" \in CycleStage
        /\ local[c].stage \in CycleStage \cup {"none"}
        /\ EventAdded(k, "AWAITING_HUMAN", local[c].stage) /\ UNCHANGED <<cycles, recs, stopped>>
        /\ cycles[k].status \in {"RUNNING", "SCHEDULED"}
    BY <1>3, RouteEventFacts
  <2>2. \A d \in Calls : pc[d] \notin {"start_event", "retry_event"}
    BY <2>1, AlreadyHeld
  <2> HIDE DEF k
  <2> QED BY <2>1, <2>2 DEF EventMoves, Appended
<1>4. CASE HumanEvent(c)
  <2>1. /\ pc[c] = "human_event" /\ k \in Cycles /\ Exists(k) /\ local[c].to \in CycleStage
        /\ EventAdded(k, local[c].to, "none") /\ UNCHANGED <<cycles, recs, stopped>>
        /\ cycles[k].status = "AWAITING_HUMAN"
    BY <1>4, HumanEventFacts
  <2>2. \A d \in Calls : pc[d] \notin {"start_event", "retry_event"}
    BY <2>1, AlreadyHeld
  <2> HIDE DEF k
  <2> QED BY <2>1, <2>2 DEF EventMoves, Appended
<1>5. CASE RetryEvent(c)
  <2>1. /\ k \in Cycles /\ Exists(k) /\ local[c].to \in CycleStage
        /\ EventAdded(k, local[c].to, "none") /\ UNCHANGED <<cycles, recs, stopped>>
        /\ cycles[k].stage = local[c].to
    BY <1>5, RetryEventFacts
  <2> HIDE DEF k
  <2>2. Index(local[c].to) >= Index(cycles[k].stage)
    BY <1>0, <2>1, IndexFacts
  <2> QED BY <2>1, <2>2 DEF EventMoves, Appended
<1>6. CASE StopEvent(c)
  <2>1. /\ pc[c] = "stop_event" /\ k \in Cycles /\ Exists(k) /\ local[c].stage \in CycleStage
        /\ EventAdded(k, local[c].stage, "none") /\ UNCHANGED <<cycles, recs, stopped>>
        /\ cycles[k].stage = local[c].stage
    BY <1>6, StopEventFacts
  <2> HIDE DEF k
  <2>2. Index(local[c].stage) >= Index(cycles[k].stage)
    BY <1>0, <2>1, IndexFacts
  <2> QED BY <2>1, <2>2 DEF EventMoves, Appended
<1> QED BY <1>1, <1>2, <1>3, <1>4, <1>5, <1>6

LEMMA MarkMoves ==
  ASSUME SerialInv, NEW c \in Calls, events' # events, StartDone(c) \/ AdvanceComplete(c) \/ HumanComplete(c)
  PROVE  EventMoves
<1> DEFINE k == local[c].cycle
           i == local[c].event
<1>0. TypeOK /\ CallOK(c) /\ InHand(c) /\ i \in Nat /\ local[c].about \in CycleStage \cup {"none"}
  BY Types DEF SerialInv, IInv, Local
<1>1. CASE StartDone(c)
  <2>1. /\ pc[c] = "start_done" /\ k \in Cycles /\ Exists(k)
        /\ EventMarked(k, i, "CREATED") /\ UNCHANGED <<cycles, recs, stopped>>
        /\ events[k][i].stage = "CREATED"
    BY <1>1, StartDoneFacts
  <2>2. cycles[k].stage = "CREATED" /\ cycles[k].status \in {"RUNNING", "SCHEDULED"}
    BY <1>0, <2>1 DEF InHand
  <2> HIDE DEF k, i
  <2> QED BY <1>0, <2>1, <2>2, Stages DEF EventMoves, Marked
<1>2. CASE AdvanceComplete(c)
  <2>1. /\ pc[c] = "advance_complete" /\ k \in Cycles /\ Exists(k)
        /\ local[c].about \in CycleStage \cup {"none"}
        /\ EventMarked(k, i, local[c].about) /\ UNCHANGED <<cycles, recs, stopped>>
        /\ cycles[k].status = "RUNNING" /\ cycles[k].stage = local[c].stage /\ local[c].about \in {"none", local[c].stage}
        /\ Picked(k, i, local[c].stage) /\ Step(c, "advance_complete", "advance_create", local[c])
    BY <1>0, <1>2, AdvanceCompleteFacts
  <2>4. pc'[c] = "advance_create" /\ local'[c].cycle = k
    BY <1>0, <2>1, StepFacts
  <2>2. i \in DOMAIN events[k] => events[k][i].stage = cycles[k].stage
    <3>1. events[k] \in Seq(Event)
      BY <1>0, <2>1, Types
    <3>2. DOMAIN events[k] = 1 .. Len(events[k])
      BY <3>1, EventSeq, Zenon
    <3> QED BY <2>1, <3>2 DEF Picked
  <2>3. cycles[k].stage # "COMPLETED"
    <3>1. Index(local[c].to) > Index(local[c].stage) /\ local[c].to \in CycleStage
      BY <1>0, <2>1 DEF InHand, CallOK, Targeted, Advancing
    <3> QED BY <2>1, <3>1, IndexFacts, Indices
  <2> HIDE DEF k, i
  <2> QED BY <1>0, <2>1, <2>2, <2>3, <2>4 DEF EventMoves, Marked
<1>3. CASE HumanComplete(c)
  <2> DEFINE about == events[k][i].about
  <2>1. /\ k \in Cycles /\ Exists(k)
        /\ i \in DOMAIN events[k] /\ about \in CycleStage \cup {"none"}
        /\ EventMarked(k, i, about) /\ UNCHANGED <<cycles, recs, stopped>>
        /\ cycles[k].status = "AWAITING_HUMAN" /\ events[k][i].stage = "AWAITING_HUMAN" /\ about = events[k][i].about
    BY <1>3, HumanCompleteFacts
  <2> HIDE DEF k, i, about
  <2> QED BY <1>0, <2>1 DEF EventMoves, Marked
<1> QED BY <1>1, <1>2, <1>3

LEMMA ReadersKeepEvents ==
  ASSUME NEW c \in Calls, Begin(c) \/ Continue(c)
  PROVE  \/ UNCHANGED events
         \/ StartEvent(c) \/ AdvanceCreate(c) \/ RouteEvent(c) \/ HumanEvent(c) \/ RetryEvent(c) \/ StopEvent(c)
         \/ StartDone(c) \/ AdvanceComplete(c) \/ HumanComplete(c)
<1>1. CASE Begin(c)
  BY <1>1 DEF Begin, StartRead, Advance, AdvanceRead, Route, RouteRead, HumanRead, RetryRead, StatusRead, Stop, ReadStep, tables
<1>2. CASE Continue(c)
  BY <1>2 DEF Continue, StartRow, AdvanceRun, AdvanceRead, AdvanceBudget, AdvanceWithin, AdvanceStop,
              AdvanceFind, AdvanceWrite, StopRead, StopWrite, RunRecs, RunCeo,
              RunChairman, RouteRun, RouteRead, RouteWrite, HumanHistory, HumanWrite, StatusWrite,
              RetryHistory, RetryRow, ReadStep, WriteStatus, WriteStage, tables
<1> QED BY <1>1, <1>2

LEMMA EventSteps ==
  ASSUME SerialInv, [Next]_vars
  PROVE  UNCHANGED events \/ EventMoves
<1>1. ASSUME NEW c \in Calls, Begin(c) \/ Continue(c), events' # events PROVE EventMoves
  BY <1>1, ReadersKeepEvents, AppendMoves, MarkMoves
<1>2. CASE Drive
  BY <1>2 DEF Drive, Run, ReadStep, tables
<1>3. CASE HumanDecides \/ Spend \/ Crash \/ UNCHANGED vars
  BY <1>3 DEF HumanDecides, Decide, Spend, Crash, vars, tables
<1> QED BY <1>1, <1>2, <1>3 DEF Next

(* Events stay, with their stages; a stage is completed in the cycle that  *)
(* is in it, before the cycle ends.                                        *)
LEMMA EventsGrow ==
  ASSUME SerialInv, NEW k \in Cycles, Appended(k) \/ Marked(k)
  PROVE  /\ \A j \in Cycles \ {k} : events'[j] = events[j]
         /\ \A i \in DOMAIN events[k] : i \in DOMAIN events'[k] /\ events'[k][i].stage = events[k][i].stage
         /\ \A j \in Cycles \ {k} : (completedLinearStages(j))' = completedLinearStages(j)
         /\ \/ (completedLinearStages(k))' = completedLinearStages(k)
            \/ /\ (completedLinearStages(k))' = completedLinearStages(k) \cup {cycles[k].stage}
               /\ cycles[k].stage \notin {"AWAITING_HUMAN", "COMPLETED"} /\ cycles[k].status \in {"RUNNING", "SCHEDULED"}
               /\ cycles[k].stage = "CREATED" \/ \E c \in Calls : pc'[c] = "advance_create" /\ local'[c].cycle = k
<1>0. TypeOK
  BY DEF SerialInv, IInv
<1>1. CASE Appended(k)
  <2> PICK stage \in CycleStage, about \in CycleStage \cup {"none"} : EventAdded(k, stage, about)
    BY <1>1 DEF Appended
  <2>1. \A j \in Cycles : (completedLinearStages(j))' = completedLinearStages(j)
    BY <1>0, CompletedWhenAdded
  <2>2. \A j \in Cycles \ {k} : events'[j] = events[j]
    BY <1>0, EventCreated, Zenon
  <2>3. /\ DOMAIN events'[k] = 1 .. (Len(events[k]) + 1) /\ DOMAIN events[k] = 1 .. Len(events[k]) /\ Len(events[k]) \in Nat
        /\ \A i \in DOMAIN events[k] : events'[k][i] = events[k][i]
    BY <1>0, EventCreated, Zenon
  <2> QED BY <2>1, <2>2, <2>3
<1>2. CASE Marked(k)
  <2> PICK i \in Nat, about \in CycleStage \cup {"none"} :
        /\ EventMarked(k, i, about)
        /\ i \in DOMAIN events[k] =>
             \/ events[k][i].stage = "AWAITING_HUMAN"
             \/ /\ events[k][i].stage = cycles[k].stage /\ cycles[k].stage # "COMPLETED"
                /\ cycles[k].status \in {"RUNNING", "SCHEDULED"}
                /\ cycles[k].stage = "CREATED" \/ \E c \in Calls : pc'[c] = "advance_create" /\ local'[c].cycle = k
    BY <1>2 DEF Marked
  <2>1. /\ \A j \in Cycles \ {k} : (completedLinearStages(j))' = completedLinearStages(j)
        /\ i \notin DOMAIN events[k] => (completedLinearStages(k))' = completedLinearStages(k)
        /\ i \in DOMAIN events[k] =>
             (completedLinearStages(k))' = completedLinearStages(k) \cup ({events[k][i].stage} \ {"AWAITING_HUMAN"})
    BY <1>0, CompletedWhenMarked
  <2>2. /\ \A j \in Cycles \ {k} : events'[j] = events[j]
        /\ DOMAIN events'[k] = DOMAIN events[k] /\ \A j \in DOMAIN events[k] : events'[k][j].stage = events[k][j].stage
    BY <1>0, EventCompleted
  <2>3. CASE i \notin DOMAIN events[k]
    BY <2>1, <2>2, <2>3
  <2>4. CASE i \in DOMAIN events[k] /\ events[k][i].stage = "AWAITING_HUMAN"
    BY <2>1, <2>2, <2>4
  <2>5. CASE i \in DOMAIN events[k] /\ events[k][i].stage # "AWAITING_HUMAN"
    BY <2>1, <2>2, <2>5
  <2> QED BY <2>3, <2>4, <2>5
<1> QED BY <1>1, <1>2

-----------------------------------------------------------------------------
(* Rows and their events.                                                  *)

LEMMA WorkKept ==
  ASSUME SerialInv, WorkMatchesStage, [Next]_vars
  PROVE  WorkMatchesStage'
<1> SUFFICES ASSUME NEW k \in Cycles, NEW i \in DOMAIN events'[k],
                    events'[k][i].done, events'[k][i].about # "none", events'[k][i].stage # "AWAITING_HUMAN"
             PROVE  events'[k][i].about = events'[k][i].stage
  BY DEF WorkMatchesStage
<1>0. TypeOK
  BY DEF SerialInv, IInv
<1>1. CASE events'[k] = events[k]
  BY <1>1 DEF WorkMatchesStage
<1>2. CASE Appended(k)
  <2> PICK stage \in CycleStage, about \in CycleStage \cup {"none"} : EventAdded(k, stage, about)
    BY <1>2 DEF Appended
  <2>1. ~events'[k][Len(events[k]) + 1].done
    BY <1>0, NewEvent
  <2>2. /\ DOMAIN events'[k] = 1 .. (Len(events[k]) + 1) /\ DOMAIN events[k] = 1 .. Len(events[k]) /\ Len(events[k]) \in Nat
        /\ \A j \in DOMAIN events[k] : events'[k][j] = events[k][j]
    BY <1>0, EventCreated, Zenon
  <2>3. i # Len(events[k]) + 1
    BY <2>1
  <2>4. i \in DOMAIN events[k]
    BY <2>2, <2>3
  <2> QED BY <2>2, <2>4 DEF WorkMatchesStage
<1>3. CASE Marked(k)
  <2> PICK j \in Nat, about \in CycleStage \cup {"none"} :
        /\ EventMarked(k, j, about)
        /\ j \in DOMAIN events[k] =>
             \/ events[k][j].stage = "AWAITING_HUMAN"
             \/ events[k][j].stage = cycles[k].stage /\ about \in {"none", cycles[k].stage}
    BY <1>3 DEF Marked
  <2>1. /\ DOMAIN events'[k] = DOMAIN events[k]
        /\ \A m \in DOMAIN events[k] : events'[k][m].stage = events[k][m].stage /\ (m # j => events'[k][m] = events[k][m])
        /\ j \in DOMAIN events[k] => events'[k][j].about = about
    BY <1>0, EventCompleted
  <2>2. CASE i = j
    BY <2>1, <2>2
  <2>3. CASE i # j
    BY <2>1, <2>3 DEF WorkMatchesStage
  <2> QED BY <2>2, <2>3
<1>4. CASE EventMoves
  <2> PICK j \in Cycles : Appended(j) \/ Marked(j)
    BY <1>4 DEF EventMoves
  <2> QED BY <1>1, <1>2, <1>3, EventsGrow
<1> QED BY <1>1, <1>4, EventSteps

(* The completed stages of a failed cycle stay as they are.                *)
LEMMA FailedStayFailed ==
  ASSUME SerialInv, [Next]_vars, NEW k \in Cycles, cycles[k].status = "FAILED"
  PROVE  cycles'[k] = cycles[k] /\ (completedLinearStages(k))' = completedLinearStages(k)
<1>1. cycles'[k] = cycles[k]
  <2>1. CASE Created(k) \/ Staged(k) \/ Routed(k) \/ Resumed(k)
    BY <2>1 DEF Created, Staged, Routed, Resumed, Exists
  <2>2. CASE Restated(k)
    BY <2>2, StatusTransitions DEF Restated, Ended
  <2> QED BY <2>1, <2>2, RowSteps DEF RowMoves
<1>2. (completedLinearStages(k))' = completedLinearStages(k)
  <2>1. CASE UNCHANGED events
    BY <2>1, CompletedSame
  <2>2. CASE EventMoves
    <3> PICK j \in Cycles : Appended(j) \/ Marked(j)
      BY <2>2 DEF EventMoves
    <3>1. CASE j # k
      BY <3>1, EventsGrow
    <3>2. CASE j = k
      BY <3>2, EventsGrow
    <3> QED BY <3>1, <3>2
  <2> QED BY <2>1, <2>2, EventSteps
<1> QED BY <1>1, <1>2

LEMMA NoCompletedAhead ==
  ASSUME SerialInv, [Next]_vars, NEW k \in Cycles, "COMPLETED" \notin completedLinearStages(k)
  PROVE  "COMPLETED" \notin (completedLinearStages(k))'
<1>1. CASE UNCHANGED events
  BY <1>1, CompletedSame
<1>2. CASE EventMoves
  <2> PICK j \in Cycles : Appended(j) \/ Marked(j)
    BY <1>2 DEF EventMoves
  <2>1. CASE j # k
    BY <2>1, EventsGrow
  <2>2. CASE j = k
    BY <2>2, EventsGrow
  <2> QED BY <2>1, <2>2
<1> QED BY <1>1, <1>2, EventSteps

LEMMA EventsStay ==
  ASSUME SerialInv, [Next]_vars, NEW k \in Cycles, events[k] # << >>
  PROVE  events'[k] # << >> /\ events'[k][1].stage = events[k][1].stage
<1>0. 1 \in DOMAIN events[k] 
  <2>1. events[k] \in Seq(Event)
    BY Types DEF SerialInv, IInv
  <2> QED BY <2>1
<1>1. CASE EventMoves
  <2> PICK j \in Cycles : Appended(j) \/ Marked(j)
    BY <1>1 DEF EventMoves
  <2>1. CASE j # k
    BY <2>1, EventsGrow
  <2>2. CASE j = k
    BY <1>0, <2>2, EventsGrow
  <2> QED BY <2>1, <2>2
<1> QED BY <1>1, EventSteps

LEMMA HistoryKept ==
  ASSUME SerialInv, SerialInv', HistoryOK, [Next]_vars
  PROVE  HistoryOK'
<1>0. TypeOK /\ cycles \in [Cycles -> Row]
  BY Types DEF SerialInv, IInv
<1> SUFFICES ASSUME NEW k \in Cycles
             PROVE  /\ cycles'[k].status = "AWAITING_HUMAN" => events'[k] # << >>
                    /\ cycles'[k].of # Null =>
                         /\ cycles'[cycles'[k].of].status = "FAILED"
                         /\ events'[k] = << >> =>
                              \A s \in (completedLinearStages(cycles[k].of))' : Index(s) < Index(cycles'[k].stage)
                    /\ "COMPLETED" \notin (completedLinearStages(k))'
  BY DEF HistoryOK
<1>1. "COMPLETED" \notin (completedLinearStages(k))'
  BY NoCompletedAhead DEF HistoryOK
<1>2. cycles'[k].status = "AWAITING_HUMAN" => events'[k] # << >>
  <2>1. CASE cycles'[k] = cycles[k]
    BY <2>1, EventsStay DEF HistoryOK
  <2>2. CASE Created(k) \/ Restated(k) \/ Staged(k) \/ Resumed(k)
    BY <2>2 DEF Created, Restated, Staged, Resumed
  <2>3. CASE Routed(k)
    <3>1. events[k] # << >>
      BY <2>3 DEF Routed, Holder, SerialInv, InHand
    <3> QED BY <3>1, EventsStay
  <2> QED BY <2>1, <2>2, <2>3, RowSteps DEF RowMoves
<1>3. ASSUME cycles'[k].of # Null
      PROVE  /\ cycles'[cycles'[k].of].status = "FAILED"
             /\ events'[k] = << >> =>
                  \A s \in (completedLinearStages(cycles[k].of))' : Index(s) < Index(cycles'[k].stage)
  <2>1. CASE Created(k)
    <3> PICK j \in Cycles :
          /\ j = cycles'[k].of /\ cycles[j].status = "FAILED"
          /\ cycles'[k].stage = resolveResumeStage(completedLinearStages(j))
      BY <1>3, <2>1 DEF Created
    <3>1. "COMPLETED" \notin completedLinearStages(j) /\ completedLinearStages(j) \subseteq CycleStage
      BY <1>0, CompletedStages DEF HistoryOK
    <3>2. \A s \in completedLinearStages(j) : Index(s) < Index(cycles'[k].stage)
      BY <3>1, ResumeFacts
    <3>3. cycles'[j] = cycles[j] /\ (completedLinearStages(j))' = completedLinearStages(j)
      BY FailedStayFailed
    <3>4. (completedLinearStages(cycles[k].of))' = (completedLinearStages(j))'
      BY DEF completedLinearStages
    <3> QED BY <3>2, <3>3, <3>4
  <2>2. CASE cycles'[k].of = cycles[k].of /\ Exists(k)
    <3> PICK j \in Cycles : j = cycles[k].of /\ cycles[j].status = "FAILED"
      BY <1>0, <1>3, <2>2 DEF HistoryOK, Row
    <3>1. completedLinearStages(cycles[k].of) = completedLinearStages(j)
      OBVIOUS
    <3>2. cycles'[j] = cycles[j] /\ (completedLinearStages(j))' = completedLinearStages(j)
      BY FailedStayFailed
    <3>3. ASSUME events'[k] = << >> PROVE cycles'[k].stage = cycles[k].stage /\ events[k] = << >>
      <4>1. events[k] = << >>
        BY <3>3, EventsStay
      <4>2. CASE cycles'[k] = cycles[k] \/ Restated(k)
        BY <4>1, <4>2 DEF Restated
      <4>3. CASE Staged(k) \/ Routed(k)
        BY <4>1, <4>3, ZenonT(60) DEF Staged, Routed, Holder, SerialInv, InHand
      <4>4. CASE Resumed(k)
        BY <4>1, <4>4 DEF Resumed, HistoryOK
      <4>5. CASE Created(k)
        BY <2>2, <4>5 DEF Created
      <4> QED BY <4>1, <4>2, <4>3, <4>4, <4>5, RowSteps DEF RowMoves
    <3>4. (completedLinearStages(cycles[k].of))' = (completedLinearStages(j))'
      BY <2>2 DEF completedLinearStages
    <3> QED BY <1>3, <2>2, <3>1, <3>2, <3>3, <3>4 DEF HistoryOK
  <2>3. CASE cycles'[k] = cycles[k] /\ ~Exists(k)
    BY <1>3, <2>3 DEF SerialInv, NothingOfTheAbsent, AbsentCycle
  <2>4. \/ Created(k) \/ cycles'[k] = cycles[k]
        \/ cycles'[k].of = cycles[k].of /\ Exists(k)
    BY RowSteps DEF RowMoves, Restated, Staged, Routed, Resumed, Exists
  <2> QED BY <2>1, <2>2, <2>3, <2>4
<1> QED BY <1>1, <1>2, <1>3

LEMMA RetriesKept ==
  ASSUME SerialInv, SerialInv', HistoryOK, HistoryOK', RetriesContinue, [Next]_vars
  PROVE  RetriesContinue'
<1>0. TypeOK /\ cycles \in [Cycles -> Row]
  BY Types DEF SerialInv, IInv
<1> SUFFICES ASSUME NEW k \in Cycles, Exists(k)', cycles'[k].of # Null, events'[k] # << >>
             PROVE  events'[k][1].stage \notin (completedLinearStages(cycles[k].of))'
  BY DEF RetriesContinue
<1>1. CASE Created(k)
  <2>1. events'[k] = events[k] /\ events[k] = << >>
    <3>1. ~Exists(k) /\ cycles'[k] # cycles[k] /\ events[k] = << >>
      BY <1>1 DEF Created, Exists
    <3> QED BY <3>1, RowSteps DEF RowMoves
  <2> QED BY <2>1
<1>2. CASE cycles'[k] = cycles[k] /\ ~Exists(k)
  BY <1>2 DEF SerialInv, NothingOfTheAbsent, AbsentCycle
<1>3. CASE cycles'[k].of = cycles[k].of /\ Exists(k)
  <2> PICK j \in Cycles : j = cycles[k].of /\ cycles[j].status = "FAILED"
    BY <1>0, <1>3 DEF HistoryOK, Row
  <2>1. completedLinearStages(cycles[k].of) = completedLinearStages(j)
    OBVIOUS
  <2>2. (completedLinearStages(j))' = completedLinearStages(j)
    BY FailedStayFailed
  <2>3. (completedLinearStages(cycles[k].of))' = (completedLinearStages(j))'
    BY <1>3 DEF completedLinearStages
  <2>4. CASE events[k] # << >>
    BY <1>3, <2>1, <2>2, <2>3, <2>4, EventsStay DEF RetriesContinue
  <2>5. CASE events[k] = << >>
    <3>1. events'[k] # events[k] /\ EventMoves
      BY <2>5, EventSteps
    <3>2. UNCHANGED cycles /\ Exists(k) /\ (Appended(k) \/ Marked(k))
      <4> PICK m \in Cycles : Exists(m) /\ UNCHANGED cycles /\ (Appended(m) \/ Marked(m))
        BY <3>1 DEF EventMoves
      <4>1. m = k
        BY <3>1, EventsGrow
      <4> QED BY <4>1
    <3>3. CASE Marked(k)
      <4>1. PICK i \in Nat, about \in CycleStage \cup {"none"} : EventMarked(k, i, about)
        BY <3>3 DEF Marked
      <4>2. events[k] \in Seq(Event) /\ events \in [Cycles -> Seq(Event)]
        BY <1>0, Types
      <4>3. DOMAIN events[k] = {}
        BY <2>5
      <4>4. i \notin DOMAIN events[k]
        BY <4>3
      <4>5. events' \in [Cycles -> Seq(Event)] /\ DOMAIN events'[k] = {}
        BY <1>0, <4>1, <4>3, <4>4, EventCompleted
      <4>6. events'[k] \in Seq(Event)
        BY <4>5
      <4>7. Len(events'[k]) = 0
        <5>1. DOMAIN events'[k] = 1 .. Len(events'[k]) /\ Len(events'[k]) \in Nat
          BY <4>6, EventSeq, Zenon
        <5>2. \A n \in Nat : 1 .. n = {} => n = 0
          <6> SUFFICES ASSUME NEW n \in Nat, n # 0 PROVE 1 \in 1 .. n
            OBVIOUS
          <6> QED OBVIOUS
        <5> QED BY <4>5, <5>1, <5>2
      <4>8. events'[k] = << >>
        BY <4>6, <4>7
      <4> QED BY <4>8
    <3>4. CASE Appended(k)
      <4> PICK stage \in CycleStage, about \in CycleStage \cup {"none"} :
             /\ EventAdded(k, stage, about)
             /\ stage = "AWAITING_HUMAN" \/ cycles[k].status = "AWAITING_HUMAN" \/ Index(stage) >= Index(cycles[k].stage)
        BY <1>3, <2>5, <3>4 DEF Appended
      <4>1. events'[k][1].stage = stage
        <5>1. Len(events[k]) + 1 = 1
          BY <2>5
        <5>2. events'[k][Len(events[k]) + 1].stage = stage
          BY <1>0, NewEvent
        <5> QED BY <5>1, <5>2
      <4>2. cycles[k].status # "AWAITING_HUMAN"
        BY <2>5 DEF HistoryOK
      <4>3. ASSUME stage \in completedLinearStages(j) PROVE FALSE
        <5>1. stage # "AWAITING_HUMAN"
          BY <4>3 DEF completedLinearStages
        <5>2. Index(stage) < Index(cycles[k].stage)
          BY <1>3, <2>1, <2>5, <4>3 DEF HistoryOK
        <5>3. Index(stage) \in Int /\ Index(cycles[k].stage) \in Int
          BY <1>0, IndexFacts DEF Row
        <5> QED BY <4>2, <5>1, <5>2, <5>3
      <4> QED BY <2>2, <2>3, <4>1, <4>3
    <3> QED BY <3>2, <3>3, <3>4
  <2> QED BY <2>4, <2>5
<1>4. \/ Created(k) \/ cycles'[k] = cycles[k]
      \/ cycles'[k].of = cycles[k].of /\ Exists(k)
  BY RowSteps DEF RowMoves, Restated, Staged, Routed, Resumed, Exists
<1> QED BY <1>1, <1>2, <1>3, <1>4

LEMMA InitHistory == Init => WorkMatchesStage /\ HistoryOK /\ RetriesContinue
<1> SUFFICES ASSUME Init PROVE WorkMatchesStage /\ HistoryOK /\ RetriesContinue
  OBVIOUS
<1>1. \A k \in Cycles : cycles[k] = AbsentCycle /\ events[k] = << >>
  BY DEF Init
<1>2. \A k \in Cycles : DOMAIN events[k] = {} /\ completedLinearStages(k) = {}
  BY <1>1 DEF completedLinearStages
<1> QED BY <1>1, <1>2 DEF WorkMatchesStage, HistoryOK, RetriesContinue, AbsentCycle

LEMMA NextHistory ==
  ASSUME HistoryInv, OneAtATime, [Next]_vars
  PROVE  HistoryInv' /\ OneAtATime'
<1>1. SerialInv' /\ OneAtATime'
  BY NextSerial, ProfileKept DEF HistoryInv, OneAtATime
<1>2. WorkMatchesStage' /\ HistoryOK'
  BY <1>1, WorkKept, HistoryKept DEF HistoryInv
<1> QED BY <1>1, <1>2, RetriesKept DEF HistoryInv

LEMMA History == OneAtATime /\ Spec => [](HistoryInv /\ OneAtATime)
<1>1. Init => HistoryInv
  BY InitSerial, InitHistory DEF HistoryInv
<1>2. HistoryInv /\ OneAtATime /\ [Next]_vars => HistoryInv' /\ OneAtATime'
  BY NextHistory
<1> QED BY <1>1, <1>2, PTL DEF Spec

(* One at a time, the summary a stage is completed with is of the work of  *)
(* that stage: advanceStage completes the event of the stage whose work    *)
(* was done, which nobody has moved the cycle out of meanwhile.            *)
THEOREM SummariesAreOfTheirStage == OneAtATime /\ Spec => []WorkMatchesStage
<1>1. HistoryInv => WorkMatchesStage
  BY DEF HistoryInv
<1> QED BY <1>1, History, PTL

(* One at a time, neither a repeated request nor a retry does again what   *)
(* was done: a key has one cycle, and the first event of a retry is of a   *)
(* stage its failed predecessor did not complete, restarts included.       *)
THEOREM NothingIsStartedTwice == OneAtATime /\ Spec => []NoCycleStartsTwice
<1>1. HistoryInv => RetriesContinue
  BY DEF HistoryInv
<1> QED BY <1>1, History, OneCyclePerKey, PTL DEF NoCycleStartsTwice

-----------------------------------------------------------------------------
(* Lineages and decisions only grow.                                       *)

Closed(S) == \A i \in S : cycles[i].of \in S \cup {Null}

LEMMA LineageDef ==
  ASSUME NEW j \in Cycles, NEW k \in Cycles
  PROVE  j \in Lineage(k) <=> \A S \in SUBSET Cycles : k \in S /\ Closed(S) => j \in S
BY DEF Lineage, Closed

LEMMA LineageSelf == ASSUME NEW k \in Cycles PROVE k \in Lineage(k)
BY LineageDef

(* A row keeps the row it retries; a row that has none may get one.        *)
LEMMA OfKept ==
  ASSUME SerialInv, [Next]_vars, NEW i \in Cycles
  PROVE  cycles'[i].of = cycles[i].of \/ cycles[i].of = Null
<1>1. CASE Created(i)
  BY <1>1 DEF Created, SerialInv, NothingOfTheAbsent, AbsentCycle
<1>2. CASE Restated(i) \/ Staged(i) \/ Routed(i) \/ Resumed(i)
  BY <1>2 DEF Restated, Staged, Routed, Resumed
<1> QED BY <1>1, <1>2, RowSteps DEF RowMoves

LEMMA LineageKept ==
  ASSUME SerialInv, [Next]_vars, NEW k \in Cycles
  PROVE  Lineage(k) \subseteq (Lineage(k))'
<1> SUFFICES ASSUME NEW j \in Cycles, j \in Lineage(k),
                    NEW S \in SUBSET Cycles, k \in S, \A i \in S : cycles'[i].of \in S \cup {Null}
             PROVE  j \in S
  BY DEF Lineage
<1>1. Closed(S)
  BY OfKept DEF Closed
<1> QED BY <1>1, LineageDef

LEMMA LineageOfRetry ==
  ASSUME NEW k \in Cycles, NEW j \in Cycles, cycles'[k].of = j
  PROVE  (Lineage(j))' \subseteq (Lineage(k))'
<1> SUFFICES ASSUME NEW i \in Cycles,
                    \A S \in SUBSET Cycles : j \in S /\ (\A m \in S : cycles'[m].of \in S \cup {Null}) => i \in S,
                    NEW S \in SUBSET Cycles, k \in S, \A m \in S : cycles'[m].of \in S \cup {Null}
             PROVE  i \in S
  BY DEF Lineage
<1>1. j \in S
  BY DEF Cycles, Null
<1> QED BY <1>1

AsksCeo(c) == pc[c] = "run_ceo" /\ recs' = [recs EXCEPT ![local[c].cycle] = Append(@, "pending")]

LEMMA WritesKeepRecs ==
  ASSUME NEW c \in Calls
  PROVE  /\ \A status : WriteStatus(c, status) => UNCHANGED recs
         /\ \A stage, status : WriteStage(c, stage, status) => UNCHANGED recs
         /\ \A stage, about : CreateEvent(c, stage, about) => UNCHANGED recs
         /\ \A i, about : CompleteEvent(c, i, about) => UNCHANGED recs
         /\ \A from, ok, to, read : ReadStep(c, from, ok, to, read) => UNCHANGED recs
BY DEF WriteStatus, WriteStage, CreateEvent, CompleteEvent, ReadStep, tables

LEMMA RecSteps ==
  ASSUME [Next]_vars
  PROVE  UNCHANGED recs \/ HumanDecides \/ \E c \in Calls : AsksCeo(c)
<1>1. ASSUME NEW c \in Calls, Begin(c) PROVE UNCHANGED recs
  BY <1>1, WritesKeepRecs DEF Begin, StartRead, Advance, AdvanceRead, Route, RouteRead, HumanRead, RetryRead, StatusRead, Stop
<1>2. ASSUME NEW c \in Calls, Continue(c) PROVE UNCHANGED recs \/ AsksCeo(c)
  <2>1. CASE RunCeo(c)
    BY <2>1, WritesKeepRecs DEF RunCeo, Step, AsksCeo
  <2>2. CASE StartRow(c) \/ StartEvent(c) \/ StartDone(c) \/ RetryHistory(c) \/ RetryRow(c) \/ RetryEvent(c) \/ StatusWrite(c)
    BY <2>2, WritesKeepRecs DEF StartRow, StartEvent, StartDone, RetryHistory, RetryRow, RetryEvent, StatusWrite
  <2>3. CASE \/ AdvanceRun(c) \/ AdvanceBudget(c) \/ AdvanceStop(c) \/ AdvanceFind(c)
             \/ AdvanceComplete(c) \/ AdvanceCreate(c) \/ AdvanceWrite(c)
    BY <2>3, WritesKeepRecs
       DEF AdvanceRun, AdvanceRead, AdvanceBudget, AdvanceWithin, AdvanceStop, AdvanceFind, AdvanceComplete, AdvanceCreate, AdvanceWrite
  <2>4. CASE \/ StopRead(c) \/ StopWrite(c) \/ StopEvent(c) \/ RunRecs(c) \/ RunChairman(c)
             \/ RouteRun(c) \/ RouteEvent(c) \/ RouteWrite(c)
             \/ HumanComplete(c) \/ HumanHistory(c) \/ HumanEvent(c) \/ HumanWrite(c)
    BY <2>4, WritesKeepRecs
       DEF StopRead, StopWrite, StopEvent, RunRecs, RunChairman, RouteRun, RouteRead, RouteEvent, RouteWrite,
           HumanComplete, HumanHistory, HumanEvent, HumanWrite, tables
  <2> QED BY <1>2, <2>1, <2>2, <2>3, <2>4 DEF Continue
<1>3. CASE Drive
  BY <1>3, WritesKeepRecs DEF Drive, Run
<1>4. CASE Spend \/ Crash \/ UNCHANGED vars
  BY <1>4 DEF Spend, Crash, vars, tables
<1> QED BY <1>1, <1>2, <1>3, <1>4 DEF Next

LEMMA DecidedKept ==
  ASSUME SerialInv, [Next]_vars, NEW k \in Cycles, Decided(k)
  PROVE  Decided(k)'
<1>0. recs \in [Cycles -> Seq({"pending", "decided"})] /\ recs[k] \in Seq({"pending", "decided"})
  BY Types DEF SerialInv, IInv
<1>1. CASE UNCHANGED recs
  BY <1>1 DEF Decided
<1>2. CASE HumanDecides
  <2> PICK c \in Calls, m \in Cycles : \E i \in DOMAIN recs[m] : Decide(c, m, i)
    BY <1>2 DEF HumanDecides
  <2> PICK i \in DOMAIN recs[m] : Decide(c, m, i)
    OBVIOUS
  <2>1. recs' = [recs EXCEPT ![m][i] = "decided"]
    BY DEF Decide
  <2>2. recs'[k] = recs[k] \/ (DOMAIN recs'[k] = DOMAIN recs[k] /\ \A x \in DOMAIN recs[k] : recs[k][x] = "decided" => recs'[k][x] = "decided")
    BY <1>0, <2>1
  <2> QED BY <2>2 DEF Decided
<1>3. CASE \E c \in Calls : AsksCeo(c)
  <2> PICK c \in Calls : recs' = [recs EXCEPT ![local[c].cycle] = Append(@, "pending")]
    BY <1>3 DEF AsksCeo
  <2>1. recs'[k] = recs[k] \/ recs'[k] = Append(recs[k], "pending")
    BY <1>0
  <2> QED BY <1>0, <2>1, SMTT(60) DEF Decided
<1> QED BY <1>1, <1>2, <1>3, RecSteps

LEMMA LineageDecidedKept ==
  ASSUME SerialInv, [Next]_vars, NEW k \in Cycles, LineageDecided(k)
  PROVE  LineageDecided(k)'
<1> PICK j \in Lineage(k) : Decided(j)
  BY DEF LineageDecided
<1>1. j \in Cycles
  BY DEF Lineage
<1>2. j \in (Lineage(k))'
  BY LineageKept
<1>3. Decided(j)'
  BY <1>1, DecidedKept
<1> QED BY <1>2, <1>3 DEF LineageDecided

-----------------------------------------------------------------------------
(* The calls that a step does not serve stay where they are; and how a     *)
(* call comes to advance a cycle.                                          *)

OthersWait(c) == \A d \in Calls \ {c} : pc'[d] = pc[d] /\ local'[d] = local[d]

LEMMA StepMoves ==
  ASSUME TypeOK, NEW c \in Calls
  PROVE  \A from, to, read : Step(c, from, to, read) => OthersWait(c) /\ pc[c] = from /\ pc'[c] = to
BY StepFacts DEF OthersWait

LEMMA ReadMoves ==
  ASSUME TypeOK, NEW c \in Calls
  PROVE  \A from, ok, to, read :
           ReadStep(c, from, ok, to, read) => OthersWait(c) /\ pc[c] = from /\ (pc'[c] = to \/ pc'[c] = "idle")
<1> TAKE from, ok, to, read
<1> HAVE ReadStep(c, from, ok, to, read)
<1>1. CASE ok
  BY <1>1, StepMoves DEF ReadStep
<1>2. CASE ~ok
  BY <1>2, StepMoves DEF ReadStep
<1> QED BY <1>1, <1>2

(* Where a call is before and after each of its steps.                     *)
At(c, from, to) == OthersWait(c) /\ pc[c] = from /\ pc'[c] \in to

LEMMA ContinueMoves ==
  ASSUME TypeOK, NEW c \in Calls, Continue(c)
  PROVE  \/ StartRow(c) /\ At(c, "start_row", {"start_event", "idle"})
         \/ StartEvent(c) /\ At(c, "start_event", {"start_done", "idle"})
         \/ StartDone(c) /\ At(c, "start_done", {"idle"})
         \/ AdvanceRun(c) /\ At(c, "advance_read", {"advance_budget", "idle"})
         \/ AdvanceBudget(c) /\ At(c, "advance_budget", {"advance_stop", "advance_find", "stop_read", "idle"})
         \/ AdvanceStop(c) /\ At(c, "advance_stop", {"advance_find", "idle"})
         \/ AdvanceFind(c) /\ At(c, "advance_find", {"advance_complete", "idle"})
         \/ AdvanceComplete(c) /\ At(c, "advance_complete", {"advance_create", "idle"})
         \/ AdvanceCreate(c) /\ At(c, "advance_create", {"advance_write", "idle"})
         \/ AdvanceWrite(c) /\ At(c, "advance_write", {"idle"})
         \/ StopRead(c) /\ At(c, "stop_read", {"stop_write", "idle"})
         \/ StopWrite(c) /\ At(c, "stop_write", {"stop_event", "idle"})
         \/ StopEvent(c) /\ At(c, "stop_event", {"idle"})
         \/ RunRecs(c) /\ At(c, "run_recs", {"advance_read", "run_ceo", "idle"})
         \/ RunCeo(c) /\ At(c, "run_ceo", {"route_read", "run_chairman", "idle"})
         \/ RunChairman(c) /\ At(c, "run_chairman", {"route_read", "idle"})
         \/ RouteRun(c) /\ At(c, "route_read", {"route_event", "idle"})
         \/ RouteEvent(c) /\ At(c, "route_event", {"route_write", "idle"})
         \/ RouteWrite(c) /\ At(c, "route_write", {"idle"})
         \/ HumanComplete(c) /\ At(c, "human_complete", {"human_history", "idle"})
         \/ HumanHistory(c) /\ At(c, "human_history", {"human_event", "idle"})
         \/ HumanEvent(c) /\ At(c, "human_event", {"human_write", "idle"})
         \/ HumanWrite(c) /\ At(c, "human_write", {"idle"})
         \/ StatusWrite(c) /\ At(c, "status_write", {"idle"})
         \/ RetryHistory(c) /\ At(c, "retry_history", {"retry_row", "idle"})
         \/ RetryRow(c) /\ At(c, "retry_row", {"retry_event", "idle"})
         \/ RetryEvent(c) /\ At(c, "retry_event", {"idle"})
<1>1. StartRow(c) => At(c, "start_row", {"start_event", "idle"})
  <2> SUFFICES ASSUME StartRow(c) PROVE OthersWait(c) /\ pc[c] = "start_row" /\ (pc'[c] = "start_event" \/ pc'[c] = "idle")
    BY DEF At
  <2> QED BY StepMoves, ReadMoves, ZenonT(60) DEF StartRow
<1>2. StartEvent(c) => At(c, "start_event", {"start_done", "idle"})
  <2> SUFFICES ASSUME StartEvent(c) PROVE OthersWait(c) /\ pc[c] = "start_event" /\ (pc'[c] = "start_done" \/ pc'[c] = "idle")
    BY DEF At
  <2> QED BY StepMoves, ReadMoves, ZenonT(60) DEF StartEvent
<1>3. StartDone(c) => At(c, "start_done", {"idle"})
  <2> SUFFICES ASSUME StartDone(c) PROVE OthersWait(c) /\ pc[c] = "start_done" /\ (pc'[c] = "idle")
    BY DEF At
  <2> QED BY StepMoves, ReadMoves, ZenonT(60) DEF StartDone
<1>4. AdvanceRun(c) => At(c, "advance_read", {"advance_budget", "idle"})
  <2> SUFFICES ASSUME AdvanceRun(c) PROVE OthersWait(c) /\ pc[c] = "advance_read" /\ (pc'[c] = "advance_budget" \/ pc'[c] = "idle")
    BY DEF At
  <2> QED BY StepMoves, ReadMoves, ZenonT(60) DEF AdvanceRun, AdvanceRead
<1>5. AdvanceBudget(c) => At(c, "advance_budget", {"advance_stop", "advance_find", "stop_read", "idle"})
  <2>1. CASE ReadStep(c, "advance_budget", TRUE, "stop_read", local[c])
    BY <2>1, ReadMoves DEF At
  <2>2. CASE AdvanceWithin(c, NextStage(c))
    <3>1. OthersWait(c) /\ pc[c] = "advance_budget" /\ (pc'[c] = (IF NextStage(c) = "EXECUTING" THEN "advance_stop" ELSE "advance_find") \/ pc'[c] = "idle")
      BY <2>2, ReadMoves, Zenon DEF AdvanceWithin
    <3> QED BY <3>1 DEF At
  <2> QED BY <2>1, <2>2 DEF AdvanceBudget
<1>6. AdvanceStop(c) => At(c, "advance_stop", {"advance_find", "idle"})
  <2> SUFFICES ASSUME AdvanceStop(c) PROVE OthersWait(c) /\ pc[c] = "advance_stop" /\ (pc'[c] = "advance_find" \/ pc'[c] = "idle")
    BY DEF At
  <2> QED BY StepMoves, ReadMoves, ZenonT(60) DEF AdvanceStop
<1>7. AdvanceFind(c) => At(c, "advance_find", {"advance_complete", "idle"})
  <2> SUFFICES ASSUME AdvanceFind(c) PROVE OthersWait(c) /\ pc[c] = "advance_find" /\ (pc'[c] = "advance_complete" \/ pc'[c] = "idle")
    BY DEF At
  <2> QED BY StepMoves, ReadMoves, ZenonT(60) DEF AdvanceFind
<1>8. AdvanceComplete(c) => At(c, "advance_complete", {"advance_create", "idle"})
  <2> SUFFICES ASSUME AdvanceComplete(c) PROVE OthersWait(c) /\ pc[c] = "advance_complete" /\ (pc'[c] = "advance_create" \/ pc'[c] = "idle")
    BY DEF At
  <2> QED BY StepMoves, ReadMoves, ZenonT(60) DEF AdvanceComplete
<1>9. AdvanceCreate(c) => At(c, "advance_create", {"advance_write", "idle"})
  <2> SUFFICES ASSUME AdvanceCreate(c) PROVE OthersWait(c) /\ pc[c] = "advance_create" /\ (pc'[c] = "advance_write" \/ pc'[c] = "idle")
    BY DEF At
  <2> QED BY StepMoves, ReadMoves, ZenonT(60) DEF AdvanceCreate
<1>10. AdvanceWrite(c) => At(c, "advance_write", {"idle"})
  <2> SUFFICES ASSUME AdvanceWrite(c) PROVE OthersWait(c) /\ pc[c] = "advance_write" /\ (pc'[c] = "idle")
    BY DEF At
  <2> QED BY StepMoves, ReadMoves, ZenonT(60) DEF AdvanceWrite
<1>11. StopRead(c) => At(c, "stop_read", {"stop_write", "idle"})
  <2> SUFFICES ASSUME StopRead(c) PROVE OthersWait(c) /\ pc[c] = "stop_read" /\ (pc'[c] = "stop_write" \/ pc'[c] = "idle")
    BY DEF At
  <2> QED BY StepMoves, ReadMoves, ZenonT(60) DEF StopRead
<1>12. StopWrite(c) => At(c, "stop_write", {"stop_event", "idle"})
  <2> SUFFICES ASSUME StopWrite(c) PROVE OthersWait(c) /\ pc[c] = "stop_write" /\ (pc'[c] = "stop_event" \/ pc'[c] = "idle")
    BY DEF At
  <2> QED BY StepMoves, ReadMoves, ZenonT(60) DEF StopWrite
<1>13. StopEvent(c) => At(c, "stop_event", {"idle"})
  <2> SUFFICES ASSUME StopEvent(c) PROVE OthersWait(c) /\ pc[c] = "stop_event" /\ (pc'[c] = "idle")
    BY DEF At
  <2> QED BY StepMoves, ReadMoves, ZenonT(60) DEF StopEvent
<1>14. RunRecs(c) => At(c, "run_recs", {"advance_read", "run_ceo", "idle"})
  <2> SUFFICES ASSUME RunRecs(c) PROVE OthersWait(c) /\ pc[c] = "run_recs" /\ (pc'[c] = "advance_read" \/ pc'[c] = "run_ceo" \/ pc'[c] = "idle")
    BY DEF At
  <2> QED BY StepMoves, ReadMoves, ZenonT(60) DEF RunRecs
<1>15. RunCeo(c) => At(c, "run_ceo", {"route_read", "run_chairman", "idle"})
  <2> SUFFICES ASSUME RunCeo(c) PROVE OthersWait(c) /\ pc[c] = "run_ceo" /\ (pc'[c] = "route_read" \/ pc'[c] = "run_chairman" \/ pc'[c] = "idle")
    BY DEF At
  <2> QED BY StepMoves, ReadMoves, ZenonT(60) DEF RunCeo
<1>16. RunChairman(c) => At(c, "run_chairman", {"route_read", "idle"})
  <2> SUFFICES ASSUME RunChairman(c) PROVE OthersWait(c) /\ pc[c] = "run_chairman" /\ (pc'[c] = "route_read" \/ pc'[c] = "idle")
    BY DEF At
  <2> QED BY StepMoves, ReadMoves, ZenonT(60) DEF RunChairman
<1>17. RouteRun(c) => At(c, "route_read", {"route_event", "idle"})
  <2> SUFFICES ASSUME RouteRun(c) PROVE OthersWait(c) /\ pc[c] = "route_read" /\ (pc'[c] = "route_event" \/ pc'[c] = "idle")
    BY DEF At
  <2> QED BY StepMoves, ReadMoves, ZenonT(60) DEF RouteRun, RouteRead
<1>18. RouteEvent(c) => At(c, "route_event", {"route_write", "idle"})
  <2> SUFFICES ASSUME RouteEvent(c) PROVE OthersWait(c) /\ pc[c] = "route_event" /\ (pc'[c] = "route_write" \/ pc'[c] = "idle")
    BY DEF At
  <2> QED BY StepMoves, ReadMoves, ZenonT(60) DEF RouteEvent
<1>19. RouteWrite(c) => At(c, "route_write", {"idle"})
  <2> SUFFICES ASSUME RouteWrite(c) PROVE OthersWait(c) /\ pc[c] = "route_write" /\ (pc'[c] = "idle")
    BY DEF At
  <2> QED BY StepMoves, ReadMoves, ZenonT(60) DEF RouteWrite
<1>20. HumanComplete(c) => At(c, "human_complete", {"human_history", "idle"})
  <2> SUFFICES ASSUME HumanComplete(c) PROVE OthersWait(c) /\ pc[c] = "human_complete" /\ (pc'[c] = "human_history" \/ pc'[c] = "idle")
    BY DEF At
  <2> QED BY StepMoves, ReadMoves, ZenonT(60) DEF HumanComplete
<1>21. HumanHistory(c) => At(c, "human_history", {"human_event", "idle"})
  <2> SUFFICES ASSUME HumanHistory(c) PROVE OthersWait(c) /\ pc[c] = "human_history" /\ (pc'[c] = "human_event" \/ pc'[c] = "idle")
    BY DEF At
  <2> QED BY StepMoves, ReadMoves, ZenonT(60) DEF HumanHistory
<1>22. HumanEvent(c) => At(c, "human_event", {"human_write", "idle"})
  <2> SUFFICES ASSUME HumanEvent(c) PROVE OthersWait(c) /\ pc[c] = "human_event" /\ (pc'[c] = "human_write" \/ pc'[c] = "idle")
    BY DEF At
  <2> QED BY StepMoves, ReadMoves, ZenonT(60) DEF HumanEvent
<1>23. HumanWrite(c) => At(c, "human_write", {"idle"})
  <2> SUFFICES ASSUME HumanWrite(c) PROVE OthersWait(c) /\ pc[c] = "human_write" /\ (pc'[c] = "idle")
    BY DEF At
  <2> QED BY StepMoves, ReadMoves, ZenonT(60) DEF HumanWrite
<1>24. StatusWrite(c) => At(c, "status_write", {"idle"})
  <2> SUFFICES ASSUME StatusWrite(c) PROVE OthersWait(c) /\ pc[c] = "status_write" /\ (pc'[c] = "idle")
    BY DEF At
  <2> QED BY StepMoves, ReadMoves, ZenonT(60) DEF StatusWrite
<1>25. RetryHistory(c) => At(c, "retry_history", {"retry_row", "idle"})
  <2> SUFFICES ASSUME RetryHistory(c) PROVE OthersWait(c) /\ pc[c] = "retry_history" /\ (pc'[c] = "retry_row" \/ pc'[c] = "idle")
    BY DEF At
  <2> QED BY StepMoves, ReadMoves, ZenonT(60) DEF RetryHistory
<1>26. RetryRow(c) => At(c, "retry_row", {"retry_event", "idle"})
  <2> SUFFICES ASSUME RetryRow(c) PROVE OthersWait(c) /\ pc[c] = "retry_row" /\ (pc'[c] = "retry_event" \/ pc'[c] = "idle")
    BY DEF At
  <2> PICK k \in Cycles : Step(c, "retry_row", "retry_event", [local[c] EXCEPT !.cycle = k])
    BY DEF RetryRow
  <2> QED BY StepMoves, Zenon
<1>27. RetryEvent(c) => At(c, "retry_event", {"idle"})
  <2> SUFFICES ASSUME RetryEvent(c) PROVE OthersWait(c) /\ pc[c] = "retry_event" /\ (pc'[c] = "idle")
    BY DEF At
  <2> QED BY StepMoves, ReadMoves, ZenonT(60) DEF RetryEvent
<1> QED BY <1>1, <1>2, <1>3, <1>4, <1>5, <1>6, <1>7, <1>8, <1>9, <1>10, <1>11, <1>12, <1>13, <1>14, <1>15, <1>16, <1>17, <1>18, <1>19, <1>20, <1>21, <1>22, <1>23, <1>24, <1>25, <1>26, <1>27 DEF Continue

LEMMA BeginMoves ==
  ASSUME TypeOK, NEW c \in Calls, Begin(c)
  PROVE  \/ UNCHANGED <<pc, local>>
         \/ \E k \in Cycles : Advance(c, k) /\ At(c, "idle", {"advance_budget", "idle"})
         \/ At(c, "idle", {"start_row", "route_event", "human_complete", "retry_history", "status_write", "idle"})
<1>1. CASE Stop(c)
  BY <1>1 DEF Stop
<1>2. ASSUME NEW key, NEW status, StartRead(c, key, status) PROVE At(c, "idle", {"start_row", "idle"})
  BY <1>2, ReadMoves DEF StartRead, At
<1>3. ASSUME NEW k \in Cycles, Advance(c, k) PROVE At(c, "idle", {"advance_budget", "idle"})
  <2>1. AdvanceRead(c, "idle", k, "none", "none")
    BY <1>3 DEF Advance
  <2>2. OthersWait(c) /\ pc[c] = "idle" /\ (pc'[c] = "advance_budget" \/ pc'[c] = "idle")
    BY <2>1, ReadMoves, Zenon DEF AdvanceRead
  <2> QED BY <2>2 DEF At
<1>4. ASSUME NEW k \in Cycles, Route(c, k) PROVE At(c, "idle", {"route_event", "idle"})
  <2>1. RouteRead(c, "idle", k)
    BY <1>4 DEF Route
  <2>2. OthersWait(c) /\ pc[c] = "idle" /\ (pc'[c] = "route_event" \/ pc'[c] = "idle")
    BY <2>1, ReadMoves, Zenon DEF RouteRead
  <2> QED BY <2>2 DEF At
<1>5. ASSUME NEW k \in Cycles, HumanRead(c, k) PROVE At(c, "idle", {"human_complete", "idle"})
  <2>1. PICK ok, read : ReadStep(c, "idle", ok, "human_complete", read)
    <3>1. ReadStep(c, "idle", cycles[k].status = "AWAITING_HUMAN", "human_complete",
                   [Nothing EXCEPT !.cycle = k, !.event = FindOpen(k, "AWAITING_HUMAN")])
      BY <1>5 DEF HumanRead
    <3> QED BY <3>1
  <2> QED BY <2>1, ReadMoves DEF At
<1>6. ASSUME NEW k \in Cycles, RetryRead(c, k) PROVE At(c, "idle", {"retry_history", "idle"})
  <2>1. PICK ok, read : ReadStep(c, "idle", ok, "retry_history", read)
    <3>1. ReadStep(c, "idle", cycles[k].status = "FAILED", "retry_history", [Nothing EXCEPT !.cycle = k])
      BY <1>6 DEF RetryRead
    <3> QED BY <3>1
  <2> QED BY <2>1, ReadMoves DEF At
<1>7. ASSUME NEW k \in Cycles, NEW op, StatusRead(c, k, op) PROVE At(c, "idle", {"status_write", "idle"})
  BY <1>7, ReadMoves DEF StatusRead, At
<1> QED BY <1>1, <1>2, <1>3, <1>4, <1>5, <1>6, <1>7 DEF Begin, At

LEMMA RunMoves ==
  ASSUME TypeOK, NEW c \in Calls, NEW k \in Cycles, Run(c, k)
  PROVE  At(c, "idle", {"advance_read", "run_recs", "idle"})
BY ReadMoves DEF Run, At

LEMMA OthersKept ==
  ASSUME TypeOK, NEW c \in Calls, Begin(c) \/ Continue(c) \/ \E k \in Cycles : Run(c, k)
  PROVE  OthersWait(c)
BY BeginMoves, ContinueMoves, RunMoves DEF At, OthersWait

EntersAdvance(c) ==
  \/ \E k \in Cycles : Advance(c, k) \/ Run(c, k)
  \/ RunRecs(c) \/ AdvanceRun(c) \/ AdvanceBudget(c) \/ AdvanceStop(c) \/ AdvanceFind(c)
  \/ AdvanceComplete(c) \/ AdvanceCreate(c)

LEMMA WhoAdvances ==
  ASSUME TypeOK, NEW c \in Calls, Begin(c) \/ Continue(c) \/ \E k \in Cycles : Run(c, k),
         pc'[c] \in Advancing \cup {"advance_read"}
  PROVE  EntersAdvance(c) \/ UNCHANGED <<pc, local>>
<1>1. CASE Begin(c)
  BY <1>1, BeginMoves DEF At, Advancing, EntersAdvance
<1>2. CASE Continue(c)
  BY <1>2, ContinueMoves DEF At, Advancing, EntersAdvance
<1> QED BY <1>1, <1>2 DEF EntersAdvance


-----------------------------------------------------------------------------
(* What a call has in hand when it advances a cycle.                       *)

LEMMA DecisionKept ==
  ASSUME SerialInv, [Next]_vars, NEW p, NEW l,
         p \in Advancing \cup {"advance_read"} => l.cycle \in Cycles, DecisionOK(p, l)
  PROVE  DecisionOK(p, l)'
<1>1. CASE p \notin Advancing \cup {"advance_read"}
  BY <1>1 DEF DecisionOK, Advancing, Targeted
<1>2. CASE p \in Advancing \cup {"advance_read"}
  <2>1. Decided(l.cycle) => (Decided(l.cycle))'
    BY <1>2, DecidedKept
  <2>2. LineageDecided(l.cycle) => (LineageDecided(l.cycle))'
    BY <1>2, LineageDecidedKept
  <2> QED BY <2>1, <2>2 DEF DecisionOK
<1> QED BY <1>1, <1>2

LEMMA AdvanceDecides ==
  ASSUME DecisionInv, Undirected, NEW c \in Calls, EntersAdvance(c)
  PROVE  DecisionOK(pc'[c], local'[c])
<1>0. /\ TypeOK /\ CallOK(c) /\ InHand(c) /\ DecisionInHand(c) /\ local[c] \in Local
      /\ \A k \in Cycles : cycles[k].stage \in CycleStage
  BY Types DEF DecisionInv, HistoryInv, SerialInv, IInv, Row
<1>1. ASSUME NEW k \in Cycles, Run(c, k) PROVE DecisionOK(pc'[c], local'[c])
  <2>1. CASE ReadStep(c, "idle", TRUE, "run_recs", [Nothing EXCEPT !.cycle = k, !.about = "DECIDING"])
    <3>1. pc'[c] = "run_recs"
      BY <1>0, <2>1, StepFacts DEF ReadStep
    <3> QED BY <3>1 DEF DecisionOK, Advancing, Targeted
  <2>2. CASE /\ cycles[k].stage \notin {"DECIDING", "AWAITING_HUMAN", "COMPLETED"}
             /\ ReadStep(c, "idle", TRUE, "advance_read", [Nothing EXCEPT !.cycle = k, !.about = cycles[k].stage])
    <3>1. pc'[c] = "advance_read" /\ local'[c] = [Nothing EXCEPT !.cycle = k, !.about = cycles[k].stage]
      BY <1>0, <2>2, StepFacts DEF ReadStep
    <3>2. local'[c].to = "none" /\ local'[c].about = cycles[k].stage
      BY <3>1 DEF Nothing
    <3> QED BY <2>2, <3>1, <3>2 DEF DecisionOK, Advancing, Targeted
  <2> QED BY <1>1, <2>1, <2>2 DEF Run
<1>2. CASE RunRecs(c)
  <2>1. CASE ReadStep(c, "run_recs", TRUE, "run_ceo", local[c])
    <3>1. pc'[c] = "run_ceo"
      BY <1>0, <2>1, StepFacts DEF ReadStep
    <3> QED BY <3>1 DEF DecisionOK, Advancing, Targeted
  <2>2. CASE Decided(local[c].cycle) /\ ReadStep(c, "run_recs", TRUE, "advance_read", [local[c] EXCEPT !.to = "EXECUTING"])
    <3>1. pc[c] = "run_recs" /\ pc'[c] = "advance_read" /\ local'[c] = [local[c] EXCEPT !.to = "EXECUTING"]
      BY <1>0, <2>2, StepFacts DEF ReadStep
    <3>2. local'[c].to = "EXECUTING" /\ local'[c].about = "DECIDING" /\ local'[c].cycle = local[c].cycle
      BY <1>0, <3>1 DEF Local, CallOK, Asking
    <3> QED BY <2>2, <3>1, <3>2 DEF DecisionOK, Advancing, Targeted
  <2> QED BY <1>2, <2>1, <2>2 DEF RunRecs
<1>3. CASE AdvanceRun(c)
  <2> DEFINE k == local[c].cycle
             to == IF cycles[k].status = "RUNNING" THEN "advance_budget" ELSE "idle"
             read == [Nothing EXCEPT !.cycle = k, !.stage = cycles[k].stage, !.status = cycles[k].status,
                                     !.to = local[c].to, !.about = local[c].about]
  <2>1. Step(c, "advance_read", to, read)
    BY <1>3 DEF AdvanceRun, AdvanceRead, ReadStep
  <2>2. pc[c] = "advance_read" /\ pc'[c] = to /\ (to # "idle" => local'[c] = read)
    BY <1>0, <2>1, StepFacts
  <2>3. CASE to = "idle"
    BY <2>2, <2>3 DEF DecisionOK, Advancing, Targeted
  <2>4. CASE to # "idle"
    <3>1. pc'[c] = "advance_budget" /\ local'[c] = read
      BY <2>2, <2>4
    <3>2. /\ local'[c].cycle = k /\ local'[c].stage = cycles[k].stage
          /\ local'[c].to = local[c].to /\ local'[c].about = local[c].about
      BY <3>1 DEF Nothing
    <3>3. local[c].about = cycles[k].stage
      BY <1>0, <2>2 DEF InHand
    <3>4. \/ local[c].to = "none" /\ local[c].about \notin {"DECIDING", "AWAITING_HUMAN", "COMPLETED"}
          \/ local[c].to = "EXECUTING" /\ Decided(k) /\ local[c].about = "DECIDING"
      BY <1>0, <2>2 DEF DecisionInHand, DecisionOK
    <3> HIDE DEF k, to, read
    <3> QED BY <3>1, <3>2, <3>3, <3>4 DEF DecisionOK, Advancing, Targeted
  <2> QED BY <2>3, <2>4
<1>4. CASE AdvanceBudget(c)
  <2>1. CASE ReadStep(c, "advance_budget", TRUE, "stop_read", local[c])
    <3>1. pc'[c] = "stop_read"
      BY <1>0, <2>1, StepFacts DEF ReadStep
    <3> QED BY <3>1 DEF DecisionOK, Advancing, Targeted
  <2>2. CASE AdvanceWithin(c, NextStage(c))
    <3> DEFINE k == local[c].cycle
               stage == local[c].stage
               to == IF NextStage(c) \in CYCLE_STAGE_TRANSITIONS[local[c].stage]
                     THEN IF NextStage(c) = "EXECUTING" THEN "advance_stop" ELSE "advance_find"
                     ELSE "idle"
               read == [local[c] EXCEPT !.to = NextStage(c)]
    <3>1. Step(c, "advance_budget", to, read)
      BY <2>2 DEF AdvanceWithin, ReadStep
    <3>2. pc[c] = "advance_budget" /\ pc'[c] = to /\ (to # "idle" => local'[c] = read)
      BY <1>0, <3>1, StepFacts
    <3>3. CASE to = "idle"
      BY <3>2, <3>3 DEF DecisionOK, Advancing, Targeted
    <3>4. CASE to # "idle"
      <4>1. pc'[c] \in {"advance_stop", "advance_find"} /\ local'[c] = read
        BY <3>2, <3>4
      <4>2. /\ local'[c].cycle = k /\ local'[c].stage = stage
            /\ local'[c].to = NextStage(c) /\ local'[c].about = local[c].about
        BY <1>0, <4>1 DEF Local
      <4>3. stage \notin {"AWAITING_HUMAN", "COMPLETED"} /\ local[c].about = stage /\ (local[c].to = "EXECUTING" => Decided(k))
        BY <1>0, <3>2 DEF DecisionInHand, DecisionOK, Advancing
      <4>4. k \in Cycles /\ Exists(k) /\ cycles[k].stage = stage /\ local[c].to \in {"none", "EXECUTING"} /\ stage \in CycleStage
        BY <1>0, <3>2 DEF InHand, CallOK, Advancing, Exists
      <4>5. CASE local[c].to = "EXECUTING"
        <5>1. LineageDecided(k)
          BY <4>3, <4>4, <4>5, LineageSelf DEF LineageDecided
        <5> HIDE DEF k, stage, to, read
        <5> QED BY <4>1, <4>2, <4>3, <5>1 DEF DecisionOK, Advancing, Targeted
      <4>6. CASE local[c].to = "none"
        <5>1. NextStage(c) = Adjacent(stage)
          BY <4>6 DEF NextStage
        <5>2. Adjacent(stage) \in Beyond => stage \in Beyond
          BY <4>3, <4>4, AdjacentFacts, Indices, Stages DEF Beyond
        <5>3. stage \in Beyond => LineageDecided(k)
          BY <4>4 DEF DecisionInv, DecidedBeyond
        <5> HIDE DEF k, stage, to, read
        <5> QED BY <4>1, <4>2, <4>3, <5>1, <5>2, <5>3 DEF DecisionOK, Advancing, Targeted
      <4> QED BY <4>4, <4>5, <4>6
    <3> QED BY <3>3, <3>4
  <2> QED BY <1>4, <2>1, <2>2 DEF AdvanceBudget
<1>5. CASE AdvanceStop(c) \/ AdvanceFind(c) \/ AdvanceComplete(c) \/ AdvanceCreate(c)
  <2>1. /\ pc[c] \in Targeted /\ pc'[c] \in (Targeted \ {"advance_stop"}) \cup {"idle"}
        /\ pc'[c] # "idle" => /\ local'[c].cycle = local[c].cycle /\ local'[c].stage = local[c].stage
                              /\ local'[c].to = local[c].to /\ local'[c].about = local[c].about
    <3>1. CASE AdvanceStop(c)
      <4>1. Step(c, "advance_stop", "advance_find", local[c]) \/ Step(c, "advance_stop", "idle", local[c])
        BY <3>1 DEF AdvanceStop, ReadStep
      <4> QED BY <1>0, <4>1, StepFacts DEF Targeted, Advancing
    <3>2. CASE AdvanceFind(c)
      <4>1. Step(c, "advance_find", "advance_complete", [local[c] EXCEPT !.event = FindOpen(local[c].cycle, local[c].stage)])
        BY <3>2 DEF AdvanceFind, ReadStep
      <4>2. /\ pc[c] = "advance_find" /\ pc'[c] = "advance_complete"
            /\ local'[c] = [local[c] EXCEPT !.event = FindOpen(local[c].cycle, local[c].stage)]
        BY <1>0, <4>1, StepFacts
      <4> QED BY <1>0, <4>2 DEF Targeted, Advancing, Local
    <3>3. CASE AdvanceComplete(c) \/ AdvanceCreate(c)
      <4>1. Step(c, "advance_complete", "advance_create", local[c]) \/ Step(c, "advance_create", "advance_write", local[c])
        BY <3>3 DEF AdvanceComplete, AdvanceCreate
      <4> QED BY <1>0, <4>1, StepFacts DEF Targeted, Advancing
    <3> QED BY <1>5, <3>1, <3>2, <3>3
  <2>2. /\ local[c].stage \notin {"AWAITING_HUMAN", "COMPLETED"} /\ local[c].about = local[c].stage
        /\ local[c].to \in Beyond => LineageDecided(local[c].cycle)
    BY <1>0, <2>1 DEF DecisionInHand, DecisionOK, Targeted
  <2>3. CASE pc'[c] = "idle"
    BY <2>3 DEF DecisionOK, Advancing, Targeted
  <2>4. CASE pc'[c] # "idle"
    BY <2>1, <2>2, <2>4 DEF DecisionOK, Targeted, Advancing
  <2> QED BY <2>3, <2>4
<1>6. ASSUME NEW k \in Cycles, Advance(c, k) PROVE FALSE
  BY <1>6 DEF Advance, Undirected
<1> QED BY <1>1, <1>2, <1>3, <1>4, <1>5, <1>6 DEF EntersAdvance


(* The calls that are not served, and the one that is, keep what they have *)
(* in hand.                                                                *)
LEMMA CallsDecide ==
  ASSUME DecisionInv, Undirected, [Next]_vars, NEW d \in Calls
  PROVE  DecisionInHand(d)'
<1>0. SerialInv /\ TypeOK /\ CallOK(d) /\ DecisionInHand(d)
  BY DEF DecisionInv, HistoryInv, SerialInv, IInv
<1>1. ASSUME NEW p, NEW l, p = pc'[d], l = local'[d], DecisionOK(p, l), p \in Advancing \cup {"advance_read"} => l.cycle \in Cycles
      PROVE  DecisionInHand(d)'
  <2>1. (DecisionOK(p, l))'
    BY <1>0, <1>1, DecisionKept
  <2> QED BY <1>1, <2>1 DEF DecisionInHand, DecisionOK, Decided, LineageDecided, Lineage
<1>2. CASE pc'[d] = pc[d] /\ local'[d] = local[d]
  BY <1>0, <1>1, <1>2 DEF DecisionInHand, CallOK, Advancing
<1>3. CASE pc'[d] = "idle"
  BY <1>3 DEF DecisionInHand, DecisionOK, Advancing, Targeted
<1>4. CASE Begin(d) \/ Continue(d) \/ \E k \in Cycles : Run(d, k)
  <2>1. CASE pc'[d] \notin Advancing \cup {"advance_read"}
    BY <2>1 DEF DecisionInHand, DecisionOK, Advancing, Targeted
  <2>2. CASE pc'[d] \in Advancing \cup {"advance_read"} /\ ~EntersAdvance(d)
    BY <1>0, <1>2, <1>4, <2>2, WhoAdvances
  <2>3. CASE pc'[d] \in Advancing \cup {"advance_read"} /\ EntersAdvance(d)
    <3>1. DecisionOK(pc'[d], local'[d])
      BY <2>3, AdvanceDecides
    <3>2. local'[d].cycle \in Cycles
      <4>1. (CallOK(d))'
        BY <1>0, NextIInv DEF SerialInv, IInv
      <4> QED BY <2>3, <4>1 DEF CallOK, Advancing
    <3> QED BY <1>1, <3>1, <3>2
  <2> QED BY <2>1, <2>2, <2>3
<1>5. ASSUME NEW c \in Calls \ {d}, OthersWait(c) PROVE DecisionInHand(d)'
  BY <1>2, <1>5 DEF OthersWait
<1>6. ASSUME NEW c \in Calls, Begin(c) \/ Continue(c) \/ \E k \in Cycles : Run(c, k) PROVE DecisionInHand(d)'
  BY <1>0, <1>4, <1>5, <1>6, OthersKept
<1>7. CASE HumanDecides \/ Spend \/ UNCHANGED vars
  BY <1>2, <1>7 DEF HumanDecides, Decide, Spend, vars
<1>8. CASE Crash
  BY <1>3, <1>8 DEF Crash
<1> QED BY <1>6, <1>7, <1>8 DEF Next, Drive

-----------------------------------------------------------------------------
(* Beyond the review only with a decision.                                 *)

(* The stage after the furthest completed one is beyond the review only if *)
(* that one is.                                                            *)
LEMMA ResumeBeyond ==
  ASSUME NEW stages \in SUBSET (CycleStage \ {"AWAITING_HUMAN"}), "COMPLETED" \notin stages,
         resolveResumeStage(stages) \in Beyond
  PROVE  \E s \in stages : s \in Beyond
<1>1. stages \in SUBSET CycleStage
  OBVIOUS
<1>2. resolveResumeStage(stages) # "CREATED" /\ Index(resolveResumeStage(stages)) \in 7 .. 10
  BY Indices DEF Beyond
<1>3. PICK s \in stages : Index(s) = Index(resolveResumeStage(stages)) - 1
  BY <1>1, <1>2, ResumeFacts
<1>4. s \in Beyond
  BY <1>2, <1>3, Indices, Stages DEF Beyond
<1> QED BY <1>4

LEMMA NoReviewIsCompleted == \A k : "AWAITING_HUMAN" \notin completedLinearStages(k)
BY DEF completedLinearStages

(* What a cycle resumes at has been decided, if what it completed was.     *)
LEMMA ResumeDecided ==
  ASSUME DecisionInv, NEW k \in Cycles, Exists(k), resolveResumeStage(completedLinearStages(k)) \in Beyond
  PROVE  LineageDecided(k)
<1>1. completedLinearStages(k) \in SUBSET (CycleStage \ {"AWAITING_HUMAN"})
  BY CompletedStages, NoReviewIsCompleted DEF DecisionInv, HistoryInv, SerialInv, IInv
<1>2. "COMPLETED" \notin completedLinearStages(k)
  BY DEF DecisionInv, HistoryInv, HistoryOK
<1>3. PICK s \in completedLinearStages(k) : s \in Beyond
  BY <1>1, <1>2, ResumeBeyond
<1> QED BY <1>3 DEF DecisionInv, DecidedBeyond

LEMMA RetryDecided ==
  ASSUME SerialInv, [Next]_vars, NEW k \in Cycles, NEW j \in Cycles, cycles'[k].of = j, LineageDecided(j)
  PROVE  (LineageDecided(k))'
<1>1. (LineageDecided(j))'
  BY LineageDecidedKept
<1>2. (Lineage(j))' \subseteq (Lineage(k))'
  BY LineageOfRetry
<1> QED BY <1>1, <1>2 DEF LineageDecided

LEMMA StageDecided ==
  ASSUME DecisionInv, [Next]_vars, NEW k \in Cycles, Exists(k)', cycles'[k].stage \in Beyond
  PROVE  (LineageDecided(k))'
<1>0. SerialInv
  BY DEF DecisionInv, HistoryInv
<1>1. CASE LineageDecided(k)
  BY <1>0, <1>1, LineageDecidedKept
<1>2. CASE cycles'[k] = cycles[k] \/ Restated(k)
  BY <1>1, <1>2 DEF DecisionInv, DecidedBeyond, Restated, Exists
<1>3. CASE Staged(k)
  <2> PICK c \in Calls : pc[c] = "advance_write" /\ local[c].cycle = k /\ local[c].to = cycles'[k].stage
    BY <1>3 DEF Staged
  <2>1. DecisionOK(pc[c], local[c])
    BY DEF DecisionInv, DecisionInHand
  <2> QED BY <1>1, <2>1 DEF DecisionOK, Targeted, Advancing
<1>4. CASE Resumed(k)
  BY <1>1, <1>4, ResumeDecided DEF Resumed, Exists
<1>5. CASE Created(k)
  <2>1. cycles'[k].stage # "CREATED"
    BY DEF Beyond
  <2> PICK j \in Cycles : j = cycles'[k].of /\ cycles[j].status = "FAILED" /\ cycles'[k].stage = resolveResumeStage(completedLinearStages(j))
    BY <1>5, <2>1 DEF Created
  <2>2. LineageDecided(j)
    BY ResumeDecided DEF Exists
  <2> QED BY <1>0, <2>2, RetryDecided
<1>6. CASE Routed(k)
  BY <1>6 DEF Routed, Beyond
<1> QED BY <1>0, <1>2, <1>3, <1>4, <1>5, <1>6, RowSteps DEF RowMoves

LEMMA CompletedDecided ==
  ASSUME DecisionInv, [Next]_vars, NEW k \in Cycles, Exists(k)', NEW s \in Beyond, s \in (completedLinearStages(k))'
  PROVE  (LineageDecided(k))'
<1>0. SerialInv
  BY DEF DecisionInv, HistoryInv
<1>1. CASE s \in completedLinearStages(k)
  <2>1. Exists(k)
    <3> SUFFICES ASSUME ~Exists(k) PROVE FALSE
      OBVIOUS
    <3>1. events[k] = << >>
      BY <1>0 DEF SerialInv, NothingOfTheAbsent
    <3> QED BY <1>1, <3>1 DEF completedLinearStages
  <2>2. LineageDecided(k)
    BY <1>1, <2>1 DEF DecisionInv, DecidedBeyond
  <2> QED BY <1>0, <2>2, LineageDecidedKept
<1>2. CASE s \notin completedLinearStages(k)
  <2>1. EventMoves
    BY <1>0, <1>2, CompletedSame, EventSteps
  <2> PICK j \in Cycles : Exists(j) /\ UNCHANGED cycles /\ (Appended(j) \/ Marked(j))
    BY <2>1 DEF EventMoves
  <2>2. j = k
    BY <1>0, <1>2, EventsGrow
  <2>3. s = cycles[k].stage
    BY <1>0, <1>2, <2>2, EventsGrow
  <2>4. LineageDecided(k)
    BY <2>2, <2>3 DEF DecisionInv, DecidedBeyond
  <2> QED BY <1>0, <2>4, LineageDecidedKept
<1> QED BY <1>1, <1>2

LEMMA NextDecision ==
  ASSUME DecisionInv, OneAtATime, Undirected, [Next]_vars
  PROVE  DecisionInv'
<1>1. HistoryInv'
  BY NextHistory DEF DecisionInv
<1>2. DecidedBeyond'
  BY StageDecided, CompletedDecided DEF DecidedBeyond
<1> QED BY <1>1, <1>2, CallsDecide DEF DecisionInv

LEMMA InitDecision == Init => DecisionInv
<1> SUFFICES ASSUME Init PROVE DecisionInv
  OBVIOUS
<1>1. HistoryInv
  BY InitSerial, InitHistory DEF HistoryInv
<1>2. DecidedBeyond
  BY DEF Init, DecidedBeyond, Exists, AbsentCycle
<1>3. \A c \in Calls : DecisionInHand(c)
  BY DEF Init, DecisionInHand, DecisionOK, Advancing, Targeted
<1> QED BY <1>1, <1>2, <1>3 DEF DecisionInv

LEMMA Decisions == OneAtATime /\ Undirected /\ Spec => [](DecisionInv /\ OneAtATime /\ Undirected)
<1>1. DecisionInv /\ OneAtATime /\ Undirected /\ [Next]_vars => (DecisionInv /\ OneAtATime /\ Undirected)'
  BY NextDecision, ProfileKept DEF OneAtATime, Undirected
<1> QED BY <1>1, InitDecision, PTL DEF Spec

(* Served one at a time, and without the bookkeeping advance, no cycle is  *)
(* EXECUTING or further unless a human has decided on a recommendation of  *)
(* its own, or of a cycle it retries: from DECIDING run-next-stage goes on *)
(* only then, the human's return goes back, and a retry starts after what  *)
(* its failed predecessor has done. Restarts do not change this.           *)
THEOREM ExecutionWasDecided == OneAtATime /\ Undirected /\ Spec => []ExecutingWasDecided
<1>1. DecisionInv => ExecutingWasDecided
  BY DEF DecisionInv, DecidedBeyond, ExecutingWasDecided, Beyond, LineageDecided
<1> QED BY <1>1, Decisions, PTL


-----------------------------------------------------------------------------
(* What is completed stays so, in a cycle and in its lineage.              *)

LEMMA CompletedKept ==
  ASSUME SerialInv, [Next]_vars, NEW k \in Cycles
  PROVE  completedLinearStages(k) \subseteq (completedLinearStages(k))'
<1>1. CASE UNCHANGED events
  BY <1>1, CompletedSame
<1>2. CASE EventMoves
  <2> PICK j \in Cycles : Appended(j) \/ Marked(j)
    BY <1>2 DEF EventMoves
  <2>1. CASE j # k
    BY <2>1, EventsGrow
  <2>2. CASE j = k
    BY <2>2, EventsGrow
  <2> QED BY <2>1, <2>2
<1> QED BY <1>1, <1>2, EventSteps

LEMMA DoneKept ==
  ASSUME SerialInv, [Next]_vars, NEW k \in Cycles
  PROVE  DoneInLineage(k) \subseteq (DoneInLineage(k))'
<1> SUFFICES ASSUME NEW j \in Lineage(k), NEW s \in completedLinearStages(j) PROVE s \in (DoneInLineage(k))'
  BY DEF DoneInLineage
<1>1. j \in Cycles /\ j \in (Lineage(k))'
  BY LineageKept DEF Lineage
<1>2. s \in (completedLinearStages(j))'
  BY <1>1, CompletedKept
<1> QED BY <1>1, <1>2 DEF DoneInLineage

LEMMA DoneOfRetry ==
  ASSUME SerialInv, [Next]_vars, NEW k \in Cycles, NEW j \in Cycles, cycles'[k].of = j
  PROVE  DoneInLineage(j) \subseteq (DoneInLineage(k))'
<1>1. DoneInLineage(j) \subseteq (DoneInLineage(j))'
  BY DoneKept
<1>2. (DoneInLineage(j))' \subseteq (DoneInLineage(k))'
  BY LineageOfRetry DEF DoneInLineage
<1> QED BY <1>1, <1>2

LEMMA DoneSelf ==
  ASSUME NEW k \in Cycles
  PROVE  completedLinearStages(k) \subseteq DoneInLineage(k)
BY LineageSelf DEF DoneInLineage

LEMMA HasEventKept ==
  ASSUME SerialInv, [Next]_vars, NEW k \in Cycles, NEW stage, HasEvent(k, stage)
  PROVE  (HasEvent(k, stage))'
<1>1. CASE UNCHANGED events
  BY <1>1 DEF HasEvent
<1>2. CASE EventMoves
  <2> PICK j \in Cycles : Appended(j) \/ Marked(j)
    BY <1>2 DEF EventMoves
  <2>1. CASE j # k
    <3>1. events'[k] = events[k]
      BY <2>1, EventsGrow
    <3> QED BY <3>1 DEF HasEvent
  <2>2. CASE j = k
    <3>1. \A i \in DOMAIN events[k] : i \in DOMAIN events'[k] /\ events'[k][i].stage = events[k][i].stage
      BY <2>2, EventsGrow
    <3> QED BY <3>1 DEF HasEvent
  <2> QED BY <2>1, <2>2
<1> QED BY <1>1, <1>2, EventSteps

LEMMA HasNewEvent ==
  ASSUME TypeOK, NEW k \in Cycles, NEW stage \in CycleStage, NEW about \in CycleStage \cup {"none"},
         EventAdded(k, stage, about)
  PROVE  (HasEvent(k, stage))'
<1>1. events'[k][Len(events[k]) + 1].stage = stage
  BY NewEvent
<1>2. DOMAIN events'[k] = 1 .. (Len(events[k]) + 1) /\ Len(events[k]) \in Nat
  BY EventCreated, Zenon
<1>3. Len(events[k]) + 1 \in DOMAIN events'[k]
  BY <1>2
<1> QED BY <1>1, <1>3 DEF HasEvent

-----------------------------------------------------------------------------
(* What the stages are on the way.                                         *)

(* From DECIDING the review is passed over: it is nobody's work.           *)
LEMMA BeforeNext ==
  ASSUME NEW stage \in CycleStage \ {"AWAITING_HUMAN"}, NEW next \in {"EXECUTING", Adjacent(stage)},
         next \in CYCLE_STAGE_TRANSITIONS[stage]
  PROVE  Before(next) \subseteq Before(stage) \cup {stage}
<1>1. CASE next = "EXECUTING"
  <2>1. stage = "DECIDING"
    BY <1>1, StageTransitions
  <2> QED BY <1>1, <2>1, Indices, Stages DEF Before
<1>2. CASE next = Adjacent(stage)
  <2>1. stage # "COMPLETED"
    BY StageTransitions, AdjacentFacts, Stages DEF CYCLE_STAGE_TRANSITIONS
  <2>2. Index(next) = Index(stage) + 1
    BY <1>2, <2>1, AdjacentFacts
  <2>3. \A s \in CycleStage : Index(s) < Index(stage) + 1 => Index(s) < Index(stage) \/ s = stage
    <3>1. \A s \in CycleStage : Index(s) = Index(stage) => s = stage
      BY IndexFacts
    <3>2. Index(stage) \in Int /\ \A s \in CycleStage : Index(s) \in Int
      BY IndexFacts
    <3> QED BY <3>1, <3>2
  <2> QED BY <2>2, <2>3 DEF Before
<1> QED BY <1>1, <1>2

(* All that is before the stage to resume at has been done.                *)
LEMMA BeforeResumed ==
  ASSUME NEW stages \in SUBSET (CycleStage \ {"AWAITING_HUMAN"}), "COMPLETED" \notin stages,
         NEW done, stages \subseteq done, \A s \in stages : Before(s) \subseteq done
  PROVE  Before(resolveResumeStage(stages)) \subseteq done
<1>1. stages \in SUBSET CycleStage /\ resolveResumeStage(stages) \in CycleStage
  BY ResumeFacts
<1>2. CASE resolveResumeStage(stages) = "CREATED"
  <2>1. Before("CREATED") = {}
    BY IndexFacts, Indices DEF Before
  <2> QED BY <1>2, <2>1
<1>3. CASE \E s \in stages : Index(s) = Index(resolveResumeStage(stages)) - 1
  <2> PICK s \in stages : Index(s) = Index(resolveResumeStage(stages)) - 1
    BY <1>3
  <2>1. \A x \in CycleStage : Index(x) < Index(resolveResumeStage(stages)) => Index(x) < Index(s) \/ x = s
    <3>1. \A x \in CycleStage : Index(x) = Index(s) => x = s
      BY IndexFacts
    <3>2. /\ Index(s) \in Int /\ Index(resolveResumeStage(stages)) \in Int
          /\ \A x \in CycleStage : Index(x) \in Int
      BY <1>1, IndexFacts
    <3> QED BY <3>1, <3>2
  <2> QED BY <2>1 DEF Before
<1> QED BY <1>1, <1>2, <1>3, ResumeFacts


-----------------------------------------------------------------------------
(* What a call that moves a cycle has completed and created.               *)

LEMMA StagesKept ==
  ASSUME SerialInv, [Next]_vars, NEW p, NEW l,
         p \in Targeted \cup {"route_write", "human_write"} => l.cycle \in Cycles, StagesOK(p, l)
  PROVE  StagesOK(p, l)'
<1>1. CASE p \notin Targeted \cup {"route_write", "human_write"}
  BY <1>1 DEF StagesOK, Targeted, Advancing
<1>2. CASE p \in Targeted \cup {"route_write", "human_write"}
  <2>1. l.stage \in completedLinearStages(l.cycle) => l.stage \in (completedLinearStages(l.cycle))'
    BY <1>2, CompletedKept
  <2>2. HasEvent(l.cycle, l.to) => (HasEvent(l.cycle, l.to))'
    BY <1>2, HasEventKept
  <2>3. HasEvent(l.cycle, "AWAITING_HUMAN") => (HasEvent(l.cycle, "AWAITING_HUMAN"))'
    BY <1>2, HasEventKept
  <2>4. (Before(l.to))' = Before(l.to) /\ (Before(l.stage))' = Before(l.stage)
    BY DEF Before
  <2> QED BY <2>1, <2>2, <2>3, <2>4 DEF StagesOK
<1> QED BY <1>1, <1>2

(* The step of the call that is served.                                    *)
LEMMA ServedStages ==
  ASSUME StagesInv, [Next]_vars, NEW c \in Calls, Continue(c),
         NEW p, NEW l, p = pc'[c], l = local'[c], l.cycle \in Cycles
  PROVE  StagesOK(p, l)'
<1>0. /\ SerialInv /\ TypeOK /\ CallOK(c) /\ InHand(c) /\ DecisionInHand(c) /\ StagesInHand(c)
      /\ local[c] \in Local
  BY Types DEF StagesInv, DecisionInv, HistoryInv, SerialInv, IInv
<1>1. CASE p \notin Targeted \cup {"route_write", "human_write"}
  BY <1>1 DEF StagesOK, Targeted, Advancing
<1>2. CASE AdvanceBudget(c) /\ p \in Targeted
  <2>1. AdvanceWithin(c, NextStage(c))
    <3>1. p # "stop_read"
      BY <1>2 DEF Targeted, Advancing
    <3>2. ReadStep(c, "advance_budget", TRUE, "stop_read", local[c]) => p = "stop_read"
      BY <1>0, StepFacts DEF ReadStep
    <3> QED BY <1>2, <3>1, <3>2 DEF AdvanceBudget
  <2> DEFINE ok == NextStage(c) \in CYCLE_STAGE_TRANSITIONS[local[c].stage]
             where == IF NextStage(c) = "EXECUTING" THEN "advance_stop" ELSE "advance_find"
  <2>2. ok /\ p = where /\ l = [local[c] EXCEPT !.to = NextStage(c)] /\ pc[c] = "advance_budget"
    <3>1. Step(c, "advance_budget", IF ok THEN where ELSE "idle", [local[c] EXCEPT !.to = NextStage(c)])
      BY <2>1 DEF AdvanceWithin, ReadStep
    <3>2. p # "idle"
      BY <1>2 DEF Targeted, Advancing
    <3> HIDE DEF ok
    <3> QED BY <1>0, <3>1, <3>2, StepFacts
  <2>3. l.to = NextStage(c) /\ l.stage = local[c].stage
    BY <1>0, <2>2 DEF Local
  <2>4. local[c].stage \in CycleStage \ {"AWAITING_HUMAN"}
    BY <1>0, <2>2 DEF CallOK, DecisionInHand, DecisionOK, Advancing
  <2>5. Before(l.to) \subseteq Before(l.stage) \cup {l.stage}
    BY <1>0, <2>2, <2>3, <2>4, NextStageFacts, BeforeNext
  <2>6. p \in {"advance_stop", "advance_find"}
    BY <2>2
  <2>7. StagesOK(p, l)
    BY <2>5, <2>6 DEF StagesOK
  <2> QED BY <1>0, <2>7, StagesKept
<1>3. CASE AdvanceStop(c) \/ AdvanceFind(c) \/ AdvanceComplete(c) \/ AdvanceCreate(c)
  <2>1. /\ pc[c] \in Targeted
        /\ p # "idle" => l.cycle = local[c].cycle /\ l.stage = local[c].stage /\ l.to = local[c].to
    <3>1. CASE AdvanceStop(c)
      <4>1. Step(c, "advance_stop", "advance_find", local[c]) \/ Step(c, "advance_stop", "idle", local[c])
        BY <3>1 DEF AdvanceStop, ReadStep
      <4> QED BY <1>0, <4>1, StepFacts DEF Targeted, Advancing
    <3>2. CASE AdvanceFind(c)
      <4>1. Step(c, "advance_find", "advance_complete", [local[c] EXCEPT !.event = FindOpen(local[c].cycle, local[c].stage)])
        BY <3>2 DEF AdvanceFind, ReadStep
      <4>2. pc[c] = "advance_find" /\ l = [local[c] EXCEPT !.event = FindOpen(local[c].cycle, local[c].stage)]
        BY <1>0, <4>1, StepFacts
      <4> QED BY <1>0, <4>2 DEF Targeted, Advancing, Local
    <3>3. CASE AdvanceComplete(c) \/ AdvanceCreate(c)
      <4>1. Step(c, "advance_complete", "advance_create", local[c]) \/ Step(c, "advance_create", "advance_write", local[c])
        BY <3>3 DEF AdvanceComplete, AdvanceCreate
      <4> QED BY <1>0, <4>1, StepFacts DEF Targeted, Advancing
    <3> QED BY <1>3, <3>1, <3>2, <3>3
  <2>2. (p \in Targeted => Before(l.to) \subseteq Before(l.stage) \cup {l.stage})'
    <3>1. p \in Targeted => Before(l.to) \subseteq Before(l.stage) \cup {l.stage}
      BY <1>0, <2>1 DEF StagesInHand, StagesOK, Targeted, Advancing
    <3>2. (Before(l.to))' = Before(l.to) /\ (Before(l.stage))' = Before(l.stage)
      BY DEF Before
    <3> QED BY <3>1, <3>2
  <2>3. CASE AdvanceStop(c)
    <3>1. p \in {"advance_find", "idle"}
      <4>1. Step(c, "advance_stop", "advance_find", local[c]) \/ Step(c, "advance_stop", "idle", local[c])
        BY <2>3 DEF AdvanceStop, ReadStep
      <4> QED BY <1>0, <4>1, StepFacts
    <3> QED BY <2>2, <3>1 DEF StagesOK
  <2>4. CASE AdvanceFind(c)
    <3>1. p = "advance_complete"
      <4>1. Step(c, "advance_find", "advance_complete", [local[c] EXCEPT !.event = FindOpen(local[c].cycle, local[c].stage)])
        BY <2>4 DEF AdvanceFind, ReadStep
      <4> QED BY <1>0, <4>1, StepFacts
    <3> QED BY <2>2, <3>1 DEF StagesOK
  <2>5. CASE AdvanceComplete(c)
    <3> PICK k \in Cycles : k = local[c].cycle
      BY <1>0, <2>1 DEF CallOK, Targeted, Advancing
    <3>1. /\ pc[c] = "advance_complete" /\ Exists(k) /\ cycles[k].stage = local[c].stage
          /\ EventMarked(k, local[c].event, local[c].about) /\ Picked(k, local[c].event, local[c].stage)
          /\ local[c].event \in DOMAIN events[k] => local[c].about \in CycleStage \cup {"none"}
          /\ Step(c, "advance_complete", "advance_create", local[c])
      BY <1>0, <2>5, AdvanceCompleteFacts
    <3>2. p = "advance_create" /\ l.cycle = k /\ l.stage = local[c].stage
      BY <1>0, <2>1, <3>1, StepFacts
    <3>3. local[c].stage \in (completedLinearStages(k))'
      <4>1. local[c].stage # "AWAITING_HUMAN"
        BY <1>0, <3>1 DEF DecisionInHand, DecisionOK, Advancing
      <4>2. CASE local[c].event \in DOMAIN events[k]
        <5>1. events[k][local[c].event].stage = local[c].stage
          <6>1. DOMAIN events[k] = 1 .. Len(events[k])
            BY <1>0, Types, EventSeq, Zenon
          <6> QED BY <3>1, <4>2, <6>1 DEF Picked
        <5> QED BY <1>0, <3>1, <4>1, <4>2, <5>1, CompletedWhenMarked
      <4>3. CASE local[c].event \notin DOMAIN events[k]
        <5>1. \A d \in Calls : pc[d] \notin {"start_event", "retry_event"}
          BY <1>0, <3>1, AlreadyHeld
        <5>2. HasEvent(k, local[c].stage)
          BY <3>1, <5>1 DEF StagesInv, StagesDone
        <5>3. local[c].stage \in completedLinearStages(k)
          BY <3>1, <4>1, <4>3, <5>2 DEF Picked, HasEvent, completedLinearStages
        <5> QED BY <1>0, <5>3, CompletedKept
      <4> QED BY <4>2, <4>3
    <3>4. l.stage \in (completedLinearStages(l.cycle))'
      BY <3>2, <3>3
    <3> QED BY <2>2, <3>2, <3>4 DEF StagesOK
  <2>6. CASE AdvanceCreate(c)
    <3> PICK k \in Cycles : k = local[c].cycle
      BY <1>0, <2>1 DEF CallOK, Targeted, Advancing
    <3>1. /\ pc[c] = "advance_create" /\ local[c].to \in CycleStage /\ EventAdded(k, local[c].to, "none")
          /\ Step(c, "advance_create", "advance_write", local[c])
      BY <1>0, <2>6, AdvanceCreateFacts
    <3>2. p = "advance_write" /\ l = local[c]
      BY <1>0, <3>1, StepFacts
    <3>3. (HasEvent(k, l.to))'
      BY <1>0, <3>1, <3>2, HasNewEvent
    <3>4. l.stage \in completedLinearStages(k)
      BY <1>0, <3>1, <3>2 DEF StagesInHand, StagesOK
    <3>5. l.stage \in (completedLinearStages(k))'
      BY <1>0, <3>4, CompletedKept
    <3> QED BY <2>2, <3>2, <3>3, <3>5 DEF StagesOK
  <2> QED BY <1>3, <2>3, <2>4, <2>5, <2>6
<1>4. CASE HumanEvent(c)
  <2> PICK k \in Cycles : /\ k = local[c].cycle /\ local[c].to \in CycleStage /\ EventAdded(k, local[c].to, "none")
                          /\ Step(c, "human_event", "human_write", local[c])
    BY <1>0, <1>4, HumanEventFacts
  <2>1. p = "human_write" /\ l = local[c]
    BY <1>0, StepFacts
  <2>2. (HasEvent(k, l.to))'
    BY <1>0, <2>1, HasNewEvent
  <2> QED BY <2>1, <2>2 DEF StagesOK, Targeted, Advancing
<1>5. CASE RouteEvent(c)
  <2> PICK k \in Cycles : /\ k = local[c].cycle /\ local[c].stage \in CycleStage \cup {"none"}
                          /\ EventAdded(k, "AWAITING_HUMAN", local[c].stage) /\ "AWAITING_HUMAN" \in CycleStage
                          /\ Step(c, "route_event", "route_write", local[c])
    BY <1>0, <1>5, RouteEventFacts
  <2>1. p = "route_write" /\ l = local[c]
    BY <1>0, StepFacts
  <2>2. (HasEvent(k, "AWAITING_HUMAN"))'
    BY <1>0, HasNewEvent
  <2> QED BY <2>1, <2>2 DEF StagesOK, Targeted, Advancing
<1> QED BY <1>0, <1>1, <1>2, <1>3, <1>4, <1>5, ContinueMoves DEF At, Targeted, Advancing

LEMMA CallsStages ==
  ASSUME StagesInv, [Next]_vars, NEW d \in Calls
  PROVE  StagesInHand(d)'
<1>0. DecisionInv /\ SerialInv /\ TypeOK /\ CallOK(d) /\ StagesInHand(d)
  BY DEF StagesInv, DecisionInv, HistoryInv, SerialInv, IInv
<1>1. ASSUME NEW p, NEW l, p = pc'[d], l = local'[d], StagesOK(p, l)'
      PROVE  StagesInHand(d)'
  BY <1>1 DEF StagesInHand, StagesOK, completedLinearStages, HasEvent, Before
<1>2. CASE pc'[d] = pc[d] /\ local'[d] = local[d]
  <2>1. pc[d] \in Targeted \cup {"route_write", "human_write"} => local[d].cycle \in Cycles
    BY <1>0 DEF CallOK, Targeted, Advancing
  <2>2. PICK p, l : p = pc[d] /\ l = local[d]
    OBVIOUS
  <2>3. StagesOK(p, l)
    BY <1>0, <2>2 DEF StagesInHand
  <2>4. StagesOK(p, l)'
    BY <1>0, <2>1, <2>2, <2>3, StagesKept
  <2> QED BY <1>1, <1>2, <2>2, <2>4
<1>3. CASE pc'[d] \notin Targeted \cup {"route_write", "human_write"}
  BY <1>3 DEF StagesInHand, StagesOK, Targeted, Advancing
<1>4. CASE Continue(d) /\ pc'[d] \in Targeted \cup {"route_write", "human_write"}
  <2>1. local'[d].cycle \in Cycles
    <3>1. (CallOK(d))'
      BY <1>0, NextIInv DEF SerialInv, IInv
    <3> QED BY <1>4, <3>1 DEF CallOK, Targeted, Advancing
  <2>2. PICK p, l : p = pc'[d] /\ l = local'[d]
    OBVIOUS
  <2>3. StagesOK(p, l)'
    BY <1>0, <1>4, <2>1, <2>2, ServedStages
  <2> QED BY <1>1, <2>2, <2>3
<1>5. ASSUME NEW c \in Calls \ {d}, OthersWait(c) PROVE StagesInHand(d)'
  BY <1>2, <1>5 DEF OthersWait
<1>6. ASSUME NEW c \in Calls, Begin(c) \/ Continue(c) \/ \E k \in Cycles : Run(c, k) PROVE StagesInHand(d)'
  <2>1. CASE c # d
    BY <1>0, <1>5, <1>6, <2>1, OthersKept
  <2>2. CASE c = d /\ Begin(d)
    BY <1>0, <1>2, <1>3, <2>2, BeginMoves DEF At, Targeted, Advancing
  <2>3. CASE c = d /\ \E k \in Cycles : Run(d, k)
    BY <1>0, <1>3, <2>3, RunMoves DEF At, Targeted, Advancing
  <2> QED BY <1>3, <1>4, <1>6, <2>1, <2>2, <2>3
<1>7. CASE HumanDecides \/ Spend \/ UNCHANGED vars
  BY <1>2, <1>7 DEF HumanDecides, Decide, Spend, vars
<1>8. CASE Crash
  BY <1>3, <1>8 DEF Crash, Targeted, Advancing
<1> QED BY <1>6, <1>7, <1>8 DEF Next, Drive


-----------------------------------------------------------------------------
(* Every stage on the way has been done.                                   *)

(* The stages before the one to resume at.                                 *)
LEMMA ResumeDone ==
  ASSUME StagesInv, NEW k \in Cycles, Exists(k)
  PROVE  Before(resolveResumeStage(completedLinearStages(k))) \subseteq DoneInLineage(k)
<1>1. completedLinearStages(k) \in SUBSET (CycleStage \ {"AWAITING_HUMAN"})
  BY CompletedStages, NoReviewIsCompleted DEF StagesInv, DecisionInv, HistoryInv, SerialInv, IInv
<1>2. "COMPLETED" \notin completedLinearStages(k)
  BY DEF StagesInv, DecisionInv, HistoryInv, HistoryOK
<1>3. \A s \in completedLinearStages(k) : Before(s) \subseteq DoneInLineage(k)
  BY DEF StagesInv, StagesDone
<1> QED BY <1>1, <1>2, <1>3, DoneSelf, BeforeResumed

LEMMA BeforeStageDone ==
  ASSUME StagesInv, [Next]_vars, NEW k \in Cycles, Exists(k)', cycles'[k].stage # "AWAITING_HUMAN"
  PROVE  Before(cycles'[k].stage) \subseteq (DoneInLineage(k))'
<1>0. SerialInv
  BY DEF StagesInv, DecisionInv, HistoryInv
<1>1. CASE Before(cycles'[k].stage) \subseteq DoneInLineage(k)
  BY <1>0, <1>1, DoneKept
<1>2. CASE cycles'[k] = cycles[k] \/ Restated(k)
  BY <1>1, <1>2 DEF StagesInv, StagesDone, Restated, Exists
<1>3. CASE Staged(k)
  <2> PICK c \in Calls : /\ pc[c] = "advance_write" /\ local[c].cycle = k /\ local[c].to = cycles'[k].stage
                         /\ local[c].stage = cycles[k].stage
    BY <1>3 DEF Staged
  <2>1. /\ Before(local[c].to) \subseteq Before(local[c].stage) \cup {local[c].stage}
        /\ local[c].stage \in completedLinearStages(k)
    BY DEF StagesInv, StagesInHand, StagesOK, Targeted, Advancing
  <2>2. local[c].stage # "AWAITING_HUMAN"
    BY <2>1, NoReviewIsCompleted
  <2>3. Before(cycles[k].stage) \subseteq DoneInLineage(k)
    BY <1>3, <2>2 DEF StagesInv, StagesDone, Staged, Exists
  <2> QED BY <1>1, <2>1, <2>3, DoneSelf
<1>4. CASE Resumed(k)
  BY <1>1, <1>4, ResumeDone DEF Resumed, Exists
<1>5. CASE Created(k)
  <2>1. CASE cycles'[k].stage = "CREATED"
    <3>1. Before("CREATED") = {}
      BY IndexFacts, Indices DEF Before
    <3> QED BY <2>1, <3>1
  <2>2. CASE cycles'[k].stage # "CREATED"
    <3> PICK j \in Cycles : j = cycles'[k].of /\ cycles[j].status = "FAILED" /\ cycles'[k].stage = resolveResumeStage(completedLinearStages(j))
      BY <1>5, <2>2 DEF Created
    <3>1. Before(cycles'[k].stage) \subseteq DoneInLineage(j)
      BY ResumeDone DEF Exists
    <3> QED BY <1>0, <3>1, DoneOfRetry
  <2> QED BY <2>1, <2>2
<1>6. CASE Routed(k)
  BY <1>6 DEF Routed
<1> QED BY <1>0, <1>2, <1>3, <1>4, <1>5, <1>6, RowSteps DEF RowMoves

LEMMA BeforeCompletedDone ==
  ASSUME StagesInv, [Next]_vars, NEW k \in Cycles, Exists(k)', NEW s \in (completedLinearStages(k))'
  PROVE  Before(s) \subseteq (DoneInLineage(k))'
<1>0. SerialInv
  BY DEF StagesInv, DecisionInv, HistoryInv
<1>1. CASE s \in completedLinearStages(k)
  <2>1. Exists(k)
    <3> SUFFICES ASSUME ~Exists(k) PROVE FALSE
      OBVIOUS
    <3>1. events[k] = << >>
      BY <1>0 DEF SerialInv, NothingOfTheAbsent
    <3> QED BY <1>1, <3>1 DEF completedLinearStages
  <2>2. Before(s) \subseteq DoneInLineage(k)
    BY <1>1, <2>1 DEF StagesInv, StagesDone
  <2> QED BY <1>0, <2>2, DoneKept
<1>2. CASE s \notin completedLinearStages(k)
  <2>1. EventMoves
    BY <1>0, <1>2, CompletedSame, EventSteps
  <2> PICK j \in Cycles : Exists(j) /\ UNCHANGED cycles /\ (Appended(j) \/ Marked(j))
    BY <2>1 DEF EventMoves
  <2>2. j = k
    BY <1>0, <1>2, EventsGrow
  <2>3. s = cycles[k].stage /\ s # "AWAITING_HUMAN"
    BY <1>0, <1>2, <2>2, EventsGrow
  <2>4. Before(s) \subseteq DoneInLineage(k)
    BY <2>2, <2>3 DEF StagesInv, StagesDone
  <2> QED BY <1>0, <2>4, DoneKept
<1> QED BY <1>1, <1>2

(* The call that is to create the first event of its row does.             *)
LEMMA FirstEvent ==
  ASSUME StagesInv, Uninterrupted, [Next]_vars, NEW k \in Cycles, NEW d \in Calls,
         pc[d] \in {"start_event", "retry_event"}, local[d].cycle = k
  PROVE  \/ pc'[d] = pc[d] /\ local'[d] = local[d]
         \/ UNCHANGED cycles /\ (HasEvent(k, cycles[k].stage))'
<1>0. SerialInv /\ TypeOK
  BY DEF StagesInv, DecisionInv, HistoryInv, SerialInv, IInv
<1>1. CASE StartEvent(d)
  <2>1. EventAdded(k, "CREATED", "none") /\ UNCHANGED cycles /\ cycles[k].stage = "CREATED" /\ "CREATED" \in CycleStage
    BY <1>0, <1>1, StartEventFacts
  <2>2. (HasEvent(k, "CREATED"))'
    BY <1>0, <2>1, HasNewEvent
  <2> QED BY <2>1, <2>2 DEF HasEvent
<1>2. CASE RetryEvent(d)
  <2>1. EventAdded(k, local[d].to, "none") /\ UNCHANGED cycles /\ cycles[k].stage = local[d].to /\ local[d].to \in CycleStage
    BY <1>0, <1>2, RetryEventFacts
  <2> PICK stage \in CycleStage : stage = local[d].to
    BY <2>1
  <2>2. (HasEvent(k, stage))'
    BY <1>0, <2>1, HasNewEvent
  <2> QED BY <2>1, <2>2 DEF HasEvent
<1>3. ASSUME NEW c \in Calls, Begin(c) \/ Continue(c) \/ \E m \in Cycles : Run(c, m), c # d
      PROVE  pc'[d] = pc[d] /\ local'[d] = local[d]
  BY <1>0, <1>3, OthersKept DEF OthersWait
<1>4. CASE Begin(d) \/ \E m \in Cycles : Run(d, m)
  BY <1>0, <1>4, BeginMoves, RunMoves DEF At
<1>5. CASE Continue(d)
  BY <1>0, <1>1, <1>2, <1>5, ContinueMoves DEF At
<1>6. CASE HumanDecides \/ Spend \/ UNCHANGED vars
  BY <1>6 DEF HumanDecides, Decide, Spend, vars
<1>7. ASSUME Crash PROVE FALSE
  BY <1>0, <1>7, Types DEF Crash, Uninterrupted
<1>8. CASE \E c \in Calls : Begin(c) \/ Continue(c) \/ \E m \in Cycles : Run(c, m)
  BY <1>3, <1>4, <1>5, <1>8
<1> QED BY <1>6, <1>7, <1>8 DEF Next, Drive

LEMMA RowHasItsEvent ==
  ASSUME StagesInv, Uninterrupted, [Next]_vars, NEW k \in Cycles, Exists(k)'
  PROVE  \/ (HasEvent(k, cycles[k].stage))'
         \/ \E c \in Calls : pc'[c] \in {"start_event", "retry_event"} /\ local'[c].cycle = k
<1>0. SerialInv /\ TypeOK
  BY DEF StagesInv, DecisionInv, HistoryInv, SerialInv, IInv
<1>1. ASSUME NEW stage, stage = cycles'[k].stage, HasEvent(k, stage) PROVE (HasEvent(k, cycles[k].stage))'
  <2>1. (HasEvent(k, stage))'
    BY <1>0, <1>1, HasEventKept
  <2> QED BY <1>1, <2>1 DEF HasEvent
<1>2. CASE Exists(k) /\ cycles'[k].stage = cycles[k].stage
  <2>1. CASE HasEvent(k, cycles[k].stage)
    BY <1>1, <1>2, <2>1
  <2>2. CASE \E c \in Calls : pc[c] \in {"start_event", "retry_event"} /\ local[c].cycle = k
    <3> PICK d \in Calls : pc[d] \in {"start_event", "retry_event"} /\ local[d].cycle = k
      BY <2>2
    <3> QED BY FirstEvent
  <2> QED BY <1>2, <2>1, <2>2 DEF StagesInv, StagesDone
<1>3. CASE Staged(k) \/ Resumed(k)
  <2> PICK c \in Calls : pc[c] \in {"advance_write", "human_write"} /\ local[c].cycle = k /\ local[c].to = cycles'[k].stage
    BY <1>3 DEF Staged, Resumed
  <2>1. HasEvent(k, local[c].to)
    BY DEF StagesInv, StagesInHand, StagesOK
  <2> QED BY <1>1, <2>1
<1>4. CASE Routed(k)
  <2> PICK c \in Calls : pc[c] = "route_write" /\ local[c].cycle = k
    BY <1>4 DEF Routed, Holder
  <2>1. HasEvent(k, "AWAITING_HUMAN")
    BY DEF StagesInv, StagesInHand, StagesOK
  <2> QED BY <1>1, <1>4, <2>1 DEF Routed
<1>5. CASE Created(k)
  BY <1>5 DEF Created
<1> QED BY <1>0, <1>2, <1>3, <1>4, <1>5, RowSteps DEF RowMoves, Restated, Exists

LEMMA CompletedRow ==
  ASSUME StagesInv, [Next]_vars, NEW k \in Cycles, cycles'[k].status = "COMPLETED"
  PROVE  cycles'[k].stage = "COMPLETED"
<1>0. SerialInv
  BY DEF StagesInv, DecisionInv, HistoryInv
<1>1. CASE cycles'[k] = cycles[k]
  BY <1>1 DEF StagesInv, StagesDone, Exists
<1>2. CASE Created(k) \/ Restated(k) \/ Staged(k) \/ Routed(k) \/ Resumed(k)
  BY <1>2 DEF Created, Restated, Staged, Routed, Resumed
<1> QED BY <1>0, <1>1, <1>2, RowSteps DEF RowMoves

LEMMA NextStages ==
  ASSUME StagesInv, OneAtATime, Undirected, Uninterrupted, [Next]_vars
  PROVE  StagesInv'
<1>1. DecisionInv'
  BY NextDecision DEF StagesInv
<1>2. StagesDone'
  <2> SUFFICES ASSUME NEW k \in Cycles, Exists(k)'
               PROVE  (/\ cycles[k].status = "COMPLETED" => cycles[k].stage = "COMPLETED"
                       /\ cycles[k].stage # "AWAITING_HUMAN" => Before(cycles[k].stage) \subseteq DoneInLineage(k)
                       /\ \A s \in completedLinearStages(k) : Before(s) \subseteq DoneInLineage(k)
                       /\ HasEvent(k, cycles[k].stage) \/ \E c \in Calls : pc[c] \in {"start_event", "retry_event"} /\ local[c].cycle = k)'
    BY DEF StagesDone
  <2>1. (cycles[k].stage # "AWAITING_HUMAN" => Before(cycles[k].stage) \subseteq DoneInLineage(k))'
    BY BeforeStageDone DEF Before
  <2>2. (\A s \in completedLinearStages(k) : Before(s) \subseteq DoneInLineage(k))'
    BY BeforeCompletedDone DEF Before
  <2> QED BY <2>1, <2>2, CompletedRow, RowHasItsEvent
<1> QED BY <1>1, <1>2, CallsStages DEF StagesInv

LEMMA InitStages == Init => StagesInv
<1> SUFFICES ASSUME Init PROVE StagesInv
  OBVIOUS
<1>1. StagesDone
  BY DEF Init, StagesDone, Exists, AbsentCycle
<1>2. \A c \in Calls : StagesInHand(c)
  BY DEF Init, StagesInHand, StagesOK, Advancing, Targeted
<1> QED BY <1>1, <1>2, InitDecision DEF StagesInv

(* Served one at a time, without the bookkeeping advance, and with no call *)
(* lost in the middle, a cycle that is COMPLETED has completed every stage *)
(* on the way, itself or in a cycle it retries: run-next-stage completes   *)
(* the stage it leaves, and where a human or a retry takes up a cycle is   *)
(* right after what has been completed.                                    *)
THEOREM CompletedDidEveryStage == OneAtATime /\ Undirected /\ Uninterrupted /\ Spec => []CompletedCyclesDidEveryStage
<1>1. StagesInv /\ OneAtATime /\ Undirected /\ Uninterrupted /\ [Next]_vars => (StagesInv /\ OneAtATime /\ Undirected /\ Uninterrupted)'
  BY NextStages, ProfileKept DEF OneAtATime, Undirected, Uninterrupted
<1>2. StagesInv => CompletedCyclesDidEveryStage
  <2> SUFFICES ASSUME StagesInv, NEW k \in Cycles, cycles[k].status = "COMPLETED",
                      NEW s \in CycleStage \ {"AWAITING_HUMAN", "COMPLETED"}
               PROVE  s \in DoneInLineage(k)
    BY DEF CompletedCyclesDidEveryStage, DoneInLineage
  <2>1. cycles[k].stage = "COMPLETED" /\ Before("COMPLETED") \subseteq DoneInLineage(k)
    BY DEF StagesInv, StagesDone, Exists
  <2>2. Index(s) < 10
    BY Stages, Indices
  <2> QED BY <2>1, <2>2, Indices DEF Before
<1> QED BY <1>1, <1>2, InitStages, PTL DEF Spec


-----------------------------------------------------------------------------
(* While a call is under way nobody else does anything to the cycles.      *)

LEMMA OnlyOne ==
  ASSUME SerialInv, OneAtATime, Uninterrupted, [Next]_vars, NEW d \in Calls, pc[d] # "idle"
  PROVE  Continue(d) \/ UNCHANGED <<cycles, events, pc, local>>
<1>0. TypeOK /\ Alone
  BY DEF SerialInv, IInv
<1>1. ASSUME NEW c \in Calls, Continue(c) PROVE c = d
  BY <1>0, <1>1, ContinueMoves DEF At, Alone
<1>2. ASSUME NEW c \in Calls, pc[c] = "idle", Free(c) PROVE FALSE
  BY <1>0, <1>2, FreeAlone
<1>3. ASSUME NEW c \in Calls, Begin(c) PROVE Free(c)
  BY <1>3 DEF Begin, StartRead, Advance, AdvanceRead, Route, RouteRead, HumanRead, RetryRead, StatusRead, Stop, ReadStep, Step
<1>4. ASSUME NEW c \in Calls, NEW k \in Cycles, Run(c, k) PROVE Free(c)
  BY <1>4 DEF Run, ReadStep, Step
<1>5. CASE HumanDecides \/ Spend \/ UNCHANGED vars
  BY <1>5 DEF HumanDecides, Decide, Spend, vars, tables
<1>6. ASSUME Crash PROVE FALSE
  BY <1>0, <1>6, Types DEF Crash, Uninterrupted
<1> QED BY <1>1, <1>2, <1>3, <1>4, <1>5, <1>6 DEF Next, Drive, Free

(* A call that is leaving a stage keeps leaving until it has.              *)
LEMMA LeavingKept ==
  ASSUME SerialInv, OneAtATime, Uninterrupted, [Next]_vars, NEW k \in Cycles, Leaving(k), cycles'[k].stage = cycles[k].stage
  PROVE  (Leaving(k))'
<1>0. TypeOK
  BY DEF SerialInv, IInv
<1> PICK d \in Calls : pc[d] \in {"advance_create", "advance_write"} /\ local[d].cycle = k
  BY DEF Leaving
<1>1. CASE UNCHANGED <<cycles, events, pc, local>>
  BY <1>1 DEF Leaving
<1>2. CASE Continue(d)
  <2>1. CASE AdvanceCreate(d)
    <3>1. pc'[d] = "advance_write" /\ local'[d] = local[d]
      BY <1>0, <2>1, StepFacts DEF AdvanceCreate
    <3> QED BY <3>1 DEF Leaving
  <2>2. CASE AdvanceWrite(d)
    <3>1. /\ RowSet(k, local[d].to, IF local[d].to = "COMPLETED" THEN "COMPLETED" ELSE local[d].status)
          /\ local[d].to \in CycleStage /\ Index(local[d].to) > Index(cycles[k].stage) /\ cycles[k].stage \in CycleStage
          /\ (IF local[d].to = "COMPLETED" THEN "COMPLETED" ELSE local[d].status) \in CycleStatus
      BY <1>0, <2>2, AdvanceWriteFacts, Types DEF Row
    <3>2. PICK stage \in CycleStage, status \in CycleStatus : RowSet(k, stage, status) /\ stage = local[d].to
      BY <3>1
    <3>3. cycles'[k].stage = stage
      BY <1>0, <3>2, RowWritten
    <3> QED BY <3>1, <3>2, <3>3, IndexFacts
  <2> QED BY <1>0, <1>2, <2>1, <2>2, ContinueMoves DEF At
<1> QED BY <1>1, <1>2, OnlyOne

-----------------------------------------------------------------------------
(* The stage that asked for the latest review.                             *)

LEMMA RequestIs ==
  ASSUME NEW history \in Seq(Event), NEW m \in Asked(history), \A i \in Asked(history) : i <= m
  PROVE  RequestIn(history) = history[m].about
<1>1. DOMAIN history = 1 .. Len(history) /\ Len(history) \in Nat
  BY EventSeq, Zenon
<1>2. Asked(history) \in SUBSET (1 .. Len(history)) /\ Asked(history) # {}
  BY <1>1 DEF Asked
<1>3. Max(Asked(history)) \in Asked(history) /\ \A i \in Asked(history) : i <= Max(Asked(history))
  BY <1>1, <1>2, MaxFacts
<1>4. Max(Asked(history)) = m
  <2>1. Max(Asked(history)) <= m /\ m <= Max(Asked(history))
    BY <1>3
  <2>2. m \in Int /\ Max(Asked(history)) \in Int
    BY <1>1, <1>2, <1>3
  <2> QED BY <2>1, <2>2
<1> QED BY <1>4 DEF RequestIn

(* The latest request of two histories that have the same requests.        *)
LEMMA SameRequests ==
  ASSUME NEW old \in Seq(Event), NEW new \in Seq(Event), Asked(old) = Asked(new),
         \A i \in Asked(old) : new[i].about = old[i].about
  PROVE  Asked(old) # {} => RequestIn(new) = RequestIn(old)
<1> SUFFICES ASSUME Asked(old) # {} PROVE RequestIn(new) = RequestIn(old)
  OBVIOUS
<1>1. DOMAIN old = 1 .. Len(old) /\ Len(old) \in Nat
  BY EventSeq, Zenon
<1>2. Asked(old) \in SUBSET (1 .. Len(old))
  BY <1>1 DEF Asked
<1>3. Max(Asked(old)) \in Asked(old)
  BY <1>1, <1>2, MaxFacts
<1> QED BY <1>3 DEF RequestIn

LEMMA AskedWhenAdded ==
  ASSUME TypeOK, NEW k \in Cycles, NEW stage \in CycleStage, NEW about \in CycleStage \cup {"none"},
         EventAdded(k, stage, about)
  PROVE  /\ stage = "AWAITING_HUMAN" /\ about # "none" => Asked(events'[k]) # {} /\ RequestIn(events'[k]) = about
         /\ about = "none" => /\ Asked(events'[k]) = Asked(events[k])
                              /\ Asked(events[k]) # {} => RequestIn(events'[k]) = RequestIn(events[k])
<1> DEFINE n == Len(events[k])
<1>1. /\ n \in Nat /\ DOMAIN events[k] = 1 .. n /\ DOMAIN events'[k] = 1 .. (n + 1)
      /\ \A i \in 1 .. n : events'[k][i] = events[k][i]
      /\ events'[k][n + 1] = [stage |-> stage, done |-> FALSE, about |-> about]
      /\ events[k] \in Seq(Event) /\ events'[k] \in Seq(Event)
  BY EventCreated, Types, Zenon
<1> HIDE DEF n
<1>2. \A i : i \in 1 .. (n + 1) <=> i \in 1 .. n \/ i = n + 1
  BY <1>1
<1>3. CASE stage = "AWAITING_HUMAN" /\ about # "none"
  <2>1. n + 1 \in Asked(events'[k]) /\ events'[k][n + 1].about = about
    BY <1>1, <1>2, <1>3 DEF Asked
  <2>2. \A i \in Asked(events'[k]) : i <= n + 1
    BY <1>1 DEF Asked
  <2>3. RequestIn(events'[k]) = events'[k][n + 1].about
    BY <1>1, <2>1, <2>2, RequestIs
  <2> QED BY <1>3, <2>1, <2>3
<1>4. CASE about = "none"
  <2>1. events'[k][n + 1].about = "none"
    BY <1>1, <1>4
  <2>2. \A i : i \in Asked(events'[k]) <=> i \in Asked(events[k])
    BY <1>1, <1>2, <2>1 DEF Asked
  <2>3. Asked(events'[k]) = Asked(events[k])
    BY <2>2
  <2>4. \A i \in Asked(events[k]) : events'[k][i].about = events[k][i].about
    BY <1>1 DEF Asked
  <2> QED BY <1>1, <1>4, <2>3, <2>4, SameRequests
<1> QED BY <1>3, <1>4

(* While a cycle awaits the human no other stage asks.                     *)
LEMMA AwaitingKeepsRequest ==
  ASSUME SerialInv, [Next]_vars, NEW k \in Cycles, cycles[k].status = "AWAITING_HUMAN", Asked(events[k]) # {}
  PROVE  Asked(events'[k]) # {} /\ RequestIn(events'[k]) = RequestIn(events[k])
<1>0. TypeOK
  BY DEF SerialInv, IInv
<1>1. CASE events'[k] = events[k]
  BY <1>1
<1>2. CASE Appended(k)
  <2> PICK stage \in CycleStage : EventAdded(k, stage, "none")
    BY <1>2 DEF Appended
  <2> QED BY <1>0, AskedWhenAdded
<1>3. CASE Marked(k)
  <2> PICK j \in Nat, about \in CycleStage \cup {"none"} :
        EventMarked(k, j, about) /\ (j \in DOMAIN events[k] => about = events[k][j].about)
    BY <1>3 DEF Marked
  <2>1. /\ DOMAIN events'[k] = DOMAIN events[k] /\ events'[k] \in Seq(Event) /\ events[k] \in Seq(Event)
        /\ \A i \in DOMAIN events[k] : events'[k][i].stage = events[k][i].stage /\ events'[k][i].about = events[k][i].about
    <3>1. /\ DOMAIN events'[k] = DOMAIN events[k] /\ events' \in [Cycles -> Seq(Event)]
          /\ \A i \in DOMAIN events[k] : events'[k][i].stage = events[k][i].stage /\ (i # j => events'[k][i] = events[k][i])
          /\ j \in DOMAIN events[k] => events'[k][j].about = about
      BY <1>0, EventCompleted
    <3> QED BY <1>0, <3>1, Types
  <2>2. Asked(events'[k]) = Asked(events[k])
    BY <2>1 DEF Asked
  <2>3. \A i \in Asked(events[k]) : events'[k][i].about = events[k][i].about
    BY <2>1 DEF Asked
  <2> QED BY <2>1, <2>2, <2>3, SameRequests
<1>4. CASE EventMoves
  <2> PICK j \in Cycles : Appended(j) \/ Marked(j)
    BY <1>4 DEF EventMoves
  <2> QED BY <1>1, <1>2, <1>3, EventsGrow
<1> QED BY <1>1, <1>4, EventSteps


-----------------------------------------------------------------------------
(* What a call that routes a cycle, or restates one, has in hand.          *)

LEMMA RouteReadReview ==
  ASSUME TypeOK, NEW c \in Calls, NEW from, NEW k \in Cycles, Exists(k), RouteRead(c, from, k), pc'[c] # "idle"
  PROVE  pc'[c] = "route_event" /\ local'[c].stage \in Reviewable
<1> DEFINE ok == /\ "AWAITING_HUMAN" \in CYCLE_STAGE_TRANSITIONS[cycles[k].stage]
                 /\ "AWAITING_HUMAN" \in CYCLE_STATUS_TRANSITIONS[cycles[k].status]
           read == [Nothing EXCEPT !.cycle = k, !.stage = cycles[k].stage]
<1>1. Step(c, from, IF ok THEN "route_event" ELSE "idle", read)
  BY DEF RouteRead, ReadStep
<1>2. ok /\ pc'[c] = "route_event" /\ local'[c] = read
  <2> HIDE DEF ok, read
  <2> QED BY <1>1, StepFacts
<1>3. local'[c].stage = cycles[k].stage
  BY <1>2 DEF Nothing
<1>4. cycles[k].stage \in CycleStage
  BY Types DEF Row
<1> QED BY <1>2, <1>3, <1>4, StageTransitions DEF Reviewable

LEMMA StatusReadReview ==
  ASSUME TypeOK, Unforced, NEW c \in Calls, NEW k \in Cycles, NEW op \in DOMAIN StatusOf, StatusRead(c, k, op), pc'[c] # "idle"
  PROVE  pc'[c] = "status_write" /\ local'[c].status # "RUNNING"
<1> DEFINE ok == StatusOf[op] \in CYCLE_STATUS_TRANSITIONS[cycles[k].status]
           read == [Nothing EXCEPT !.cycle = k, !.status = StatusOf[op]]
<1>1. Step(c, "idle", IF ok THEN "status_write" ELSE "idle", read)
  BY DEF StatusRead, ReadStep
<1>2. pc'[c] = "status_write" /\ local'[c] = read
  <2> HIDE DEF ok, read
  <2> QED BY <1>1, StepFacts
<1>3. local'[c].status = StatusOf[op]
  BY <1>2 DEF Nothing
<1>4. op # "resume"
  BY DEF StatusRead, Unforced
<1>5. StatusOf[op] # "RUNNING"
  BY <1>4 DEF StatusOf
<1> QED BY <1>2, <1>3, <1>5

LEMMA CallsReview ==
  ASSUME ReviewsInv, OneAtATime, Uninterrupted, Unforced, [Next]_vars, NEW d \in Calls
  PROVE  ReviewInHand(d)'
<1>0. SerialInv /\ TypeOK /\ CallOK(d) /\ InHand(d) /\ ReviewInHand(d)
  BY DEF ReviewsInv, StagesInv, DecisionInv, HistoryInv, SerialInv, IInv
<1>1. CASE pc'[d] \notin {"route_event", "route_write", "status_write"}
  BY <1>1 DEF ReviewInHand
<1>2. CASE UNCHANGED <<cycles, events, pc, local>>
  BY <1>0, <1>2 DEF ReviewInHand
<1>3. CASE pc[d] # "idle" /\ pc'[d] \in {"route_event", "route_write", "status_write"} /\ Continue(d)
  <2>1. CASE RouteRun(d)
    <3>1. pc[d] = "route_read"
      BY <1>0, <2>1 DEF RouteRun, RouteRead, ReadStep, Step
    <3>2. local[d].cycle \in Cycles /\ Exists(local[d].cycle)
      BY <1>0, <3>1 DEF CallOK, InHand
    <3>3. pc'[d] = "route_event" /\ local'[d].stage \in Reviewable
      BY <1>0, <1>3, <2>1, <3>2, RouteReadReview DEF RouteRun
    <3> QED BY <3>3 DEF ReviewInHand
  <2>2. CASE RouteEvent(d)
    <3>1. PICK k \in Cycles : /\ k = local[d].cycle /\ EventAdded(k, "AWAITING_HUMAN", local[d].stage)
                              /\ local[d].stage \in CycleStage \cup {"none"} /\ "AWAITING_HUMAN" \in CycleStage
                              /\ Step(d, "route_event", "route_write", local[d]) /\ pc[d] = "route_event"
      BY <1>0, <2>2, RouteEventFacts
    <3>2. pc'[d] = "route_write" /\ local'[d] = local[d]
      BY <1>0, <3>1, StepFacts
    <3>3. local[d].stage \in Reviewable
      BY <1>0, <3>1 DEF ReviewInHand
    <3>4. local[d].stage # "none"
      BY <3>3 DEF Reviewable
    <3>5. Asked(events'[k]) # {} /\ RequestIn(events'[k]) = local[d].stage
      BY <1>0, <3>1, <3>4, AskedWhenAdded
    <3> QED BY <3>1, <3>2, <3>3, <3>5 DEF ReviewInHand
  <2> QED BY <1>0, <1>3, <2>1, <2>2, ContinueMoves DEF At
<1>4. CASE pc[d] = "idle" /\ pc'[d] \in {"route_event", "route_write", "status_write"} /\ Begin(d)
  <2>1. ASSUME NEW k \in Cycles, Route(d, k) PROVE ReviewInHand(d)'
    <3>1. pc'[d] = "route_event" /\ local'[d].stage \in Reviewable
      BY <1>0, <1>4, <2>1, RouteReadReview DEF Route, Room
    <3> QED BY <3>1 DEF ReviewInHand
  <2>2. ASSUME NEW k \in Cycles, NEW op \in DOMAIN StatusOf, StatusRead(d, k, op) PROVE ReviewInHand(d)'
    <3>1. pc'[d] = "status_write" /\ local'[d].status # "RUNNING"
      BY <1>0, <1>4, <2>2, StatusReadReview
    <3> QED BY <3>1 DEF ReviewInHand
  <2>3. CASE Stop(d)
    BY <1>1, <1>4, <2>3 DEF Stop
  <2>4. ASSUME NEW key, NEW status, StartRead(d, key, status) PROVE pc'[d] = "start_row" \/ pc'[d] = "idle"
    BY <1>0, <2>4, ReadMoves DEF StartRead
  <2>5. ASSUME NEW k \in Cycles, Advance(d, k) PROVE pc'[d] = "advance_budget" \/ pc'[d] = "idle"
    <3>1. AdvanceRead(d, "idle", k, "none", "none")
      BY <2>5 DEF Advance
    <3> QED BY <1>0, <3>1, ReadMoves, Zenon DEF AdvanceRead
  <2>6. ASSUME NEW k \in Cycles, HumanRead(d, k) PROVE pc'[d] = "human_complete" \/ pc'[d] = "idle"
    <3>1. ReadStep(d, "idle", cycles[k].status = "AWAITING_HUMAN", "human_complete",
                   [Nothing EXCEPT !.cycle = k, !.event = FindOpen(k, "AWAITING_HUMAN")])
      BY <2>6 DEF HumanRead
    <3>2. PICK ok, read : ReadStep(d, "idle", ok, "human_complete", read)
      BY <3>1
    <3> QED BY <1>0, <3>2, ReadMoves
  <2>7. ASSUME NEW k \in Cycles, RetryRead(d, k) PROVE pc'[d] = "retry_history" \/ pc'[d] = "idle"
    <3>1. ReadStep(d, "idle", cycles[k].status = "FAILED", "retry_history", [Nothing EXCEPT !.cycle = k])
      BY <2>7 DEF RetryRead
    <3>2. PICK ok, read : ReadStep(d, "idle", ok, "retry_history", read)
      BY <3>1
    <3> QED BY <1>0, <3>2, ReadMoves
  <2> QED BY <1>4, <2>1, <2>2, <2>3, <2>4, <2>5, <2>6, <2>7 DEF Begin
<1>5. ASSUME NEW c \in Calls \ {d}, Begin(c) \/ Continue(c) \/ \E k \in Cycles : Run(c, k) PROVE pc'[d] = pc[d]
  BY <1>0, <1>5, OthersKept DEF OthersWait
<1>6. CASE pc[d] = "idle"
  <2>1. CASE Begin(d)
    BY <1>1, <1>4, <1>6, <2>1
  <2>2. CASE \E k \in Cycles : Run(d, k)
    BY <1>0, <1>1, <2>2, RunMoves DEF At
  <2>3. ASSUME Continue(d) PROVE FALSE
    BY <1>0, <1>6, <2>3, ContinueMoves DEF At
  <2>4. CASE pc'[d] = pc[d]
    BY <1>1, <1>6, <2>4
  <2>5. CASE Crash
    BY <1>1, <2>5 DEF Crash
  <2>6. CASE HumanDecides \/ Spend \/ UNCHANGED vars
    BY <2>4, <2>6 DEF HumanDecides, Decide, Spend, vars
  <2> QED BY <1>5, <2>1, <2>2, <2>3, <2>4, <2>5, <2>6 DEF Next, Drive
<1> QED BY <1>0, <1>1, <1>2, <1>3, <1>6, OnlyOne


-----------------------------------------------------------------------------
(* What has been completed is what comes before the stage.                 *)

LEMMA ResumeOfBefore ==
  ASSUME NEW stage \in {"PLANNING", "RESEARCHING", "ANALYZING", "DECIDING"}
  PROVE  resolveResumeStage(Before(stage)) = stage
<1> DEFINE stages == Before(stage)
           resumed == resolveResumeStage(stages)
<1>1. stages \in SUBSET CycleStage /\ "COMPLETED" \notin stages
  BY Indices, Stages DEF Before
<1>2. /\ resumed \in CycleStage /\ \A s \in stages : Index(s) < Index(resumed)
      /\ resumed = "CREATED" \/ \E s \in stages : Index(s) = Index(resumed) - 1
  <2> HIDE DEF stages
  <2> QED BY <1>1, ResumeFacts
<1>3. \E s \in stages : Index(s) = Index(stage) - 1
  BY Indices, Stages DEF Before
<1>4. \A s \in stages : Index(s) < Index(stage) /\ Index(s) \in Int
  BY IndexFacts DEF Before
<1>5. Index(resumed) \in Int /\ Index(stage) \in Int /\ stage \in CycleStage
  BY <1>2, IndexFacts, Stages
<1>6. "CREATED" \in stages
  BY Indices, Stages DEF Before
<1>7. resumed # "CREATED"
  BY <1>2, <1>5, <1>6
<1>8. Index(resumed) = Index(stage)
  <2> HIDE DEF stages, resumed
  <2> QED BY <1>2, <1>3, <1>4, <1>5, <1>7
<1> QED BY <1>2, <1>5, <1>8, IndexFacts

LEMMA LineageAlone ==
  ASSUME NEW k \in Cycles, cycles[k].of = Null
  PROVE  Lineage(k) = {k}
<1>1. Closed({k})
  BY DEF Closed
<1>2. \A j \in Lineage(k) : j = k
  BY <1>1, LineageDef DEF Lineage
<1> QED BY <1>2, LineageSelf

(* A review is requested when the stages before are done, and no other.    *)
LEMMA RoutedRequest ==
  ASSUME ReviewsInv, NEW k \in Cycles, Routed(k), cycles[k].of = Null
  PROVE  /\ Asked(events[k]) # {}
         /\ RequestIn(events[k]) \notin {"CREATED", "EXECUTING"} =>
              resolveResumeStage(completedLinearStages(k)) = RequestIn(events[k])
<1>0. SerialInv /\ TypeOK
  BY DEF ReviewsInv, StagesInv, DecisionInv, HistoryInv, SerialInv, IInv
<1> PICK c \in Calls : pc[c] = "route_write" /\ local[c].cycle = k
  BY DEF Routed, Holder
<1>1. Asked(events[k]) # {} /\ RequestIn(events[k]) = local[c].stage /\ local[c].stage \in Reviewable
  BY DEF ReviewsInv, ReviewInHand
<1>2. cycles[k].stage = local[c].stage
  BY <1>0 DEF SerialInv, InHand
<1>3. CASE local[c].stage \notin {"CREATED", "EXECUTING"}
  <2>1. Before(cycles[k].stage) \subseteq completedLinearStages(k)
    <3>1. Before(cycles[k].stage) \subseteq DoneInLineage(k)
      BY <1>1, <1>2 DEF ReviewsInv, StagesInv, StagesDone, Routed, Exists, Reviewable
    <3>2. DoneInLineage(k) = completedLinearStages(k)
      BY LineageAlone DEF DoneInLineage
    <3> QED BY <3>1, <3>2
  <2>2. ~Leaving(k)
    BY <1>0 DEF Leaving, SerialInv, Alone
  <2>3. \A s \in completedLinearStages(k) : Index(s) < Index(cycles[k].stage)
    BY <1>1, <1>2, <1>3, <2>2 DEF ReviewsInv, ReviewsOK, Routed, Exists, Reviewable
  <2>4. completedLinearStages(k) \in SUBSET (CycleStage \ {"AWAITING_HUMAN"})
    BY <1>0, CompletedStages, NoReviewIsCompleted
  <2>5. completedLinearStages(k) = Before(cycles[k].stage)
    BY <2>1, <2>3, <2>4 DEF Before
  <2>6. cycles[k].stage \in {"PLANNING", "RESEARCHING", "ANALYZING", "DECIDING"}
    BY <1>1, <1>2, <1>3 DEF Reviewable
  <2> QED BY <1>1, <1>2, <2>5, <2>6, ResumeOfBefore
<1> QED BY <1>1, <1>3

LEMMA CompletedOfNew ==
  ASSUME SerialInv, [Next]_vars, NEW k \in Cycles, cycles'[k] # cycles[k]
  PROVE  (completedLinearStages(k))' = completedLinearStages(k) /\ events' = events
BY RowSteps, CompletedSame DEF RowMoves

LEMMA ResumedAbove ==
  ASSUME ReviewsInv, NEW k \in Cycles
  PROVE  \A s \in completedLinearStages(k) : Index(s) < Index(resolveResumeStage(completedLinearStages(k)))
<1>1. completedLinearStages(k) \in SUBSET CycleStage /\ "COMPLETED" \notin completedLinearStages(k)
  BY CompletedStages DEF ReviewsInv, StagesInv, DecisionInv, HistoryInv, SerialInv, IInv, HistoryOK
<1> QED BY <1>1, ResumeFacts

LEMMA CreatedCompleted ==
  ASSUME ReviewsInv, [Next]_vars, NEW k \in Cycles, Exists(k)', cycles'[k].stage = "CREATED"
  PROVE  (completedLinearStages(k))' \subseteq {"CREATED"}
<1>0. SerialInv /\ TypeOK
  BY DEF ReviewsInv, StagesInv, DecisionInv, HistoryInv, SerialInv, IInv
<1>1. CASE cycles'[k] = cycles[k]
  <2>1. completedLinearStages(k) \subseteq {"CREATED"} /\ cycles[k].stage = "CREATED"
    BY <1>1 DEF ReviewsInv, ReviewsOK, Exists
  <2>2. CASE UNCHANGED events
    BY <2>1, <2>2, CompletedSame
  <2>3. CASE EventMoves
    <3> PICK j \in Cycles : Appended(j) \/ Marked(j)
      BY <2>3 DEF EventMoves
    <3>1. CASE j # k
      BY <1>0, <2>1, <3>1, EventsGrow
    <3>2. CASE j = k
      BY <1>0, <2>1, <3>2, EventsGrow
    <3> QED BY <3>1, <3>2
  <2> QED BY <1>0, <2>2, <2>3, EventSteps
<1>2. CASE cycles'[k] # cycles[k]
  <2>1. (completedLinearStages(k))' = completedLinearStages(k)
    BY <1>0, <1>2, CompletedOfNew
  <2>2. CASE Created(k)
    BY <2>1, <2>2, SMTT(60) DEF Created, completedLinearStages
  <2>3. CASE Restated(k)
    BY <2>1, <2>3 DEF Restated, ReviewsInv, ReviewsOK
  <2>4. ASSUME Staged(k) PROVE FALSE
    <3>1. cycles[k].stage \in CycleStage
      BY <1>0, Types DEF Row
    <3> QED BY <2>4, <3>1, IndexFacts, Indices DEF Staged
  <2>5. CASE Resumed(k)
    <3>1. \A s \in completedLinearStages(k) : Index(s) < 1 /\ s \in CycleStage
      BY <1>0, <2>5, ResumedAbove, CompletedStages, Indices DEF Resumed
    <3>2. completedLinearStages(k) = {}
      BY <3>1, IndexFacts
    <3> QED BY <2>1, <3>2
  <2>6. ASSUME Routed(k) PROVE FALSE
    BY <2>6 DEF Routed
  <2> QED BY <1>0, <1>2, <2>2, <2>3, <2>4, <2>5, <2>6, RowSteps DEF RowMoves
<1> QED BY <1>1, <1>2

LEMMA CompletedBelow ==
  ASSUME ReviewsInv, OneAtATime, Uninterrupted, [Next]_vars, NEW k \in Cycles, Exists(k)',
         cycles'[k].stage \notin {"CREATED", "AWAITING_HUMAN"}, NEW s \in (completedLinearStages(k))'
  PROVE  Index(s) < Index(cycles'[k].stage) \/ (s = cycles'[k].stage /\ (Leaving(k))')
<1>0. SerialInv /\ TypeOK
  BY DEF ReviewsInv, StagesInv, DecisionInv, HistoryInv, SerialInv, IInv
<1>1. CASE s \in completedLinearStages(k) /\ Exists(k) /\ cycles'[k].stage = cycles[k].stage
  BY <1>0, <1>1, LeavingKept DEF ReviewsInv, ReviewsOK
<1>2. CASE cycles'[k] = cycles[k] /\ s \notin completedLinearStages(k)
  <2>1. EventMoves
    BY <1>0, <1>2, CompletedSame, EventSteps
  <2> PICK j \in Cycles : Exists(j) /\ UNCHANGED cycles /\ (Appended(j) \/ Marked(j))
    BY <2>1 DEF EventMoves
  <2>2. j = k
    BY <1>0, <1>2, EventsGrow
  <2>3. s = cycles[k].stage /\ (cycles[k].stage = "CREATED" \/ \E c \in Calls : pc'[c] = "advance_create" /\ local'[c].cycle = k)
    BY <1>0, <1>2, <2>2, EventsGrow
  <2> QED BY <1>2, <2>3 DEF Leaving
<1>3. CASE cycles'[k] # cycles[k]
  <2>1. s \in completedLinearStages(k)
    BY <1>0, <1>3, CompletedOfNew
  <2>2. CASE Created(k)
    BY <2>1, <2>2 DEF Created, completedLinearStages
  <2>3. CASE Restated(k)
    BY <1>1, <2>1, <2>3 DEF Restated
  <2>4. CASE Staged(k)
    <3> PICK c \in Calls : pc[c] = "advance_write" /\ local[c].stage = cycles[k].stage
      BY <2>4 DEF Staged
    <3>1. local[c].stage # "AWAITING_HUMAN"
      BY DEF ReviewsInv, StagesInv, DecisionInv, DecisionInHand, DecisionOK, Advancing
    <3>2. Index(s) <= Index(cycles[k].stage)
      <4>1. s \in CycleStage /\ cycles[k].stage \in CycleStage
        BY <1>0, <2>1, CompletedStages, Types DEF Row
      <4> QED BY <2>1, <2>4, <3>1, <4>1, IndexFacts DEF ReviewsInv, ReviewsOK, Staged, Exists
    <3>3. Index(s) \in Int /\ Index(cycles[k].stage) \in Int /\ Index(cycles'[k].stage) \in Int
      <4>1. s \in CycleStage /\ cycles[k].stage \in CycleStage
        BY <1>0, <2>1, CompletedStages, Types DEF Row
      <4>2. TypeOK'
        BY <1>0, NextIInv DEF SerialInv, IInv
      <4>3. cycles' \in [Cycles -> Row]
        BY <4>2 DEF TypeOK, Row
      <4> QED BY <4>1, <4>3, IndexFacts DEF Row
    <3> QED BY <2>4, <3>2, <3>3 DEF Staged
  <2>5. CASE Resumed(k)
    BY <2>1, <2>5, ResumedAbove DEF Resumed
  <2>6. ASSUME Routed(k) PROVE FALSE
    BY <2>6 DEF Routed
  <2> QED BY <1>0, <1>3, <2>2, <2>3, <2>4, <2>5, <2>6, RowSteps DEF RowMoves
<1>4. CASE cycles'[k] = cycles[k] /\ s \in completedLinearStages(k)
  BY <1>1, <1>4 DEF Exists
<1> QED BY <1>2, <1>3, <1>4

LEMMA AwaitingRequest ==
  ASSUME ReviewsInv, [Next]_vars, NEW k \in Cycles, cycles'[k].status = "AWAITING_HUMAN", cycles'[k].of = Null
  PROVE  /\ Asked(events'[k]) # {}
         /\ RequestIn(events'[k]) \notin {"CREATED", "EXECUTING"} =>
              (resolveResumeStage(completedLinearStages(k)))' = RequestIn(events'[k])
<1>0. SerialInv /\ TypeOK
  BY DEF ReviewsInv, StagesInv, DecisionInv, HistoryInv, SerialInv, IInv
<1>1. CASE cycles'[k] = cycles[k]
  <2>1. /\ Asked(events[k]) # {}
        /\ RequestIn(events[k]) \notin {"CREATED", "EXECUTING"} =>
             resolveResumeStage(completedLinearStages(k)) = RequestIn(events[k])
    BY <1>1 DEF ReviewsInv, ReviewsOK, Exists
  <2>2. Asked(events'[k]) # {} /\ RequestIn(events'[k]) = RequestIn(events[k])
    BY <1>0, <1>1, <2>1, AwaitingKeepsRequest
  <2>3. (completedLinearStages(k))' = completedLinearStages(k)
    <3>1. CASE UNCHANGED events
      BY <3>1, CompletedSame
    <3>2. CASE EventMoves
      <4> PICK j \in Cycles : Appended(j) \/ Marked(j)
        BY <3>2 DEF EventMoves
      <4>1. CASE j # k
        BY <1>0, <4>1, EventsGrow
      <4>2. CASE j = k
        BY <1>0, <1>1, <4>2, EventsGrow
      <4> QED BY <4>1, <4>2
    <3> QED BY <1>0, <3>1, <3>2, EventSteps
  <2>4. (resolveResumeStage(completedLinearStages(k)))' = resolveResumeStage(completedLinearStages(k))
    BY <2>3 DEF resolveResumeStage
  <2> QED BY <2>1, <2>2, <2>4
<1>2. CASE cycles'[k] # cycles[k]
  <2>1. events' = events /\ (completedLinearStages(k))' = completedLinearStages(k)
    BY <1>0, <1>2, CompletedOfNew
  <2>2. (resolveResumeStage(completedLinearStages(k)))' = resolveResumeStage(completedLinearStages(k))
    BY <2>1 DEF resolveResumeStage
  <2>3. CASE Routed(k)
    <3>1. cycles[k].of = Null
      BY <2>3 DEF Routed
    <3> QED BY <2>1, <2>2, <2>3, <3>1, RoutedRequest
  <2>4. ASSUME Created(k) \/ Restated(k) \/ Staged(k) \/ Resumed(k) PROVE FALSE
    BY <2>4 DEF Created, Restated, Staged, Resumed
  <2> QED BY <1>0, <1>2, <2>3, <2>4, RowSteps DEF RowMoves
<1> QED BY <1>1, <1>2

LEMMA NextReviews ==
  ASSUME ReviewsInv, OneAtATime, Undirected, Uninterrupted, Unforced, [Next]_vars
  PROVE  ReviewsInv'
<1>1. StagesInv'
  BY NextStages DEF ReviewsInv
<1>2. ReviewsOK'
  BY CreatedCompleted, CompletedBelow, AwaitingRequest DEF ReviewsOK
<1> QED BY <1>1, <1>2, CallsReview DEF ReviewsInv

LEMMA InitReviews == Init => ReviewsInv
<1> SUFFICES ASSUME Init PROVE ReviewsInv
  OBVIOUS
<1>1. ReviewsOK
  BY DEF Init, ReviewsOK, Exists, AbsentCycle
<1>2. \A c \in Calls : ReviewInHand(c)
  BY DEF Init, ReviewInHand
<1> QED BY <1>1, <1>2, InitStages DEF ReviewsInv

(* Served one at a time, driven by run-next-stage, with no call lost and   *)
(* no resume that passes over the human, a cycle the human returns enters  *)
(* exactly the stage that asked for the review: resolveResumeStage finds   *)
(* it from what is completed, which is then all before that stage.         *)
THEOREM ReviewsReturn ==
  OneAtATime /\ Undirected /\ Uninterrupted /\ Unforced /\ Spec => ReviewsReenterTheirStage
<1>1. /\ ReviewsInv /\ OneAtATime /\ Undirected /\ Uninterrupted /\ Unforced /\ [Next]_vars
      => (ReviewsInv /\ OneAtATime /\ Undirected /\ Uninterrupted /\ Unforced)'
  BY NextReviews, ProfileKept DEF OneAtATime, Undirected, Uninterrupted, Unforced
<1>2. ReviewsInv /\ [Next]_vars =>
        [\A k \in Cycles :
           /\ cycles[k].status = "AWAITING_HUMAN" /\ cycles'[k].status = "RUNNING"
           /\ cycles[k].of = Null /\ Requesting(k) \notin {"CREATED", "EXECUTING"}
           => cycles'[k].stage = Requesting(k)]_vars
  <2> SUFFICES ASSUME ReviewsInv, [Next]_vars, NEW k \in Cycles,
                      cycles[k].status = "AWAITING_HUMAN", cycles'[k].status = "RUNNING",
                      cycles[k].of = Null, Requesting(k) \notin {"CREATED", "EXECUTING"}
               PROVE  cycles'[k].stage = Requesting(k)
    OBVIOUS
  <2>0. SerialInv
    BY DEF ReviewsInv, StagesInv, DecisionInv, HistoryInv
  <2>1. Requesting(k) = RequestIn(events[k])
    BY DEF Requesting, RequestIn, Asked
  <2>2. resolveResumeStage(completedLinearStages(k)) = RequestIn(events[k])
    BY <2>1 DEF ReviewsInv, ReviewsOK, Exists
  <2>3. CASE Resumed(k)
    BY <2>1, <2>2, <2>3 DEF Resumed
  <2>4. ASSUME Restated(k) PROVE FALSE
    BY <2>4 DEF Restated, ReviewsInv, ReviewInHand
  <2>5. ASSUME Created(k) \/ Staged(k) \/ Routed(k) PROVE FALSE
    BY <2>5 DEF Created, Staged, Routed, Exists
  <2> QED BY <2>0, <2>3, <2>4, <2>5, RowSteps DEF RowMoves
<1> QED BY <1>1, <1>2, InitReviews, PTL DEF Spec, ReviewsReenterTheirStage
=============================================================================
