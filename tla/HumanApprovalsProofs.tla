------------------------ MODULE HumanApprovalsProofs ------------------------
(***************************************************************************)
(* What humans approved before it happened, component by component: the    *)
(* inductive invariants, and the proofs that every step keeps them.        *)
(* CompanyProofs draws the theorems from them.                             *)
(***************************************************************************)
EXTENDS HumanApprovals, FiniteSetTheorems, SequenceTheorems, TLAPS

-----------------------------------------------------------------------------
(* What the components count is what the lemmas about finite sets count.   *)
LEMMA FactoryCounts == \A S : (F!IsFiniteSet(S) <=> IsFiniteSet(S)) /\ F!Cardinality(S) = Cardinality(S)
BY DEF F!IsFiniteSet, IsFiniteSet, F!Cardinality, Cardinality

LEMMA DecisionCounts == \A S : (D!IsFiniteSet(S) <=> IsFiniteSet(S)) /\ D!Cardinality(S) = Cardinality(S)
BY DEF D!IsFiniteSet, IsFiniteSet, D!Cardinality, Cardinality

-----------------------------------------------------------------------------
(* The decision about an opportunity.                                      *)

OneInFlight == \A c, d \in Calls : calls[c].at # "idle" /\ calls[d].at # "idle" => c = d

DecidingPlaces == {"kill", "killWrite", "record", "move"}
FinalVerdict == {"APPROVED", "REJECTED"}
DecisionRequest == [action : {"KILL_OPPORTUNITY", "REVIEW_INVESTMENT_MEMO", "REVIEW_OPPORTUNITY", "ADVANCE_OPPORTUNITY"},
             status : FinalVerdict \cup {"PENDING", "DEFERRED"}]

(* The tables have their names; the rows of two of them matter here.       *)
DecisionShape ==
  /\ use \in D!Use /\ use.restarts <= use.crashes
  /\ DOMAIN db = {"opp", "scores", "evidence", "claims", "reports", "gaps", "items", "cycles", "recs", "reviews", "memos",
                  "approvals", "records"}
  /\ DOMAIN db.opp = {"status", "level", "score", "conf", "next"}
  /\ db.approvals \in Seq(DecisionRequest)
  /\ \E T : db.records \in Seq(T)
  /\ DOMAIN calls = Calls /\ \A c \in Calls : DOMAIN calls[c] = DOMAIN D!Idle

Killed(a) == a \in DOMAIN db.approvals /\ D!IsKill(db.approvals[a])

CallDecides(call) ==
  /\ call.at \in {"kill", "killWrite"} => Killed(call.row)
  /\ call.at = "record" => call.row \in DOMAIN db.approvals /\ db.approvals[call.row].status \in FinalVerdict

DecisionRecordsOK ==
  /\ \A k \in history : k.by = "decision" => Killed(k.approval)
  /\ \A r \in DOMAIN db.records :
       /\ db.records[r].approval \in DOMAIN db.approvals /\ db.records[r].decision \in FinalVerdict
       /\ db.records[r].decision = db.approvals[db.records[r].approval].status

Recorded(a) == \E r \in DOMAIN db.records : db.records[r].approval = a

(* Calls one at a time, and no crash.                                      *)
CalmDecisions == use.load = 1 /\ use.crashes = 0

CalmCall(call) ==
  /\ call.at \in {"kill", "killWrite", "record"} => ~Recorded(call.row)
  /\ call.at = "move" => call.status \in D!OPPORTUNITY_STATUS_TRANSITIONS[db.opp.status]

CalmDecisionRecordsOK ==
  /\ db.opp.status \in DOMAIN D!OPPORTUNITY_STATUS_TRANSITIONS
  /\ \A r, q \in DOMAIN db.records : db.records[r].approval = db.records[q].approval => r = q
  /\ history # {} => db.opp.status \in {"KILLED", "ARCHIVED"}
  /\ \A k \in history : k.by = "decision" =>
       Recorded(k.approval) \/ \E c \in Calls : calls[c].at = "record" /\ calls[c].row = k.approval

DecisionInv ==
  /\ DecisionShape
  /\ \A c \in Calls : CallDecides(calls[c])
  /\ DecisionRecordsOK
  /\ CalmDecisions => OneInFlight /\ CalmDecisionRecordsOK /\ \A c \in Calls : CalmCall(calls[c])

-----------------------------------------------------------------------------
LEMMA DecisionIdle == D!Idle.at = "idle" /\ CallDecides(D!Idle) /\ CalmCall(D!Idle)
BY DEF D!Idle, CallDecides, CalmCall

LEMMA DecisionUseFacts ==
  /\ \A u \in D!Use : u.load \in Nat /\ u.starts \in Nat /\ u.faults \in Nat /\ u.crashes \in Nat /\ u.restarts \in Nat
  /\ \A u \in D!Use, n \in Nat :
       LET v == [u EXCEPT !.starts = n] IN v \in D!Use /\ v.load = u.load /\ v.crashes = u.crashes /\ v.restarts = u.restarts
  /\ \A u \in D!Use, n \in Nat :
       LET v == [u EXCEPT !.faults = n] IN v \in D!Use /\ v.load = u.load /\ v.crashes = u.crashes /\ v.restarts = u.restarts
  /\ \A u \in D!Use, n \in Nat :
       LET v == [u EXCEPT !.restarts = n] IN v \in D!Use /\ v.load = u.load /\ v.crashes = u.crashes /\ v.restarts = n
BY DEF D!Use

LEMMA DecisionBeginFacts ==
  ASSUME D!DecisionConstants, DecisionShape, NEW c \in Calls, NEW op, D!Begin(op, c)
  PROVE  /\ calls[c].at = "idle" /\ (use.load = 1 => \A d \in Calls : calls[d].at = "idle")
         /\ use' \in D!Use /\ use'.load = use.load /\ use'.crashes = use.crashes /\ use'.restarts = use.restarts
<1> DEFINE busy == {d \in Calls : calls[d].at # "idle"}
<1>1. IsFiniteSet(busy)
  BY FS_Subset, DecisionCounts DEF D!DecisionConstants
<1>2. Cardinality(busy) < use.load /\ calls[c].at = "idle"
  BY DecisionCounts DEF D!Begin
<1>3. Cardinality(busy) \in Nat
  BY <1>1, FS_CardinalityType
<1>4. use.load = 1 => Cardinality(busy) = 0
  BY <1>2, <1>3
<1>5. Cardinality(busy) = 0 => busy = {}
  BY <1>1, FS_EmptySet
<1>6. PICK u \in D!Use : u = use
  BY DEF DecisionShape
<1>7. u.starts - 1 \in Nat /\ use' = [u EXCEPT !.starts = u.starts - 1]
  <2>1. u.starts \in Nat
    BY DecisionUseFacts
  <2> QED BY <1>6, <2>1 DEF D!Begin
<1>8. use' \in D!Use /\ use'.load = use.load /\ use'.crashes = use.crashes /\ use'.restarts = use.restarts
  BY <1>6, <1>7, DecisionUseFacts
<1> QED BY <1>2, <1>4, <1>5, <1>8

(* Calls that decide nothing leave approvals, records and the status.      *)
Unmoved ==
  /\ DOMAIN db' = DOMAIN db /\ DOMAIN db'.opp = DOMAIN db.opp
  /\ db'.approvals = db.approvals /\ db'.records = db.records /\ db'.opp.status = db.opp.status
  /\ history' = history
  /\ use' \in D!Use /\ use'.load = use.load /\ use'.crashes = use.crashes /\ use'.restarts = use.restarts

(* Call c goes on as what call says, or another begins.                    *)
DecisionGoesOn(c, call) ==
  /\ D!GoTo(c, call) /\ DOMAIN call = DOMAIN D!Idle
  /\ calls[c].at # "idle" \/ (use.load = 1 => \A d \in Calls : calls[d].at = "idle")

LEMMA DecisionCallsStep ==
  ASSUME DecisionInv, NEW c \in Calls, NEW call, DecisionGoesOn(c, call)
  PROVE  /\ DOMAIN calls' = Calls /\ \A d \in Calls : DOMAIN calls'[d] = DOMAIN D!Idle
         /\ calls'[c] = call /\ \A d \in Calls \ {c} : calls'[d] = calls[d]
         /\ CalmDecisions => \A d \in Calls \ {c} : calls[d].at = "idle"
<1>1. calls' = [calls EXCEPT ![c] = call] /\ DOMAIN calls = Calls
  BY DEF DecisionGoesOn, D!GoTo, DecisionInv, DecisionShape
<1>2. CalmDecisions => \A d \in Calls \ {c} : calls[d].at = "idle"
  BY DEF DecisionGoesOn, CalmDecisions, DecisionInv, OneInFlight
<1> QED BY <1>1, <1>2 DEF DecisionGoesOn, DecisionInv, DecisionShape

LEMMA DecisionAsideInv ==
  ASSUME DecisionInv, Unmoved,
         \/ UNCHANGED calls
         \/ \E c \in Calls : \E call : DecisionGoesOn(c, call) /\ call.at \notin DecidingPlaces /\ calls[c].at \notin DecidingPlaces
  PROVE  DecisionInv'
<1>1. DecisionShape' /\ (\A d \in Calls : calls'[d].at \in DecidingPlaces \/ calls[d].at \in DecidingPlaces => calls'[d] = calls[d])
      /\ (CalmDecisions => OneInFlight')
  <2>1. CASE UNCHANGED calls
    BY <2>1 DEF DecisionInv, DecisionShape, Unmoved, OneInFlight
  <2>2. CASE \E c \in Calls : \E call : DecisionGoesOn(c, call) /\ call.at \notin DecidingPlaces /\ calls[c].at \notin DecidingPlaces
    <3>0. PICK c \in Calls : \E call : DecisionGoesOn(c, call) /\ call.at \notin DecidingPlaces /\ calls[c].at \notin DecidingPlaces
      BY <2>2
    <3>1. PICK call : DecisionGoesOn(c, call) /\ call.at \notin DecidingPlaces /\ calls[c].at \notin DecidingPlaces
      BY <3>0
    <3>2. /\ DOMAIN calls' = Calls /\ \A d \in Calls : DOMAIN calls'[d] = DOMAIN D!Idle
          /\ calls'[c] = call /\ \A d \in Calls \ {c} : calls'[d] = calls[d]
          /\ CalmDecisions => \A d \in Calls \ {c} : calls[d].at = "idle"
      BY <3>1, DecisionCallsStep
    <3>3. DecisionShape'
      BY <3>2 DEF DecisionInv, DecisionShape, Unmoved
    <3> QED BY <3>1, <3>2, <3>3 DEF OneInFlight
  <2> QED BY <2>1, <2>2
<1>2. \A d \in Calls : CallDecides(calls[d])' /\ (CalmDecisions => CalmCall(calls[d])')
  BY <1>1 DEF DecisionInv, Unmoved, CallDecides, CalmCall, Killed, Recorded, DecidingPlaces
<1>3. DecisionRecordsOK'
  BY DEF DecisionInv, Unmoved, DecisionRecordsOK, Killed
<1>4. CalmDecisions => CalmDecisionRecordsOK'
  <2> SUFFICES ASSUME CalmDecisions PROVE CalmDecisionRecordsOK'
    OBVIOUS
  <2>1. ASSUME NEW k \in history, k.by = "decision"
        PROVE  Recorded(k.approval)' \/ \E c \in Calls : calls'[c].at = "record" /\ calls'[c].row = k.approval
    <3>1. Recorded(k.approval) \/ \E c \in Calls : calls[c].at = "record" /\ calls[c].row = k.approval
      BY <2>1 DEF DecisionInv, CalmDecisionRecordsOK
    <3> QED BY <1>1, <3>1 DEF Recorded, DecidingPlaces, Unmoved
  <2> QED BY <2>1 DEF DecisionInv, CalmDecisionRecordsOK, Unmoved
<1> QED BY <1>1, <1>2, <1>3, <1>4 DEF DecisionInv, Unmoved, CalmDecisions

-----------------------------------------------------------------------------
(* Evidence, claims, cycles, scores, reviews and memos are such steps.     *)

LEMMA DecisionStepsThatRead ==
  ASSUME DecisionInv, NEW c \in Calls,
         \/ D!recalculateFromLatestReport(c) \/ D!FindGap(c) \/ D!extractForOpportunity(c) \/ D!Validated(c) \/ D!FindItems(c) \/ D!SkipCeo(c)
         \/ \E onTime \in BOOLEAN : D!NextClaim(c, onTime)
  PROVE  DecisionInv'
<1>0. DOMAIN calls[c] = DOMAIN D!Idle /\ "at" \in DOMAIN calls[c] /\ use \in D!Use
  BY DEF DecisionInv, DecisionShape, D!Idle
<1>1. UNCHANGED <<use, db, history>>
  BY DEF D!recalculateFromLatestReport, D!FindGap, D!extractForOpportunity, D!Validated, D!FindItems, D!SkipCeo, D!NextClaim
<1>2. Unmoved
  BY <1>0, <1>1 DEF Unmoved
<1>3. calls[c].at \in {"recalculate", "findGap", "extract", "next", "findItems", "ceo"}
  BY DEF D!recalculateFromLatestReport, D!FindGap, D!extractForOpportunity, D!Validated, D!FindItems, D!SkipCeo, D!NextClaim
<1> DEFINE Aside == \E call : DecisionGoesOn(c, call) /\ call.at \notin DecidingPlaces
<1>4. ASSUME NEW call, D!GoTo(c, call), DOMAIN call = DOMAIN D!Idle, call.at \notin DecidingPlaces PROVE Aside
  BY <1>3, <1>4 DEF DecisionGoesOn
<1>5. ASSUME D!recalculateFromLatestReport(c) PROVE Aside
  <2>1. PICK v, w : D!GoTo(c, [calls[c] EXCEPT !.at = "setStatus", !.status = v, !.conf = w])
    BY <1>5, Zenon DEF D!recalculateFromLatestReport
  <2> QED BY <1>0, <1>4, <2>1 DEF DecidingPlaces
<1>6. ASSUME D!FindGap(c) PROVE Aside
  <2>1. PICK v : D!GoTo(c, [calls[c] EXCEPT !.at = "writeGap", !.row = v])
    BY <1>6, Zenon DEF D!FindGap
  <2> QED BY <1>0, <1>4, <2>1 DEF DecidingPlaces
<1>7. ASSUME D!extractForOpportunity(c) PROVE Aside
  <2>1. PICK v : D!GoTo(c, [calls[c] EXCEPT !.at = "next", !.todo = v]) \/ D!GoTo(c, [calls[c] EXCEPT !.at = "create"])
    BY <1>7, Zenon DEF D!extractForOpportunity
  <2> QED BY <1>0, <1>4, <2>1 DEF DecidingPlaces
<1>8. ASSUME D!Validated(c) PROVE Aside
  BY <1>0, <1>4, <1>8 DEF D!Validated, DecidingPlaces
<1>9. ASSUME D!FindItems(c) PROVE Aside
  <2>1. PICK v : D!GoTo(c, [calls[c] EXCEPT !.at = "writeItems", !.todo = v])
    BY <1>9, Zenon DEF D!FindItems
  <2> QED BY <1>0, <1>4, <2>1 DEF DecidingPlaces
<1>10. ASSUME D!SkipCeo(c) PROVE Aside
  BY <1>0, <1>4, <1>10 DEF D!SkipCeo, DecidingPlaces
<1>11. ASSUME NEW onTime \in BOOLEAN, D!NextClaim(c, onTime) PROVE Aside
  <2>1. PICK v : \/ D!GoTo(c, [calls[c] EXCEPT !.at = "pool", !.claim = v])
                 \/ D!GoTo(c, [calls[c] EXCEPT !.at = "aggregate", !.todo = {}, !.stopped = TRUE])
    BY <1>11, Zenon DEF D!NextClaim
  <2> QED BY <1>0, <1>4, <2>1 DEF DecidingPlaces
<1> QED BY <1>2, <1>3, <1>5, <1>6, <1>7, <1>8, <1>9, <1>10, <1>11, DecisionAsideInv DEF DecidingPlaces

(* What is written to the tables but approvals, records and the status.    *)
DecisionElsewhere(v, w) ==
  \/ db' = [db EXCEPT !.evidence = v]
  \/ db' = [db EXCEPT !.reports = v]
  \/ db' = [db EXCEPT !.claims = v]
  \/ db' = [db EXCEPT !.items = v]
  \/ db' = [db EXCEPT !.recs = v]
  \/ db' = [db EXCEPT !.cycles = v]
  \/ db' = [db EXCEPT !.reviews = v]
  \/ db' = [db EXCEPT !.scores = v]
  \/ db' = [db EXCEPT !.memos = v]
  \/ db' = [db EXCEPT !.opp.level = v]
  \/ db' = [db EXCEPT !.opp.score = v, !.opp.conf = w]
  \/ db' = [db EXCEPT !.scores = v, !.opp.conf = w]
  \/ db' = [db EXCEPT !.gaps = v, !.opp.next = w]
  \/ UNCHANGED db

LEMMA OtherTables ==
  ASSUME DecisionShape, NEW v, NEW w, DecisionElsewhere(v, w)
  PROVE  /\ DOMAIN db' = DOMAIN db /\ DOMAIN db'.opp = DOMAIN db.opp
         /\ db'.approvals = db.approvals /\ db'.records = db.records /\ db'.opp.status = db.opp.status
<1> DEFINE Kept == /\ DOMAIN db' = DOMAIN db /\ DOMAIN db'.opp = DOMAIN db.opp
                   /\ db'.approvals = db.approvals /\ db'.records = db.records /\ db'.opp.status = db.opp.status
<1>0. "status" \in DOMAIN db.opp /\ {"opp", "approvals", "records"} \subseteq DOMAIN db
  BY DEF DecisionShape
<1>1. ASSUME NEW t \in {"evidence", "reports", "claims", "items", "recs", "cycles", "reviews", "scores", "memos"},
             db' = [db EXCEPT ![t] = v]
      PROVE  Kept
  BY <1>0, <1>1
<1>2. ASSUME NEW opp, opp.status = db.opp.status, DOMAIN opp = DOMAIN db.opp, NEW next, next \in {db, [db EXCEPT !.scores = v], [db EXCEPT !.gaps = v]},
             db' = [next EXCEPT !.opp = opp]
      PROVE  Kept
  BY <1>0, <1>2
<1>3. CASE db' = [db EXCEPT !.opp.level = v]
  <2>1. [db.opp EXCEPT !.level = v].status = db.opp.status /\ DOMAIN [db.opp EXCEPT !.level = v] = DOMAIN db.opp
    BY <1>0
  <2> QED BY <1>2, <1>3, <2>1
<1>4. CASE db' = [db EXCEPT !.opp.score = v, !.opp.conf = w]
  <2>1. [db.opp EXCEPT !.score = v, !.conf = w].status = db.opp.status /\ DOMAIN [db.opp EXCEPT !.score = v, !.conf = w] = DOMAIN db.opp
    BY <1>0
  <2>2. db' = [db EXCEPT !.opp = [db.opp EXCEPT !.score = v, !.conf = w]]
    BY <1>0, <1>4
  <2> QED BY <1>2, <2>1, <2>2
<1>5. CASE db' = [db EXCEPT !.scores = v, !.opp.conf = w]
  <2>1. [db.opp EXCEPT !.conf = w].status = db.opp.status /\ DOMAIN [db.opp EXCEPT !.conf = w] = DOMAIN db.opp
    BY <1>0
  <2>2. db' = [[db EXCEPT !.scores = v] EXCEPT !.opp = [db.opp EXCEPT !.conf = w]]
    BY <1>0, <1>5
  <2> QED BY <1>2, <2>1, <2>2
<1>6. CASE db' = [db EXCEPT !.gaps = v, !.opp.next = w]
  <2>1. [db.opp EXCEPT !.next = w].status = db.opp.status /\ DOMAIN [db.opp EXCEPT !.next = w] = DOMAIN db.opp
    BY <1>0
  <2>2. db' = [[db EXCEPT !.gaps = v] EXCEPT !.opp = [db.opp EXCEPT !.next = w]]
    BY <1>0, <1>6
  <2> QED BY <1>2, <2>1, <2>2
<1> QED BY <1>1, <1>3, <1>4, <1>5, <1>6 DEF DecisionElsewhere

LEMMA DecisionStepsThatWrite ==
  ASSUME DecisionInv, NEW c \in Calls,
         \/ D!CreateCustomerEvidence(c) \/ D!SetStatus(c) \/ D!WriteGap(c) \/ D!CreateClaim(c) \/ D!recalculateOpportunityConfidence(c)
         \/ D!populateForOpportunity(c) \/ D!FinishCycle(c) \/ D!ScoreWrite(c) \/ D!ReviewWrite(c)
         \/ \E found : D!ReadPool(c, found)
         \/ \E answer : D!WriteReport(c, answer)
         \/ \E answer : D!RunCeo(c, answer)
  PROVE  DecisionInv'
<1> USE DecisionIdle
<1>0. DOMAIN calls[c] = DOMAIN D!Idle /\ "at" \in DOMAIN calls[c] /\ use \in D!Use /\ DecisionShape
  BY DEF DecisionInv, DecisionShape, D!Idle
<1> DEFINE Aside == \E call : DecisionGoesOn(c, call) /\ call.at \notin DecidingPlaces
           Done == DecisionInv'
<1>1. ASSUME NEW call, D!GoTo(c, call), DOMAIN call = DOMAIN D!Idle, call.at \notin DecidingPlaces, calls[c].at \notin DecidingPlaces \cup {"idle"},
             UNCHANGED <<use, history>>, NEW v, NEW w, DecisionElsewhere(v, w)
      PROVE  Done
  <2>1. Unmoved
    BY <1>0, <1>1, OtherTables DEF Unmoved
  <2>2. DecisionGoesOn(c, call)
    BY <1>1 DEF DecisionGoesOn
  <2> QED BY <1>1, <2>1, <2>2, DecisionAsideInv
<1> HIDE DEF Done
<1>2. ASSUME D!CreateCustomerEvidence(c) PROVE Done
  <2>1. PICK v : db' = [db EXCEPT !.evidence = v]
    BY <1>2, Zenon DEF D!CreateCustomerEvidence
  <2> QED BY <1>1, <1>2, <2>1 DEF D!CreateCustomerEvidence, D!Return, DecisionElsewhere, DecidingPlaces
<1>3. ASSUME D!SetStatus(c) PROVE Done
  <2> DEFINE x == calls[c].claim
             v == [db.claims EXCEPT ![x].status = calls[c].status, ![x].conf = calls[c].conf]
  <2>0. "claims" \in DOMAIN db
    BY <1>0 DEF DecisionShape
  <2>1. db' = [db EXCEPT !.claims = v]
    BY <1>3, <2>0 DEF D!SetStatus
  <2> HIDE DEF v
  <2> QED BY <1>0, <1>1, <1>3, <2>1 DEF D!SetStatus, DecisionElsewhere, DecidingPlaces
<1>4. ASSUME D!WriteGap(c) PROVE Done
  <2>1. PICK v, w : db' = [db EXCEPT !.gaps = v, !.opp.next = w]
    BY <1>4, Zenon DEF D!WriteGap
  <2>2. calls[c].at = "writeGap" /\ UNCHANGED <<use, history>> /\ (D!GoTo(c, D!Idle) \/ D!GoTo(c, [D!OnToNextClaim(calls[c]) EXCEPT !.valid = TRUE]))
    BY <1>4, Zenon DEF D!WriteGap, D!Return
  <2> QED BY <1>0, <1>1, <2>1, <2>2 DEF D!OnToNextClaim, DecisionElsewhere, DecidingPlaces
<1>5. ASSUME D!CreateClaim(c) PROVE Done
  <2>1. PICK v : db' = [db EXCEPT !.claims = v]
    BY <1>5, Zenon DEF D!CreateClaim
  <2>2. PICK todo, at : at \in {"next", "create"} /\ D!GoTo(c, [calls[c] EXCEPT !.todo = todo, !.at = at])
    BY <1>5 DEF D!CreateClaim
  <2>3. calls[c].at = "create" /\ UNCHANGED <<use, history>>
    BY <1>5 DEF D!CreateClaim
  <2> QED BY <1>0, <1>1, <2>1, <2>2, <2>3 DEF DecisionElsewhere, DecidingPlaces
<1>6. ASSUME D!recalculateOpportunityConfidence(c) PROVE Done
  <2> DEFINE score == IF db.scores = <<>> THEN 0 ELSE db.scores[Len(db.scores)].score
             v == Append(db.scores, [score |-> score, conf |-> D!computeAggregateConfidence, kill |-> D!KillRisk])
             w == D!computeAggregateConfidence
  <2>1. db' = [db EXCEPT !.scores = v, !.opp.conf = w] \/ UNCHANGED db
    <3>1. IF ~calls[c].valid THEN UNCHANGED db
          ELSE db' = [db EXCEPT !.scores = Append(@, [score |-> score, conf |-> D!computeAggregateConfidence, kill |-> D!KillRisk]),
                                !.opp.conf = D!computeAggregateConfidence]
      BY <1>6 DEF D!recalculateOpportunityConfidence
    <3>2. "scores" \in DOMAIN db
      BY <1>0 DEF DecisionShape
    <3> QED BY <3>1, <3>2
  <2> HIDE DEF score, v, w
  <2>2. PICK at : at \in {"finish", "findItems", "ceo"} /\ D!GoTo(c, [calls[c] EXCEPT !.at = at])
    BY <1>6 DEF D!recalculateOpportunityConfidence
  <2>3. calls[c].at = "aggregate" /\ UNCHANGED <<use, history>>
    BY <1>6 DEF D!recalculateOpportunityConfidence
  <2> DEFINE call == [calls[c] EXCEPT !.at = at]
  <2>4. call.at \notin DecidingPlaces /\ calls[c].at \notin DecidingPlaces \cup {"idle"} /\ DOMAIN call = DOMAIN D!Idle
    BY <1>0, <2>2, <2>3 DEF DecidingPlaces
  <2>5. DecisionElsewhere(v, w)
    BY <2>1 DEF DecisionElsewhere
  <2> HIDE DEF call, w
  <2>6. D!GoTo(c, call)
    BY <2>2 DEF call
  <2> QED BY <1>1, <2>3, <2>4, <2>5, <2>6
<1>7. ASSUME D!populateForOpportunity(c) PROVE Done
  <2>1. PICK v : db' = [db EXCEPT !.items = v]
    BY <1>7, Zenon DEF D!populateForOpportunity
  <2>2. /\ D!GoTo(c, [calls[c] EXCEPT !.at = "ceo", !.todo = {}])
        /\ calls[c].at = "writeItems" /\ UNCHANGED <<use, history>>
    BY <1>7, Zenon DEF D!populateForOpportunity
  <2> QED BY <1>0, <1>1, <2>1, <2>2 DEF DecisionElsewhere, DecidingPlaces
<1>8. ASSUME D!FinishCycle(c) PROVE Done
  <2>1. PICK v : db' = [db EXCEPT !.cycles = v]
    BY <1>8, Zenon DEF D!FinishCycle
  <2>2. D!GoTo(c, D!Idle) /\ calls[c].at = "finish" /\ UNCHANGED <<use, history>>
    BY <1>8, Zenon DEF D!FinishCycle, D!Return
  <2> QED BY <1>1, <2>1, <2>2 DEF DecisionElsewhere, DecidingPlaces
<1>9. ASSUME D!ScoreWrite(c) PROVE Done
  <2>1. PICK v, w : db' = [db EXCEPT !.opp.score = v, !.opp.conf = w]
    BY <1>9 DEF D!ScoreWrite
  <2>2. D!GoTo(c, D!Idle) /\ calls[c].at = "scored" /\ UNCHANGED <<use, history>>
    BY <1>9 DEF D!ScoreWrite, D!Return
  <2> QED BY <1>1, <2>1, <2>2 DEF DecisionElsewhere, DecidingPlaces
<1>10. ASSUME D!ReviewWrite(c) PROVE Done
  <2>1. PICK v : db' = [db EXCEPT !.reviews = v]
    BY <1>10, Zenon DEF D!ReviewWrite
  <2> QED BY <1>1, <1>10, <2>1 DEF D!ReviewWrite, D!Return, DecisionElsewhere, DecidingPlaces
<1>11. ASSUME NEW found, D!ReadPool(c, found) PROVE Done
  <2>1. PICK v : db' = [db EXCEPT !.evidence = v]
    BY <1>11, Zenon DEF D!ReadPool
  <2>2. PICK x, y : D!GoTo(c, [calls[c] EXCEPT !.at = "answer", !.searches = x, !.pool = y])
    BY <1>11, Zenon DEF D!ReadPool
  <2>3. calls[c].at = "pool" /\ UNCHANGED <<use, history>>
    BY <1>11, Zenon DEF D!ReadPool
  <2> QED BY <1>0, <1>1, <2>1, <2>2, <2>3 DEF DecisionElsewhere, DecidingPlaces
<1>12. ASSUME NEW answer, D!WriteReport(c, answer) PROVE Done
  <2>1. PICK v : db' = [db EXCEPT !.reports = v]
    BY <1>12, Zenon DEF D!WriteReport
  <2>2. PICK x, y : D!GoTo(c, [calls[c] EXCEPT !.at = "recalculate", !.pool = {}, !.done = x, !.models = y])
    BY <1>12, Zenon DEF D!WriteReport
  <2>3. calls[c].at = "answer" /\ UNCHANGED <<use, history>>
    BY <1>12, Zenon DEF D!WriteReport
  <2> QED BY <1>0, <1>1, <2>1, <2>2, <2>3 DEF DecisionElsewhere, DecidingPlaces
<1>13. ASSUME NEW answer, D!RunCeo(c, answer) PROVE Done
  <2>1. PICK v : db' = [db EXCEPT !.recs = v]
    BY <1>13, Zenon DEF D!RunCeo
  <2>2. PICK x : D!GoTo(c, [calls[c] EXCEPT !.at = "finish", !.models = x])
    BY <1>13, Zenon DEF D!RunCeo
  <2>3. calls[c].at = "ceo" /\ UNCHANGED <<use, history>>
    BY <1>13, Zenon DEF D!RunCeo
  <2> QED BY <1>0, <1>1, <2>1, <2>2, <2>3 DEF DecisionElsewhere, DecidingPlaces
<1> QED BY <1>2, <1>3, <1>4, <1>5, <1>6, <1>7, <1>8, <1>9, <1>10, <1>11, <1>12, <1>13 DEF Done
(* A call that begins, and decides nothing yet.                            *)
LEMMA DecisionBeginAside ==
  ASSUME DecisionInv, D!DecisionConstants, NEW c \in Calls, NEW op, D!Begin(op, c), UNCHANGED history, NEW v, NEW w, DecisionElsewhere(v, w),
         NEW call, DOMAIN call = DOMAIN D!Idle, call.at \notin DecidingPlaces, UNCHANGED calls \/ D!GoTo(c, call)
  PROVE  DecisionInv'
<1>0. DecisionShape
  BY DEF DecisionInv
<1>1. /\ calls[c].at = "idle" /\ (use.load = 1 => \A d \in Calls : calls[d].at = "idle")
      /\ use' \in D!Use /\ use'.load = use.load /\ use'.crashes = use.crashes /\ use'.restarts = use.restarts
  BY <1>0, DecisionBeginFacts
<1>2. Unmoved
  BY <1>0, <1>1, OtherTables DEF Unmoved
<1>3. UNCHANGED calls \/ (DecisionGoesOn(c, call) /\ call.at \notin DecidingPlaces /\ calls[c].at \notin DecidingPlaces)
  BY <1>1 DEF DecisionGoesOn, DecidingPlaces
<1> QED BY <1>2, <1>3, DecisionAsideInv

LEMMA DecisionBeginnings ==
  ASSUME DecisionInv, D!DecisionConstants, NEW c \in Calls,
         \/ \E item : D!AttachEvidence(c, item)
         \/ \E claim : D!ValidateClaim(c, claim)
         \/ \E granted \in BOOLEAN : D!RunCycle(c, granted)
         \/ \E score : D!Score(c, score)
         \/ \E level, human : D!SetValidationLevel(c, level, human)
         \/ D!recommendCustomerDiscoveryAction(c) \/ D!ReviewOpportunity(c)
         \/ \E rec, review : D!CompileMemo(c, rec, review)
  PROVE  DecisionInv'
<1> USE DecisionIdle
<1> DEFINE Done == DecisionInv'
<1>0. "idle" \notin DecidingPlaces /\ "at" \in DOMAIN D!Idle
  BY DEF DecidingPlaces, D!Idle
<1>1. ASSUME NEW op, D!Begin(op, c), UNCHANGED history, NEW v, NEW w, DecisionElsewhere(v, w), UNCHANGED calls
      PROVE  Done
  BY <1>0, <1>1, DecisionBeginAside
<1>2. ASSUME NEW op, D!Begin(op, c), UNCHANGED history, NEW v, NEW w, DecisionElsewhere(v, w),
             NEW at, at \notin DecidingPlaces, NEW claim, NEW row, NEW status, NEW conf, NEW cycle,
             D!GoTo(c, [D!Idle EXCEPT !.at = at, !.claim = claim, !.row = row, !.status = status, !.conf = conf, !.cycle = cycle])
      PROVE  Done
  <2> DEFINE call == [D!Idle EXCEPT !.at = at, !.claim = claim, !.row = row, !.status = status, !.conf = conf, !.cycle = cycle]
  <2>1. DOMAIN call = DOMAIN D!Idle /\ call.at = at
    BY <1>0
  <2> HIDE DEF call
  <2>2. D!GoTo(c, call)
    BY <1>2 DEF call
  <2> QED BY <1>2, <2>1, <2>2, DecisionBeginAside
<1> HIDE DEF Done
<1>3. ASSUME NEW op, D!Begin(op, c), UNCHANGED history, NEW v, NEW w, DecisionElsewhere(v, w), NEW call, D!GoTo(c, call),
             DOMAIN call = DOMAIN D!Idle, call.at \notin DecidingPlaces
      PROVE  Done
  BY <1>3, DecisionBeginAside DEF Done
<1>4. ASSUME NEW item, D!AttachEvidence(c, item) PROVE Done
  <2>1. PICK v : db' = [db EXCEPT !.evidence = v]
    BY <1>4, Zenon DEF D!AttachEvidence
  <2>2. PICK n : UNCHANGED calls \/ D!GoTo(c, [D!Idle EXCEPT !.at = "wrap", !.row = n])
    BY <1>4, Zenon DEF D!AttachEvidence
  <2>3. D!Begin("evidence", c) /\ UNCHANGED history
    BY <1>4, Zenon DEF D!AttachEvidence
  <2>4. CASE UNCHANGED calls
    BY <1>1, <2>1, <2>3, <2>4 DEF DecisionElsewhere
  <2>5. CASE D!GoTo(c, [D!Idle EXCEPT !.at = "wrap", !.row = n])
    BY <1>0, <1>3, <2>1, <2>3, <2>5 DEF DecisionElsewhere, DecidingPlaces
  <2> QED BY <2>2, <2>4, <2>5
<1>5. ASSUME NEW claim, D!ValidateClaim(c, claim) PROVE Done
  BY <1>0, <1>3, <1>5 DEF D!ValidateClaim, DecisionElsewhere, DecidingPlaces
<1>6. ASSUME NEW granted \in BOOLEAN, D!RunCycle(c, granted) PROVE Done
  <2>1. PICK v : db' = [db EXCEPT !.cycles = v]
    BY <1>6, Zenon DEF D!RunCycle
  <2>2. PICK n : UNCHANGED calls \/ D!GoTo(c, [D!Idle EXCEPT !.at = "extract", !.cycle = n])
    BY <1>6, Zenon DEF D!RunCycle
  <2>3. D!Begin("cycle", c) /\ UNCHANGED history
    BY <1>6, Zenon DEF D!RunCycle
  <2>4. CASE UNCHANGED calls
    BY <1>1, <2>1, <2>3, <2>4 DEF DecisionElsewhere
  <2>5. CASE D!GoTo(c, [D!Idle EXCEPT !.at = "extract", !.cycle = n])
    BY <1>0, <1>3, <2>1, <2>3, <2>5 DEF DecisionElsewhere, DecidingPlaces
  <2> QED BY <2>2, <2>4, <2>5
<1>7. ASSUME NEW score, D!Score(c, score) PROVE Done
  <2>1. PICK v : db' = [db EXCEPT !.scores = v]
    BY <1>7, Zenon DEF D!Score
  <2>2. PICK m, n : D!GoTo(c, [D!Idle EXCEPT !.at = "scored", !.row = m, !.conf = n])
    BY <1>7, Zenon DEF D!Score
  <2>3. D!Begin("score", c) /\ UNCHANGED history
    BY <1>7, Zenon DEF D!Score
  <2> QED BY <1>0, <1>3, <2>1, <2>2, <2>3 DEF DecisionElsewhere, DecidingPlaces
<1>8. ASSUME NEW level, NEW human, D!SetValidationLevel(c, level, human) PROVE Done
  <2>1. db' = [db EXCEPT !.opp.level = level] /\ D!Begin("level", c) /\ UNCHANGED <<calls, history>>
    BY <1>8, Zenon DEF D!SetValidationLevel
  <2> QED BY <1>1, <2>1 DEF DecisionElsewhere
<1>9. ASSUME D!recommendCustomerDiscoveryAction(c) PROVE Done
  <2>1. PICK v : db' = [db EXCEPT !.recs = v]
    BY <1>9, Zenon DEF D!recommendCustomerDiscoveryAction
  <2>2. D!Begin("discovery", c) /\ UNCHANGED <<calls, history>>
    BY <1>9, Zenon DEF D!recommendCustomerDiscoveryAction
  <2> QED BY <1>1, <2>1, <2>2 DEF DecisionElsewhere
<1>10. ASSUME D!ReviewOpportunity(c) PROVE Done
  <2>1. PICK s : D!GoTo(c, [D!Idle EXCEPT !.at = "review", !.status = s])
    BY <1>10, Zenon DEF D!ReviewOpportunity
  <2>2. D!Begin("review", c) /\ UNCHANGED <<db, history>>
    BY <1>10, Zenon DEF D!ReviewOpportunity
  <2> QED BY <1>0, <1>3, <2>1, <2>2 DEF DecisionElsewhere, DecidingPlaces
<1>11. ASSUME NEW rec, NEW review, D!CompileMemo(c, rec, review) PROVE Done
  <2>1. PICK v : db' = [db EXCEPT !.memos = v]
    BY <1>11, Zenon DEF D!CompileMemo
  <2>2. D!Begin("memo", c) /\ UNCHANGED <<calls, history>>
    BY <1>11, Zenon DEF D!CompileMemo
  <2> QED BY <1>1, <2>1, <2>2 DEF DecisionElsewhere
<1> QED BY <1>4, <1>5, <1>6, <1>7, <1>8, <1>9, <1>10, <1>11 DEF Done

LEMMA DecisionFaults ==
  ASSUME DecisionInv, NEW c \in Calls, D!RunFails(c) \/ D!StartRefused(c)
  PROVE  DecisionInv'
<1> USE DecisionIdle
<1>0. DOMAIN calls[c] = DOMAIN D!Idle /\ "at" \in DOMAIN calls[c] /\ use \in D!Use /\ DecisionShape
  BY DEF DecisionInv, DecisionShape, D!Idle
<1>1. use' \in D!Use /\ use'.load = use.load /\ use'.crashes = use.crashes /\ use'.restarts = use.restarts
  <2>1. PICK u \in D!Use : u = use
    BY <1>0
  <2>2. use.faults > 0 /\ use' = [use EXCEPT !.faults = use.faults - 1] /\ u.faults \in Nat
    BY DecisionUseFacts DEF D!RunFails, D!StartRefused, D!Fault
  <2>3. u.faults - 1 \in Nat
    BY <2>1, <2>2
  <2> QED BY <2>1, <2>2, <2>3, DecisionUseFacts
<1>2. UNCHANGED <<db, history>> /\ calls[c].at \in {"answer", "ceo", "pool"}
  BY DEF D!RunFails, D!StartRefused
<1>3. PICK x, y, z : \/ D!GoTo(c, D!Idle)
                     \/ D!GoTo(c, [D!OnToNextClaim(calls[c]) EXCEPT !.done = x, !.searches = z, !.models = y])
                     \/ D!GoTo(c, [calls[c] EXCEPT !.at = "finish", !.models = y])
  <2>1. ASSUME D!StartRefused(c) PROVE D!GoTo(c, D!Idle)
    BY <2>1 DEF D!StartRefused, D!Return
  <2>2. ASSUME D!RunFails(c)
        PROVE  \/ D!GoTo(c, D!Idle)
               \/ \E searches, asked :
                    D!GoTo(c, [D!OnToNextClaim(calls[c]) EXCEPT !.done = @ + 1, !.searches = @ + searches, !.models = @ + asked])
               \/ \E asked : D!GoTo(c, [calls[c] EXCEPT !.at = "finish", !.models = @ + asked])
    BY <2>2, Zenon DEF D!RunFails, D!Return
  <2> QED BY <2>1, <2>2, Zenon
<1> DEFINE GoesOnAside == \E call : D!GoTo(c, call) /\ DOMAIN call = DOMAIN D!Idle /\ call.at \in {"idle", "next", "finish"}
<1>4. GoesOnAside
  <2>0. ASSUME NEW call, D!GoTo(c, call), DOMAIN call = DOMAIN D!Idle, call.at \in {"idle", "next", "finish"} PROVE GoesOnAside
    BY <2>0
  <2> HIDE DEF GoesOnAside
  <2>1. CASE D!GoTo(c, D!Idle)
    BY <2>0, <2>1
  <2>2. CASE D!GoTo(c, [D!OnToNextClaim(calls[c]) EXCEPT !.done = x, !.searches = z, !.models = y])
    <3> DEFINE call == [D!OnToNextClaim(calls[c]) EXCEPT !.done = x, !.searches = z, !.models = y]
    <3>1. DOMAIN call = DOMAIN D!Idle /\ call.at = "next"
      BY <1>0 DEF D!OnToNextClaim, D!Idle
    <3> HIDE DEF call
    <3>2. D!GoTo(c, call)
      BY <2>2 DEF call
    <3> QED BY <2>0, <3>1, <3>2
  <2>3. CASE D!GoTo(c, [calls[c] EXCEPT !.at = "finish", !.models = y])
    BY <1>0, <2>0, <2>3
  <2> QED BY <1>3, <2>1, <2>2, <2>3
<1>5. Unmoved
  BY <1>1, <1>2 DEF Unmoved
<1>6. PICK call : D!GoTo(c, call) /\ DOMAIN call = DOMAIN D!Idle /\ call.at \in {"idle", "next", "finish"}
  BY <1>4
<1>7. DecisionGoesOn(c, call) /\ call.at \notin DecidingPlaces /\ calls[c].at \notin DecidingPlaces
  BY <1>2, <1>6 DEF DecisionGoesOn, DecidingPlaces
<1> QED BY <1>5, <1>7, DecisionAsideInv

-----------------------------------------------------------------------------
(* The steps that decide.                                                  *)

LEMMA DecisionBeginDecides ==
  ASSUME DecisionInv, D!DecisionConstants, NEW c \in Calls, NEW op, D!Begin(op, c), UNCHANGED <<db, history>>,
         NEW call, DOMAIN call = DOMAIN D!Idle, D!GoTo(c, call), CallDecides(call), CalmDecisions => CalmCall(call)
  PROVE  DecisionInv'
<1>0. DecisionShape
  BY DEF DecisionInv
<1>1. /\ calls[c].at = "idle" /\ (use.load = 1 => \A d \in Calls : calls[d].at = "idle")
      /\ use' \in D!Use /\ use'.load = use.load /\ use'.crashes = use.crashes /\ use'.restarts = use.restarts
  BY <1>0, DecisionBeginFacts
<1>2. DecisionGoesOn(c, call)
  BY <1>1 DEF DecisionGoesOn
<1>3. /\ DOMAIN calls' = Calls /\ \A d \in Calls : DOMAIN calls'[d] = DOMAIN D!Idle
      /\ calls'[c] = call /\ \A d \in Calls \ {c} : calls'[d] = calls[d]
      /\ CalmDecisions => \A d \in Calls \ {c} : calls[d].at = "idle"
  BY <1>2, DecisionCallsStep
<1>4. DecisionShape'
  BY <1>1, <1>3 DEF DecisionInv, DecisionShape
<1>5. \A d \in Calls : CallDecides(calls[d])' /\ (CalmDecisions => CalmCall(calls[d])')
  <2> TAKE d \in Calls
  <2>1. CallDecides(calls'[d]) /\ (CalmDecisions => CalmCall(calls'[d]))
    BY <1>3 DEF DecisionInv
  <2> QED BY <2>1 DEF CallDecides, CalmCall, Killed, Recorded
<1>6. DecisionRecordsOK'
  BY DEF DecisionInv, DecisionRecordsOK, Killed
<1>7. CalmDecisions => OneInFlight' /\ CalmDecisionRecordsOK'
  <2> SUFFICES ASSUME CalmDecisions PROVE OneInFlight' /\ CalmDecisionRecordsOK'
    OBVIOUS
  <2>1. OneInFlight'
    BY <1>3 DEF OneInFlight
  <2>2. \A d \in Calls : calls[d].at # "record"
    BY <1>1 DEF CalmDecisions
  <2>3. CalmDecisionRecordsOK'
    BY <2>2 DEF DecisionInv, CalmDecisionRecordsOK, Recorded
  <2> QED BY <2>1, <2>3
<1> QED BY <1>1, <1>4, <1>5, <1>6, <1>7 DEF DecisionInv, CalmDecisions

LEMMA DecidingBegins ==
  ASSUME DecisionInv, D!DecisionConstants, NEW c \in Calls,
         \/ \E to : D!Transition(c, to)
         \/ \E a \in DOMAIN db.approvals : D!applyHumanDecision(c, a)
  PROVE  DecisionInv'
<1> USE DecisionIdle
<1>1. ASSUME NEW to, D!Transition(c, to) PROVE DecisionInv'
  <2> DEFINE call == [D!Idle EXCEPT !.at = "move", !.status = to]
  <2>1. DOMAIN call = DOMAIN D!Idle /\ call.at = "move" /\ call.status = to
    BY DEF D!Idle
  <2>2. D!Begin("move", c) /\ D!GoTo(c, call) /\ UNCHANGED <<db, history>> /\ to \in D!OPPORTUNITY_STATUS_TRANSITIONS[db.opp.status]
    BY <1>1 DEF D!Transition
  <2> HIDE DEF call
  <2>3. CallDecides(call) /\ CalmCall(call)
    BY <2>1, <2>2 DEF CallDecides, CalmCall
  <2> QED BY <2>1, <2>2, <2>3, DecisionBeginDecides
<1>2. ASSUME NEW a \in DOMAIN db.approvals, D!applyHumanDecision(c, a) PROVE DecisionInv'
  <2>1. PICK at, x, y, z : /\ D!GoTo(c, [D!Idle EXCEPT !.at = at, !.row = a, !.rec = x, !.review = y, !.memo = z])
                           /\ at = IF D!IsKill(db.approvals[a]) THEN "kill" ELSE "record"
    BY <1>2, Zenon DEF D!applyHumanDecision
  <2> DEFINE call == [D!Idle EXCEPT !.at = at, !.row = a, !.rec = x, !.review = y, !.memo = z]
  <2>2. DOMAIN call = DOMAIN D!Idle /\ call.at = at /\ call.row = a
    BY DEF D!Idle
  <2>3. D!GoTo(c, call)
    BY <2>1
  <2> HIDE DEF call
  <2>4. /\ D!Begin("apply", c) /\ UNCHANGED <<db, history>> /\ db.approvals[a].status \in FinalVerdict
        /\ \A r \in DOMAIN db.records : db.records[r].approval # a
    BY <1>2 DEF D!applyHumanDecision, FinalVerdict
  <2>5. CallDecides(call) /\ CalmCall(call)
    BY <2>1, <2>2, <2>4 DEF CallDecides, CalmCall, Killed, Recorded
  <2> QED BY <2>2, <2>3, <2>4, <2>5, DecisionBeginDecides
<1> QED BY <1>1, <1>2

(* Requests that are made and decided: a verdict stays.                    *)
VerdictsStay(approvals) ==
  /\ approvals \in Seq(DecisionRequest)
  /\ \A a \in DOMAIN db.approvals :
       /\ a \in DOMAIN approvals
       /\ db.approvals[a].status \in FinalVerdict => approvals[a] = db.approvals[a]

LEMMA AskingInv ==
  ASSUME DecisionInv, D!DecisionConstants, NEW c \in Calls, NEW op, D!Begin(op, c), UNCHANGED <<calls, history>>,
         NEW approvals, VerdictsStay(approvals), db' = [db EXCEPT !.approvals = approvals]
  PROVE  DecisionInv'
<1>0. DecisionShape
  BY DEF DecisionInv
<1>1. use' \in D!Use /\ use'.load = use.load /\ use'.crashes = use.crashes /\ use'.restarts = use.restarts
  BY <1>0, DecisionBeginFacts
<1>2. /\ DOMAIN db' = DOMAIN db /\ db'.approvals = approvals
      /\ db'.opp = db.opp /\ db'.records = db.records
  BY <1>0 DEF DecisionShape
<1>3. DecisionShape'
  BY <1>0, <1>1, <1>2 DEF DecisionShape, VerdictsStay
<1>4. ASSUME NEW a, Killed(a) PROVE Killed(a)'
  BY <1>2, <1>4 DEF Killed, D!IsKill, VerdictsStay, FinalVerdict
<1>5. \A d \in Calls : CallDecides(calls[d])' /\ (CalmDecisions => CalmCall(calls[d])')
  <2> TAKE d \in Calls
  <2>1. CallDecides(calls[d]) /\ (CalmDecisions => CalmCall(calls[d]))
    BY DEF DecisionInv
  <2> QED BY <1>2, <1>4, <2>1 DEF CallDecides, CalmCall, Recorded, VerdictsStay
<1>6. DecisionRecordsOK'
  <2>1. \A k \in history : k.by = "decision" => Killed(k.approval)'
    BY <1>4 DEF DecisionInv, DecisionRecordsOK
  <2> QED BY <1>2, <2>1 DEF DecisionInv, DecisionRecordsOK, VerdictsStay
<1>7. CalmDecisions => OneInFlight' /\ CalmDecisionRecordsOK'
  BY <1>2 DEF DecisionInv, OneInFlight, CalmDecisionRecordsOK, Recorded
<1> QED BY <1>1, <1>3, <1>5, <1>6, <1>7 DEF DecisionInv, CalmDecisions

LEMMA Asking ==
  ASSUME DecisionInv, D!DecisionConstants, NEW c \in Calls,
         \/ \E rec : D!requestApprovalForRecommendation(c, rec)
         \/ \E action \in {"KILL_OPPORTUNITY", "ADVANCE_OPPORTUNITY"} : D!RequestApproval(c, action)
         \/ \E a \in DOMAIN db.approvals, verdict \in {"APPROVED", "REJECTED", "DEFERRED"} : D!Decide(c, a, verdict)
  PROVE  DecisionInv'
<1>0. db.approvals \in Seq(DecisionRequest) /\ "approvals" \in DOMAIN db
  BY DEF DecisionInv, DecisionShape
<1>1. ASSUME NEW op, D!Begin(op, c), UNCHANGED <<calls, history>>,
             NEW action \in {"KILL_OPPORTUNITY", "REVIEW_INVESTMENT_MEMO", "REVIEW_OPPORTUNITY", "ADVANCE_OPPORTUNITY"}, D!AskForApproval(action)
      PROVE  DecisionInv'
  <2>1. [action |-> action, status |-> "PENDING"] \in DecisionRequest
    BY DEF DecisionRequest
  <2> DEFINE row == [action |-> action, status |-> "PENDING"]
             approvals == Append(db.approvals, row)
  <2>2. VerdictsStay(approvals)
    <3> HIDE DEF row
    <3>1. row \in DecisionRequest
      BY <2>1 DEF row
    <3> QED BY <1>0, <3>1, AppendProperties DEF VerdictsStay
  <2>3. db' = [db EXCEPT !.approvals = approvals]
    BY <1>1, <1>0 DEF D!AskForApproval
  <2> HIDE DEF approvals
  <2> QED BY <1>1, <2>2, <2>3, AskingInv
<1>2. ASSUME NEW rec, D!requestApprovalForRecommendation(c, rec) PROVE DecisionInv'
  <2>1. PICK x : x \in DOMAIN D!APPROVAL_ACTION_FOR_CEO_ACTION /\ D!AskForApproval(D!APPROVAL_ACTION_FOR_CEO_ACTION[x])
    BY <1>2 DEF D!requestApprovalForRecommendation
  <2>2. D!APPROVAL_ACTION_FOR_CEO_ACTION[x] \in {"KILL_OPPORTUNITY", "REVIEW_INVESTMENT_MEMO", "REVIEW_OPPORTUNITY"}
    BY <2>1 DEF D!APPROVAL_ACTION_FOR_CEO_ACTION
  <2>3. D!Begin("request", c) /\ UNCHANGED <<calls, history>>
    BY <1>2 DEF D!requestApprovalForRecommendation
  <2> QED BY <1>1, <2>1, <2>2, <2>3
<1>3. ASSUME NEW action \in {"KILL_OPPORTUNITY", "ADVANCE_OPPORTUNITY"}, D!RequestApproval(c, action) PROVE DecisionInv'
  BY <1>1, <1>3 DEF D!RequestApproval
<1>4. ASSUME NEW a \in DOMAIN db.approvals, NEW verdict \in {"APPROVED", "REJECTED", "DEFERRED"}, D!Decide(c, a, verdict) PROVE DecisionInv'
  <2> DEFINE approvals == [db.approvals EXCEPT ![a] = [db.approvals[a] EXCEPT !.status = verdict]]
  <2>1. db.approvals[a] \in DecisionRequest /\ db.approvals[a].status = "PENDING"
    BY <1>0, <1>4 DEF D!Decide
  <2>2. [db.approvals[a] EXCEPT !.status = verdict] \in DecisionRequest
    BY <2>1 DEF DecisionRequest, FinalVerdict
  <2>3. approvals \in Seq(DecisionRequest)
    BY <1>0, <2>2
  <2>4. VerdictsStay(approvals)
    BY <1>0, <2>1, <2>3 DEF VerdictsStay, FinalVerdict
  <2>5. db' = [db EXCEPT !.approvals = approvals]
    BY <1>0, <1>4 DEF D!Decide
  <2>6. D!Begin("decide", c) /\ UNCHANGED <<calls, history>>
    BY <1>4 DEF D!Decide
  <2> HIDE DEF approvals
  <2> QED BY <2>4, <2>5, <2>6, AskingInv
<1> QED BY <1>2, <1>3, <1>4
(* Where the calls are after a step of a call on its way.                  *)
LEMMA DecisionOnItsWay ==
  ASSUME DecisionInv, NEW c \in Calls, calls[c].at # "idle", NEW call, DOMAIN call = DOMAIN D!Idle, D!GoTo(c, call)
  PROVE  /\ DOMAIN calls' = Calls /\ \A d \in Calls : DOMAIN calls'[d] = DOMAIN D!Idle
         /\ calls'[c] = call /\ \A d \in Calls \ {c} : calls'[d] = calls[d]
         /\ CalmDecisions => OneInFlight' /\ \A d \in Calls \ {c} : calls[d].at = "idle" /\ calls'[d].at = "idle"
<1>1. DecisionGoesOn(c, call)
  BY DEF DecisionGoesOn
<1>2. /\ DOMAIN calls' = Calls /\ \A d \in Calls : DOMAIN calls'[d] = DOMAIN D!Idle
      /\ calls'[c] = call /\ \A d \in Calls \ {c} : calls'[d] = calls[d]
      /\ CalmDecisions => \A d \in Calls \ {c} : calls[d].at = "idle"
  BY <1>1, DecisionCallsStep
<1> QED BY <1>2 DEF OneInFlight

LEMMA TransitionWriteInv ==
  ASSUME DecisionInv, NEW c \in Calls, D!TransitionWrite(c)
  PROVE  DecisionInv'
<1> USE DecisionIdle
<1>0. DecisionShape /\ calls[c].at = "move" /\ use' = use
  BY DEF DecisionInv, D!TransitionWrite
<1>1. /\ DOMAIN calls' = Calls /\ \A d \in Calls : DOMAIN calls'[d] = DOMAIN D!Idle
      /\ calls'[c] = D!Idle /\ \A d \in Calls \ {c} : calls'[d] = calls[d]
      /\ CalmDecisions => OneInFlight' /\ \A d \in Calls \ {c} : calls[d].at = "idle" /\ calls'[d].at = "idle"
  BY DecisionOnItsWay DEF D!TransitionWrite, D!Return
<1>2. db' = [db EXCEPT !.opp = [db.opp EXCEPT !.status = calls[c].status]]
  BY <1>0 DEF D!TransitionWrite, DecisionShape
<1>3. /\ DOMAIN db' = DOMAIN db /\ DOMAIN db'.opp = DOMAIN db.opp
      /\ db'.approvals = db.approvals /\ db'.records = db.records /\ db'.opp.status = calls[c].status
  <2>1. [db.opp EXCEPT !.status = calls[c].status].status = calls[c].status
        /\ DOMAIN [db.opp EXCEPT !.status = calls[c].status] = DOMAIN db.opp
    BY <1>0 DEF DecisionShape
  <2> QED BY <1>0, <1>2, <2>1 DEF DecisionShape
<1>4. /\ \A k \in history' : k.by = "decision" => k \in history
      /\ history' # {} => history # {} \/ calls[c].status = "KILLED"
  BY DEF D!TransitionWrite
<1>5. DecisionShape'
  BY <1>0, <1>1, <1>3 DEF DecisionShape
<1>6. \A d \in Calls : CallDecides(calls[d])' /\ (CalmDecisions => CalmCall(calls[d])')
  <2> TAKE d \in Calls
  <2>1. CallDecides(calls'[d])
    BY <1>1 DEF DecisionInv
  <2>2. CalmDecisions => calls'[d].at = "idle"
    BY <1>1
  <2> QED BY <1>3, <2>1, <2>2 DEF CallDecides, CalmCall, Killed
<1>7. DecisionRecordsOK'
  BY <1>3, <1>4 DEF DecisionInv, DecisionRecordsOK, Killed
<1>8. CalmDecisions => CalmDecisionRecordsOK'
  <2> SUFFICES ASSUME CalmDecisions PROVE CalmDecisionRecordsOK'
    OBVIOUS
  <2>1. db.opp.status \in DOMAIN D!OPPORTUNITY_STATUS_TRANSITIONS /\ calls[c].status \in D!OPPORTUNITY_STATUS_TRANSITIONS[db.opp.status]
    BY <1>0 DEF DecisionInv, CalmDecisionRecordsOK, CalmCall
  <2>2. /\ db'.opp.status \in DOMAIN D!OPPORTUNITY_STATUS_TRANSITIONS
        /\ db.opp.status \in {"KILLED", "ARCHIVED"} => db'.opp.status = "ARCHIVED"
    BY <1>3, <2>1 DEF D!OPPORTUNITY_STATUS_TRANSITIONS
  <2>3. history' # {} => db'.opp.status \in {"KILLED", "ARCHIVED"}
    BY <1>3, <1>4, <2>2 DEF DecisionInv, CalmDecisionRecordsOK
  <2>4. \A d \in Calls : calls[d].at # "record"
    BY <1>0, <1>1
  <2> QED BY <1>3, <1>4, <2>2, <2>3, <2>4 DEF DecisionInv, CalmDecisionRecordsOK, Recorded
<1> QED BY <1>0, <1>1, <1>5, <1>6, <1>7, <1>8 DEF DecisionInv, CalmDecisions

LEMMA ApplyKillInv ==
  ASSUME DecisionInv, NEW c \in Calls, D!ApplyKill(c)
  PROVE  DecisionInv'
<1> USE DecisionIdle
<1>0. DecisionShape /\ calls[c].at = "kill" /\ UNCHANGED <<use, db, history>> /\ DOMAIN calls[c] = DOMAIN D!Idle /\ "at" \in DOMAIN calls[c]
  BY DEF DecisionInv, DecisionShape, D!ApplyKill, D!Idle
<1> DEFINE Going == \E call : /\ D!GoTo(c, call) /\ DOMAIN call = DOMAIN D!Idle
                              /\ call = D!Idle \/ (call.at = "killWrite" /\ call.row = calls[c].row)
<1>1. Going
  <2>1. ASSUME NEW call, D!GoTo(c, call), DOMAIN call = DOMAIN D!Idle, call = D!Idle \/ (call.at = "killWrite" /\ call.row = calls[c].row)
        PROVE  Going
    BY <2>1
  <2> HIDE DEF Going
  <2>2. CASE D!GoTo(c, D!Idle)
    BY <2>1, <2>2
  <2>3. CASE D!GoTo(c, [calls[c] EXCEPT !.at = "killWrite"])
    <3> DEFINE call == [calls[c] EXCEPT !.at = "killWrite"]
    <3>1. DOMAIN call = DOMAIN D!Idle /\ call.at = "killWrite" /\ call.row = calls[c].row
      BY <1>0 DEF D!Idle
    <3> HIDE DEF call
    <3>2. D!GoTo(c, call)
      BY <2>3 DEF call
    <3> QED BY <2>1, <3>1, <3>2
  <2> QED BY <2>2, <2>3 DEF D!ApplyKill, D!Return
<1>2. PICK call : /\ D!GoTo(c, call) /\ DOMAIN call = DOMAIN D!Idle
                  /\ call = D!Idle \/ (call.at = "killWrite" /\ call.row = calls[c].row)
  BY <1>1
<1>3. /\ DOMAIN calls' = Calls /\ \A d \in Calls : DOMAIN calls'[d] = DOMAIN D!Idle
      /\ calls'[c] = call /\ \A d \in Calls \ {c} : calls'[d] = calls[d]
      /\ CalmDecisions => OneInFlight' /\ \A d \in Calls \ {c} : calls[d].at = "idle" /\ calls'[d].at = "idle"
  BY <1>0, <1>2, DecisionOnItsWay
<1>4. DecisionShape'
  BY <1>0, <1>3 DEF DecisionShape
<1>5. CallDecides(call) /\ (CalmDecisions => CalmCall(call))
  BY <1>0, <1>2 DEF DecisionInv, CallDecides, CalmCall
<1>6. \A d \in Calls : CallDecides(calls[d])' /\ (CalmDecisions => CalmCall(calls[d])')
  <2> TAKE d \in Calls
  <2>1. CallDecides(calls'[d]) /\ (CalmDecisions => CalmCall(calls'[d]))
    BY <1>3, <1>5 DEF DecisionInv
  <2> QED BY <1>0, <2>1 DEF CallDecides, CalmCall, Killed, Recorded
<1>7. DecisionRecordsOK'
  BY <1>0 DEF DecisionInv, DecisionRecordsOK, Killed
<1>8. CalmDecisions => CalmDecisionRecordsOK'
  <2> SUFFICES ASSUME CalmDecisions PROVE CalmDecisionRecordsOK'
    OBVIOUS
  <2>1. \A d \in Calls : calls[d].at # "record"
    BY <1>0, <1>3
  <2> QED BY <1>0, <2>1 DEF DecisionInv, CalmDecisionRecordsOK, Recorded
<1> QED BY <1>0, <1>3, <1>4, <1>6, <1>7, <1>8 DEF DecisionInv, CalmDecisions

LEMMA ApplyKillWriteInv ==
  ASSUME DecisionInv, NEW c \in Calls, D!ApplyKillWrite(c)
  PROVE  DecisionInv'
<1> USE DecisionIdle
<1>0. DecisionShape /\ calls[c].at = "killWrite" /\ use' = use /\ DOMAIN calls[c] = DOMAIN D!Idle /\ "at" \in DOMAIN calls[c] /\ "row" \in DOMAIN calls[c]
  BY DEF DecisionInv, DecisionShape, D!ApplyKillWrite, D!Idle
<1> DEFINE a == calls[c].row
           call == [calls[c] EXCEPT !.at = "record"]
<1>1. DOMAIN call = DOMAIN D!Idle /\ call.at = "record" /\ call.row = a
  BY <1>0
<1>2. D!GoTo(c, call)
  BY DEF D!ApplyKillWrite
<1> HIDE DEF call
<1>3. /\ DOMAIN calls' = Calls /\ \A d \in Calls : DOMAIN calls'[d] = DOMAIN D!Idle
      /\ calls'[c] = call /\ \A d \in Calls \ {c} : calls'[d] = calls[d]
      /\ CalmDecisions => OneInFlight' /\ \A d \in Calls \ {c} : calls[d].at = "idle" /\ calls'[d].at = "idle"
  BY <1>0, <1>1, <1>2, DecisionOnItsWay
<1>4. db' = [db EXCEPT !.opp = [db.opp EXCEPT !.status = "KILLED"]]
  BY <1>0 DEF D!ApplyKillWrite, DecisionShape
<1>5. /\ DOMAIN db' = DOMAIN db /\ DOMAIN db'.opp = DOMAIN db.opp
      /\ db'.approvals = db.approvals /\ db'.records = db.records /\ db'.opp.status = "KILLED"
  <2>1. [db.opp EXCEPT !.status = "KILLED"].status = "KILLED" /\ DOMAIN [db.opp EXCEPT !.status = "KILLED"] = DOMAIN db.opp
    BY <1>0 DEF DecisionShape
  <2> QED BY <1>0, <1>4, <2>1 DEF DecisionShape
<1>6. history' = history \cup {[by |-> "decision", approval |-> a]}
  BY DEF D!ApplyKillWrite
<1>7. DecisionShape'
  BY <1>0, <1>3, <1>5 DEF DecisionShape
<1>8. Killed(a) /\ (CalmDecisions => ~Recorded(a))
  BY <1>0 DEF DecisionInv, CallDecides, CalmCall
<1>9. CallDecides(call) /\ (CalmDecisions => CalmCall(call))
  BY <1>1, <1>8 DEF CallDecides, CalmCall, Killed, D!IsKill, FinalVerdict
<1>10. \A d \in Calls : CallDecides(calls[d])' /\ (CalmDecisions => CalmCall(calls[d])')
  <2> TAKE d \in Calls
  <2>1. CallDecides(calls'[d]) /\ (CalmDecisions => CalmCall(calls'[d]) /\ calls'[d].at \in {"idle", "record"})
    BY <1>1, <1>3, <1>9 DEF DecisionInv
  <2> QED BY <1>5, <2>1 DEF CallDecides, CalmCall, Killed, Recorded
<1>11. DecisionRecordsOK'
  BY <1>5, <1>6, <1>8 DEF DecisionInv, DecisionRecordsOK, Killed
<1>12. CalmDecisions => CalmDecisionRecordsOK'
  <2> SUFFICES ASSUME CalmDecisions PROVE CalmDecisionRecordsOK'
    OBVIOUS
  <2>1. \A d \in Calls : calls[d].at # "record"
    BY <1>0, <1>3
  <2>2. \A k \in history' : k.by = "decision" => Recorded(k.approval)' \/ \E d \in Calls : calls'[d].at = "record" /\ calls'[d].row = k.approval
    <3>1. \A k \in history : k.by = "decision" => Recorded(k.approval)
      BY <2>1 DEF DecisionInv, CalmDecisionRecordsOK
    <3>2. \E d \in Calls : calls'[d].at = "record" /\ calls'[d].row = a
      BY <1>1, <1>3
    <3>3. \A b : Recorded(b)' <=> Recorded(b)
      BY <1>5 DEF Recorded
    <3> QED BY <1>6, <3>1, <3>2, <3>3
  <2>3. "KILLED" \in DOMAIN D!OPPORTUNITY_STATUS_TRANSITIONS
    BY DEF D!OPPORTUNITY_STATUS_TRANSITIONS
  <2> QED BY <1>5, <2>2, <2>3 DEF DecisionInv, CalmDecisionRecordsOK
<1> QED BY <1>0, <1>3, <1>7, <1>10, <1>11, <1>12 DEF DecisionInv, CalmDecisions

LEMMA ApplyRecordInv ==
  ASSUME DecisionInv, NEW c \in Calls, D!ApplyRecord(c)
  PROVE  DecisionInv'
<1> USE DecisionIdle
<1>0. DecisionShape /\ calls[c].at = "record" /\ UNCHANGED <<use, history>>
  BY DEF DecisionInv, D!ApplyRecord
<1>1. /\ DOMAIN calls' = Calls /\ \A d \in Calls : DOMAIN calls'[d] = DOMAIN D!Idle
      /\ calls'[c] = D!Idle /\ \A d \in Calls \ {c} : calls'[d] = calls[d]
      /\ CalmDecisions => OneInFlight' /\ \A d \in Calls \ {c} : calls[d].at = "idle" /\ calls'[d].at = "idle"
  BY <1>0, DecisionOnItsWay DEF D!ApplyRecord, D!Return
<1>a. PICK a : a = calls[c].row
  OBVIOUS
<1> DEFINE new == D!NewDecisionRecord(a, db.approvals[a].status, calls[c].rec, calls[c].review, calls[c].memo)
<1>b. db' = [db EXCEPT !.records = Append(db.records, new)]
  BY <1>0, <1>a DEF D!ApplyRecord, DecisionShape
<1>c. new.approval = a /\ new.decision = db.approvals[a].status
  BY DEF D!NewDecisionRecord
<1>2. PICK row : db' = [db EXCEPT !.records = Append(db.records, row)] /\ row.approval = a /\ row.decision = db.approvals[a].status
  BY <1>b, <1>c
<1>3. PICK T : db.records \in Seq(T)
  BY <1>0 DEF DecisionShape
<1> DEFINE n == Len(db.records) + 1
<1>4. /\ Append(db.records, row) \in Seq(T \cup {row}) /\ DOMAIN Append(db.records, row) = DOMAIN db.records \cup {n} /\ n \notin DOMAIN db.records
      /\ Append(db.records, row)[n] = row /\ \A r \in DOMAIN db.records : Append(db.records, row)[r] = db.records[r]
  <2>1. db.records \in Seq(T \cup {row}) /\ row \in T \cup {row}
    BY <1>3
  <2>2. DOMAIN db.records = 1 .. Len(db.records) /\ Len(db.records) \in Nat
    BY <1>3
  <2> QED BY <2>1, <2>2, AppendProperties
<1>5. /\ DOMAIN db' = DOMAIN db /\ db'.opp = db.opp /\ db'.approvals = db.approvals /\ db'.records = Append(db.records, row)
  BY <1>0, <1>2 DEF DecisionShape
<1>6. DecisionShape'
  BY <1>0, <1>1, <1>4, <1>5 DEF DecisionShape
<1>7. a \in DOMAIN db.approvals /\ db.approvals[a].status \in FinalVerdict /\ (CalmDecisions => ~Recorded(a))
  BY <1>0, <1>a DEF DecisionInv, CallDecides, CalmCall
<1>8. \A d \in Calls : CallDecides(calls[d])' /\ (CalmDecisions => CalmCall(calls[d])')
  <2> TAKE d \in Calls
  <2>1. CallDecides(calls'[d]) /\ (CalmDecisions => calls'[d].at = "idle")
    BY <1>1 DEF DecisionInv
  <2> QED BY <1>5, <2>1 DEF CallDecides, CalmCall, Killed
<1>9. DecisionRecordsOK'
  <2>1. \A k \in history' : k.by = "decision" => Killed(k.approval)'
    BY <1>0, <1>5 DEF DecisionInv, DecisionRecordsOK, Killed
  <2>2. ASSUME NEW r \in DOMAIN db'.records
        PROVE  /\ db'.records[r].approval \in DOMAIN db'.approvals /\ db'.records[r].decision \in FinalVerdict
               /\ db'.records[r].decision = db'.approvals[db'.records[r].approval].status
    <3>1. CASE r \in DOMAIN db.records
      BY <1>4, <1>5, <3>1 DEF DecisionInv, DecisionRecordsOK
    <3>2. CASE r = n
      BY <1>2, <1>4, <1>5, <1>7, <3>2
    <3> QED BY <1>4, <1>5, <2>2, <3>1, <3>2
  <2> QED BY <2>1, <2>2 DEF DecisionRecordsOK
<1>10. CalmDecisions => CalmDecisionRecordsOK'
  <2> SUFFICES ASSUME CalmDecisions PROVE CalmDecisionRecordsOK'
    OBVIOUS
  <2>1. \A r \in DOMAIN db.records : db.records[r].approval # a
    BY <1>7 DEF Recorded
  <2>2. ASSUME NEW r \in DOMAIN db'.records, NEW q \in DOMAIN db'.records, db'.records[r].approval = db'.records[q].approval
        PROVE  r = q
    <3>1. (r \in DOMAIN db.records \/ r = n) /\ (q \in DOMAIN db.records \/ q = n)
      BY <1>4, <1>5, <2>2
    <3> HIDE DEF n
    <3>2. CASE r \in DOMAIN db.records /\ q \in DOMAIN db.records
      BY <1>4, <1>5, <2>2, <3>2 DEF DecisionInv, CalmDecisionRecordsOK
    <3> QED BY <1>2, <1>4, <1>5, <2>1, <2>2, <3>1, <3>2
  <2>3. \A b : Recorded(b) => Recorded(b)'
    BY <1>4, <1>5 DEF Recorded
  <2>4. Recorded(a)'
    BY <1>2, <1>4, <1>5 DEF Recorded
  <2>5. ASSUME NEW k \in history', k.by = "decision" PROVE Recorded(k.approval)'
    <3>1. Recorded(k.approval) \/ \E d \in Calls : calls[d].at = "record" /\ calls[d].row = k.approval
      BY <1>0, <2>5 DEF DecisionInv, CalmDecisionRecordsOK
    <3>2. \A d \in Calls : calls[d].at = "record" => d = c
      BY <1>1
    <3> QED BY <1>a, <2>3, <2>4, <3>1, <3>2
  <2> QED BY <1>0, <1>5, <2>2, <2>5 DEF DecisionInv, CalmDecisionRecordsOK
<1> QED BY <1>0, <1>1, <1>6, <1>8, <1>9, <1>10 DEF DecisionInv, CalmDecisions

LEMMA DecisionRestartInv ==
  ASSUME DecisionInv, D!Restart
  PROVE  DecisionInv'
<1> USE DecisionIdle
<1>1. use.crashes > 0 /\ use' \in D!Use /\ use'.load = use.load /\ use'.crashes = use.crashes /\ use'.restarts <= use'.crashes /\ ~CalmDecisions
  <2>1. PICK u \in D!Use : u = use
    BY DEF DecisionInv, DecisionShape
  <2>2. use.restarts > 0 /\ use' = [use EXCEPT !.restarts = use.restarts - 1] /\ u.restarts \in Nat /\ u.crashes \in Nat /\ u.restarts <= u.crashes
    BY <2>1, DecisionUseFacts DEF D!Restart, DecisionInv, DecisionShape
  <2>3. u.restarts - 1 \in Nat /\ u.restarts - 1 <= u.crashes /\ u.crashes > 0
    BY <2>1, <2>2
  <2> QED BY <2>1, <2>2, <2>3, DecisionUseFacts DEF CalmDecisions
<1>2. UNCHANGED <<db, history>> /\ calls' = [c \in Calls |-> D!Idle]
  BY DEF D!Restart
<1>3. DecisionShape' /\ DecisionRecordsOK' /\ \A c \in Calls : CallDecides(calls[c])'
  BY <1>1, <1>2 DEF DecisionInv, DecisionShape, DecisionRecordsOK, CallDecides, Killed
<1>4. ~CalmDecisions'
  BY <1>1 DEF CalmDecisions
<1> QED BY <1>3, <1>4 DEF DecisionInv

-----------------------------------------------------------------------------
LEMMA DecisionInitInv == D!DecisionConstants /\ D!DecisionInit => DecisionInv
<1> SUFFICES ASSUME D!DecisionConstants, D!DecisionInit PROVE DecisionInv
  OBVIOUS
<1> USE DecisionIdle
<1>1. use \in D!Use /\ use.restarts <= use.crashes
  <2>1. PICK u \in D!Use : u = use /\ u.crashes = u.restarts
    BY DEF D!DecisionConstants, D!DecisionInit
  <2> QED BY <2>1, DecisionUseFacts
<1>2. DOMAIN db = {"opp", "scores", "evidence", "claims", "reports", "gaps", "items", "cycles", "recs", "reviews", "memos",
                  "approvals", "records"}
      /\ db.opp = [status |-> "DISCOVERED", level |-> "LEVEL_0", score |-> 0, conf |-> 0, next |-> 0]
      /\ db.approvals = <<>> /\ db.records = <<>>
  BY DEF D!DecisionInit
<1>3. calls = [c \in Calls |-> D!Idle] /\ history = {}
  BY DEF D!DecisionInit
<1>4. DecisionShape
  <2>1. db.records \in Seq({}) /\ db.approvals \in Seq(DecisionRequest)
    BY <1>2
  <2>2. DOMAIN db.opp = {"status", "level", "score", "conf", "next"}
    BY <1>2
  <2> QED BY <1>1, <1>2, <1>3, <2>1, <2>2 DEF DecisionShape
<1>5. DecisionRecordsOK /\ CalmDecisionRecordsOK
  <2>1. "DISCOVERED" \in DOMAIN D!OPPORTUNITY_STATUS_TRANSITIONS
    BY DEF D!OPPORTUNITY_STATUS_TRANSITIONS
  <2> QED BY <1>2, <1>3, <2>1 DEF DecisionRecordsOK, CalmDecisionRecordsOK
<1> QED BY <1>3, <1>4, <1>5 DEF DecisionInv, OneInFlight

LEMMA DecisionNextInv == D!DecisionConstants /\ DecisionInv /\ [D!DecisionNext]_(D!vars) => DecisionInv'
<1> SUFFICES ASSUME D!DecisionConstants, DecisionInv, [D!DecisionNext]_(D!vars) PROVE DecisionInv'
  OBVIOUS
<1>1. CASE D!Restart
  BY <1>1, DecisionRestartInv
<1>2. CASE UNCHANGED D!vars
  <2>1. UNCHANGED <<use, db, calls, history>>
    BY <1>2 DEF D!vars
  <2>2. Unmoved
    BY <2>1 DEF Unmoved, DecisionInv, DecisionShape
  <2> QED BY <2>1, <2>2, DecisionAsideInv
<1>3. ASSUME NEW c \in Calls,
             \/ \E item \in use.items : D!AttachEvidence(c, item)
             \/ \E claim \in DOMAIN db.claims : D!ValidateClaim(c, claim)
             \/ \E granted \in BOOLEAN : D!RunCycle(c, granted)
             \/ \E score : D!Score(c, score)
             \/ \E level, human : D!SetValidationLevel(c, level, human)
             \/ D!recommendCustomerDiscoveryAction(c) \/ D!ReviewOpportunity(c)
             \/ \E rec, review : D!CompileMemo(c, rec, review)
      PROVE  DecisionInv'
  BY <1>3, DecisionBeginnings
<1>4. ASSUME NEW c \in Calls,
             \/ D!recalculateFromLatestReport(c) \/ D!FindGap(c) \/ D!extractForOpportunity(c) \/ D!Validated(c) \/ D!FindItems(c) \/ D!SkipCeo(c)
             \/ \E onTime \in BOOLEAN : D!NextClaim(c, onTime)
      PROVE  DecisionInv'
  BY <1>4, DecisionStepsThatRead
<1>5. ASSUME NEW c \in Calls,
             \/ D!CreateCustomerEvidence(c) \/ D!SetStatus(c) \/ D!WriteGap(c) \/ D!CreateClaim(c) \/ D!recalculateOpportunityConfidence(c)
             \/ D!populateForOpportunity(c) \/ D!FinishCycle(c) \/ D!ScoreWrite(c) \/ D!ReviewWrite(c)
             \/ \E found : D!ReadPool(c, found)
             \/ \E answer : D!WriteReport(c, answer)
             \/ \E answer : D!RunCeo(c, answer)
      PROVE  DecisionInv'
  BY <1>5, DecisionStepsThatWrite
<1>6. ASSUME NEW c \in Calls, D!RunFails(c) \/ D!StartRefused(c) PROVE DecisionInv'
  BY <1>6, DecisionFaults
<1>7. ASSUME NEW c \in Calls, (\E to : D!Transition(c, to)) \/ \E a \in DOMAIN db.approvals : D!applyHumanDecision(c, a) PROVE DecisionInv'
  BY <1>7, DecidingBegins
<1>8. ASSUME NEW c \in Calls,
             \/ \E rec : D!requestApprovalForRecommendation(c, rec)
             \/ \E action \in {"KILL_OPPORTUNITY", "ADVANCE_OPPORTUNITY"} : D!RequestApproval(c, action)
             \/ \E a \in DOMAIN db.approvals, verdict \in {"APPROVED", "REJECTED", "DEFERRED"} : D!Decide(c, a, verdict)
      PROVE  DecisionInv'
  BY <1>8, Asking
<1>9. ASSUME NEW c \in Calls, D!TransitionWrite(c) \/ D!ApplyKill(c) \/ D!ApplyKillWrite(c) \/ D!ApplyRecord(c) PROVE DecisionInv'
  BY <1>9, TransitionWriteInv, ApplyKillInv, ApplyKillWriteInv, ApplyRecordInv
<1>10. CASE D!DecisionNext
  BY <1>1, <1>3, <1>4, <1>5, <1>6, <1>7, <1>8, <1>9, <1>10, ZenonT(60) DEF D!DecisionNext
<1> QED BY <1>2, <1>10

LEMMA DecisionInvImplies == DecisionInv => D!KillsWereDecided
<1> SUFFICES ASSUME DecisionInv PROVE D!KillsWereDecided
  OBVIOUS
<1>1. DecisionRecordsOK /\ (CalmDecisions => CalmDecisionRecordsOK)
  BY DEF DecisionInv
<1>2. \A k \in history : k.by = "decision" =>
        db.approvals[k.approval].status = "APPROVED" /\ db.approvals[k.approval].action = "KILL_OPPORTUNITY"
  BY <1>1 DEF DecisionRecordsOK, Killed, D!IsKill
<1>3. \A r \in DOMAIN db.records : db.records[r].decision = db.approvals[db.records[r].approval].status
  BY <1>1 DEF DecisionRecordsOK
<1> QED BY <1>1, <1>2, <1>3 DEF D!KillsWereDecided, CalmDecisions, CalmDecisionRecordsOK, Recorded

-----------------------------------------------------------------------------
(* Decision cycles and their budgets.                                      *)

(* A validation that is under way was started within every budget.         *)
WithinBudgets(call) ==
  /\ call.done \in Nat /\ call.searches \in Nat /\ call.models \in Nat
  /\ call.done <= use.budget.claims + 1 /\ call.searches <= use.budget.searches /\ call.models <= use.budget.models + 1
  /\ call.at \in {"pool", "answer"} => call.done <= use.budget.claims /\ call.models <= use.budget.models

DecisionBudgetInv ==
  /\ DecisionShape
  /\ \E T : db.cycles \in Seq(T)
  /\ D!CyclesKeepTheirBudget
  /\ \A c \in Calls : WithinBudgets(calls[c])

Unspending == use'.budget = use.budget /\ db'.cycles = db.cycles /\ DecisionShape'

LEMMA BudgetFacts ==
  ASSUME DecisionShape
  PROVE  /\ use.budget.claims \in Nat /\ use.budget.searches \in Nat /\ use.budget.models \in Nat
         /\ \A c \in Calls : \A op : D!Begin(op, c) => use'.budget = use.budget /\ calls[c].at = "idle"
         /\ D!Fault => use'.budget = use.budget
         /\ WithinBudgets(D!Idle)
         /\ \A c \in Calls : DOMAIN calls[c] = DOMAIN D!Idle
         /\ DOMAIN calls = Calls
<1>1. PICK u \in D!Use : u = use
  BY DEF DecisionShape
<1>2. u.budget.claims \in Nat /\ u.budget.searches \in Nat /\ u.budget.models \in Nat
      /\ DOMAIN u = {"ops", "load", "starts", "crashes", "restarts", "faults", "vary", "items", "types", "found", "extracted", "recs", "budget"}
  BY DEF D!Use
<1>3. \A c \in Calls : \A op : D!Begin(op, c) => use'.budget = use.budget /\ calls[c].at = "idle"
  BY <1>1, <1>2 DEF D!Begin
<1>4. D!Fault => use'.budget = use.budget
  BY <1>1, <1>2 DEF D!Fault
<1>5. WithinBudgets(D!Idle)
  BY <1>1, <1>2 DEF WithinBudgets, D!Idle
<1> QED BY <1>1, <1>2, <1>3, <1>4, <1>5 DEF DecisionShape

LEMMA BudgetGoesOn ==
  ASSUME DecisionBudgetInv, Unspending,
         \/ UNCHANGED calls
         \/ \E c \in Calls : \E call : D!GoTo(c, call) /\ WithinBudgets(call)
  PROVE  DecisionBudgetInv'
<1>1. \A k : WithinBudgets(k) => WithinBudgets(k)'
  BY DEF WithinBudgets, Unspending
<1>2. D!CyclesKeepTheirBudget'
  BY DEF DecisionBudgetInv, D!CyclesKeepTheirBudget, Unspending
<1>3. ASSUME NEW d \in Calls PROVE WithinBudgets(calls[d])'
  <2>1. CASE UNCHANGED calls
    BY <1>1, <2>1 DEF DecisionBudgetInv
  <2>2. ASSUME NEW c \in Calls, NEW call, D!GoTo(c, call), WithinBudgets(call) PROVE WithinBudgets(calls[d])'
    <3>1. calls'[d] = IF d = c THEN call ELSE calls[d]
      BY <2>2 DEF D!GoTo, DecisionBudgetInv, DecisionShape
    <3>2. CASE d = c
      BY <1>1, <2>2, <3>1, <3>2
    <3>3. CASE d # c
      BY <1>1, <3>1, <3>3 DEF DecisionBudgetInv
    <3> QED BY <3>2, <3>3
  <2> QED BY <2>1, <2>2
<1> QED BY <1>2, <1>3 DEF DecisionBudgetInv, Unspending

LEMMA BudgetReturns == ASSUME DecisionBudgetInv, Unspending, NEW c \in Calls, D!Return(c) PROVE DecisionBudgetInv'
<1>1. DecisionShape
  BY DEF DecisionBudgetInv
<1>2. D!GoTo(c, D!Idle) /\ WithinBudgets(D!Idle)
  BY <1>1, BudgetFacts DEF D!Return
<1> QED BY <1>2, BudgetGoesOn

(* A claim is validated.                                                    *)
LEMMA ValidatingSteps ==
  ASSUME DecisionBudgetInv, DecisionShape', NEW c \in Calls,
         \/ \E claim : D!ValidateClaim(c, claim)
         \/ \E found : D!ReadPool(c, found)
         \/ \E answer : D!WriteReport(c, answer)
         \/ D!recalculateFromLatestReport(c) \/ D!SetStatus(c) \/ D!FindGap(c) \/ D!WriteGap(c)
  PROVE  DecisionBudgetInv'
<1> DEFINE call == calls[c]
<1>0. DecisionShape /\ DOMAIN call = DOMAIN D!Idle /\ WithinBudgets(call) /\ DOMAIN calls = Calls
      /\ DOMAIN db = {"opp", "scores", "evidence", "claims", "reports", "gaps", "items", "cycles", "recs", "reviews", "memos",
                      "approvals", "records"}
  BY BudgetFacts DEF DecisionBudgetInv, DecisionShape
<1>1. ASSUME NEW claim, D!ValidateClaim(c, claim) PROVE DecisionBudgetInv'
  <2> DEFINE next == [D!Idle EXCEPT !.at = "pool", !.claim = claim]
  <2>1. Unspending /\ D!GoTo(c, next)
    BY <1>0, <1>1, BudgetFacts DEF D!ValidateClaim, Unspending
  <2>2. WithinBudgets(next)
    BY <1>0, <1>1, <2>1, BudgetFacts DEF D!Idle, WithinBudgets
  <2> QED BY <2>1, <2>2, BudgetGoesOn
<1>2. ASSUME NEW found, D!ReadPool(c, found) PROVE DecisionBudgetInv'
  <2> DEFINE next == [call EXCEPT !.at = "answer", !.searches = @ + D!SearchesAllowed(call), !.pool = 1 .. D!Len(db.evidence) + D!Len(found)]
  <2>1. Unspending /\ D!GoTo(c, next) /\ call.at = "pool"
    BY <1>0, <1>2, BudgetFacts DEF D!ReadPool, Unspending
  <2>2. WithinBudgets(next)
    BY <1>0, <1>2, <2>1, BudgetFacts DEF D!Idle, WithinBudgets, D!SearchesAllowed
  <2> QED BY <2>1, <2>2, BudgetGoesOn
<1>3. ASSUME NEW answer, D!WriteReport(c, answer) PROVE DecisionBudgetInv'
  <2> DEFINE next == [call EXCEPT !.at = "recalculate", !.pool = {}, !.done = @ + 1, !.models = @ + 1]
  <2>1. Unspending /\ D!GoTo(c, next) /\ call.at = "answer"
    BY <1>0, <1>3, BudgetFacts DEF D!WriteReport, Unspending
  <2>2. WithinBudgets(next)
    BY <1>0, <1>3, <2>1, BudgetFacts DEF D!Idle, WithinBudgets
  <2> QED BY <2>1, <2>2, BudgetGoesOn
<1>4. CASE D!recalculateFromLatestReport(c)
  <2>1. ASSUME NEW status, NEW conf, D!GoTo(c, [call EXCEPT !.at = "setStatus", !.status = status, !.conf = conf]) PROVE DecisionBudgetInv'
    <3> DEFINE next == [call EXCEPT !.at = "setStatus", !.status = status, !.conf = conf]
    <3>1. Unspending /\ D!GoTo(c, next) /\ call.at = "recalculate"
      BY <1>0, <1>4, <2>1, BudgetFacts DEF D!recalculateFromLatestReport, Unspending
    <3>2. WithinBudgets(next)
      BY <1>0, <1>4, <2>1, <3>1, BudgetFacts DEF D!Idle, WithinBudgets
    <3> QED BY <3>1, <3>2, BudgetGoesOn
  <2> QED BY <1>0, <2>1, <1>4 DEF D!recalculateFromLatestReport
<1>5. CASE D!SetStatus(c)
  <2> DEFINE next == [call EXCEPT !.at = "findGap"]
  <2>1. Unspending /\ D!GoTo(c, next) /\ call.at = "setStatus"
    BY <1>0, <1>5, BudgetFacts DEF D!SetStatus, Unspending
  <2>2. WithinBudgets(next)
    BY <1>0, <1>5, <2>1, BudgetFacts DEF D!Idle, WithinBudgets
  <2> QED BY <2>1, <2>2, BudgetGoesOn
<1>6. CASE D!FindGap(c)
  <2>1. ASSUME NEW row, D!GoTo(c, [call EXCEPT !.at = "writeGap", !.row = row]) PROVE DecisionBudgetInv'
    <3> DEFINE next == [call EXCEPT !.at = "writeGap", !.row = row]
    <3>1. Unspending /\ D!GoTo(c, next) /\ call.at = "findGap"
      BY <1>0, <1>6, <2>1, BudgetFacts DEF D!FindGap, Unspending
    <3>2. WithinBudgets(next)
      BY <1>0, <1>6, <2>1, <3>1, BudgetFacts DEF D!Idle, WithinBudgets
    <3> QED BY <3>1, <3>2, BudgetGoesOn
  <2> QED BY <1>0, <2>1, <1>6 DEF D!FindGap
<1>7. CASE D!WriteGap(c)
  <2>1. CASE D!Return(c)
    <3>1. Unspending /\ D!Return(c)
      BY <1>0, <1>7, <2>1, BudgetFacts DEF D!WriteGap, Unspending
    <3> QED BY <3>1, BudgetReturns
  <2>2. CASE D!GoTo(c, [D!OnToNextClaim(call) EXCEPT !.valid = TRUE])
    <3> DEFINE next == [D!OnToNextClaim(call) EXCEPT !.valid = TRUE]
    <3>1. Unspending /\ D!GoTo(c, next) /\ call.at = "writeGap"
      BY <1>0, <1>7, <2>2, BudgetFacts DEF D!WriteGap, Unspending
    <3>2. WithinBudgets(next)
      BY <1>0, <1>7, <2>2, <3>1, BudgetFacts DEF D!Idle, WithinBudgets, D!OnToNextClaim
    <3> QED BY <3>1, <3>2, BudgetGoesOn
  <2> QED BY <1>0, <2>1, <2>2, <1>7 DEF D!WriteGap
<1> QED BY <1>1, <1>2, <1>3, <1>4, <1>5, <1>6, <1>7

(* A cycle goes from claim to claim, and on to the CEO.                     *)
LEMMA CyclingSteps ==
  ASSUME DecisionBudgetInv, DecisionShape', NEW c \in Calls,
         \/ D!extractForOpportunity(c) \/ D!CreateClaim(c) \/ (\E onTime : D!NextClaim(c, onTime)) \/ D!Validated(c)
         \/ D!recalculateOpportunityConfidence(c) \/ D!FindItems(c) \/ D!populateForOpportunity(c) \/ D!SkipCeo(c)
         \/ \E answer : D!RunCeo(c, answer)
         \/ D!RunFails(c) \/ D!StartRefused(c)
  PROVE  DecisionBudgetInv'
<1> DEFINE call == calls[c]
<1>0. DecisionShape /\ DOMAIN call = DOMAIN D!Idle /\ WithinBudgets(call) /\ DOMAIN calls = Calls
      /\ DOMAIN db = {"opp", "scores", "evidence", "claims", "reports", "gaps", "items", "cycles", "recs", "reviews", "memos",
                      "approvals", "records"}
  BY BudgetFacts DEF DecisionBudgetInv, DecisionShape
<1>1. CASE D!extractForOpportunity(c)
  <2>1. ASSUME NEW todo, D!GoTo(c, [call EXCEPT !.at = "next", !.todo = todo]) PROVE DecisionBudgetInv'
    <3> DEFINE next == [call EXCEPT !.at = "next", !.todo = todo]
    <3>1. Unspending /\ D!GoTo(c, next) /\ call.at = "extract"
      BY <1>0, <1>1, <2>1, BudgetFacts DEF D!extractForOpportunity, Unspending
    <3>2. WithinBudgets(next)
      BY <1>0, <1>1, <2>1, <3>1, BudgetFacts DEF D!Idle, WithinBudgets
    <3> QED BY <3>1, <3>2, BudgetGoesOn
  <2>2. CASE D!GoTo(c, [call EXCEPT !.at = "create"])
    <3> DEFINE next == [call EXCEPT !.at = "create"]
    <3>1. Unspending /\ D!GoTo(c, next) /\ call.at = "extract"
      BY <1>0, <1>1, <2>2, BudgetFacts DEF D!extractForOpportunity, Unspending
    <3>2. WithinBudgets(next)
      BY <1>0, <1>1, <2>2, <3>1, BudgetFacts DEF D!Idle, WithinBudgets
    <3> QED BY <3>1, <3>2, BudgetGoesOn
  <2> QED BY <1>0, <2>1, <2>2, <1>1 DEF D!extractForOpportunity
<1>2. CASE D!CreateClaim(c)
  <2>1. ASSUME NEW todo, NEW at \in {"next", "create"}, D!GoTo(c, [call EXCEPT !.todo = todo, !.at = at]) PROVE DecisionBudgetInv'
    <3> DEFINE next == [call EXCEPT !.todo = todo, !.at = at]
    <3>1. Unspending /\ D!GoTo(c, next) /\ call.at = "create"
      BY <1>0, <1>2, <2>1, BudgetFacts DEF D!CreateClaim, Unspending
    <3>2. WithinBudgets(next)
      BY <1>0, <1>2, <2>1, <3>1, BudgetFacts DEF D!Idle, WithinBudgets
    <3> QED BY <3>1, <3>2, BudgetGoesOn
  <2> QED BY <1>0, <2>1, <1>2 DEF D!CreateClaim
<1>3. ASSUME NEW onTime, D!NextClaim(c, onTime) PROVE DecisionBudgetInv'
  <2>1. CASE D!GoTo(c, [call EXCEPT !.at = "pool", !.claim = D!First(call.todo)]) /\ D!withinBudget(call)
    <3> DEFINE next == [call EXCEPT !.at = "pool", !.claim = D!First(call.todo)]
    <3>1. Unspending /\ D!GoTo(c, next) /\ call.at = "next"
      BY <1>0, <1>3, <2>1, BudgetFacts DEF D!NextClaim, Unspending
    <3>2. WithinBudgets(next)
      BY <1>0, <1>3, <2>1, <3>1, BudgetFacts DEF D!Idle, WithinBudgets, D!withinBudget
    <3> QED BY <3>1, <3>2, BudgetGoesOn
  <2>2. CASE D!GoTo(c, [call EXCEPT !.at = "aggregate", !.todo = {}, !.stopped = TRUE])
    <3> DEFINE next == [call EXCEPT !.at = "aggregate", !.todo = {}, !.stopped = TRUE]
    <3>1. Unspending /\ D!GoTo(c, next) /\ call.at = "next"
      BY <1>0, <1>3, <2>2, BudgetFacts DEF D!NextClaim, Unspending
    <3>2. WithinBudgets(next)
      BY <1>0, <1>3, <2>2, <3>1, BudgetFacts DEF D!Idle, WithinBudgets, D!withinBudget
    <3> QED BY <3>1, <3>2, BudgetGoesOn
  <2> QED BY <1>0, <2>1, <2>2, <1>3 DEF D!NextClaim
<1>4. CASE D!Validated(c)
  <2> DEFINE next == [call EXCEPT !.at = "aggregate"]
  <2>1. Unspending /\ D!GoTo(c, next) /\ call.at = "next"
    BY <1>0, <1>4, BudgetFacts DEF D!Validated, Unspending
  <2>2. WithinBudgets(next)
    BY <1>0, <1>4, <2>1, BudgetFacts DEF D!Idle, WithinBudgets
  <2> QED BY <2>1, <2>2, BudgetGoesOn
<1>5. CASE D!recalculateOpportunityConfidence(c)
  <2>1. ASSUME NEW at \in {"finish", "findItems", "ceo"}, D!GoTo(c, [call EXCEPT !.at = at]) PROVE DecisionBudgetInv'
    <3> DEFINE next == [call EXCEPT !.at = at]
    <3>1. Unspending /\ D!GoTo(c, next) /\ call.at = "aggregate"
      BY <1>0, <1>5, <2>1, BudgetFacts DEF D!recalculateOpportunityConfidence, Unspending
    <3>2. WithinBudgets(next)
      BY <1>0, <1>5, <2>1, <3>1, BudgetFacts DEF D!Idle, WithinBudgets
    <3> QED BY <3>1, <3>2, BudgetGoesOn
  <2> QED BY <1>0, <2>1, <1>5 DEF D!recalculateOpportunityConfidence
<1>6. CASE D!FindItems(c)
  <2>1. ASSUME NEW todo, D!GoTo(c, [call EXCEPT !.at = "writeItems", !.todo = todo]) PROVE DecisionBudgetInv'
    <3> DEFINE next == [call EXCEPT !.at = "writeItems", !.todo = todo]
    <3>1. Unspending /\ D!GoTo(c, next) /\ call.at = "findItems"
      BY <1>0, <1>6, <2>1, BudgetFacts DEF D!FindItems, Unspending
    <3>2. WithinBudgets(next)
      BY <1>0, <1>6, <2>1, <3>1, BudgetFacts DEF D!Idle, WithinBudgets
    <3> QED BY <3>1, <3>2, BudgetGoesOn
  <2> QED BY <1>0, <2>1, <1>6 DEF D!FindItems
<1>7. CASE D!populateForOpportunity(c)
  <2> DEFINE next == [call EXCEPT !.at = "ceo", !.todo = {}]
  <2>1. Unspending /\ D!GoTo(c, next) /\ call.at = "writeItems"
    BY <1>0, <1>7, BudgetFacts DEF D!populateForOpportunity, Unspending
  <2>2. WithinBudgets(next)
    BY <1>0, <1>7, <2>1, BudgetFacts DEF D!Idle, WithinBudgets
  <2> QED BY <2>1, <2>2, BudgetGoesOn
<1>8. CASE D!SkipCeo(c)
  <2> DEFINE next == [call EXCEPT !.at = "finish"]
  <2>1. Unspending /\ D!GoTo(c, next) /\ call.at = "ceo"
    BY <1>0, <1>8, BudgetFacts DEF D!SkipCeo, Unspending
  <2>2. WithinBudgets(next)
    BY <1>0, <1>8, <2>1, BudgetFacts DEF D!Idle, WithinBudgets
  <2> QED BY <2>1, <2>2, BudgetGoesOn
<1>9. ASSUME NEW answer, D!RunCeo(c, answer) PROVE DecisionBudgetInv'
  <2> DEFINE next == [call EXCEPT !.at = "finish", !.models = @ + 1]
  <2>1. Unspending /\ D!GoTo(c, next) /\ call.at = "ceo" /\ call.models < use.budget.models
    BY <1>0, <1>9, BudgetFacts DEF D!RunCeo, Unspending
  <2>2. WithinBudgets(next)
    BY <1>0, <1>9, <2>1, BudgetFacts DEF D!Idle, WithinBudgets
  <2> QED BY <2>1, <2>2, BudgetGoesOn
<1>10. CASE D!RunFails(c)
  <2>1. CASE D!Return(c)
    <3>1. Unspending /\ D!Return(c)
      BY <1>0, <1>10, <2>1, BudgetFacts DEF D!RunFails, Unspending
    <3> QED BY <3>1, BudgetReturns
  <2>2. ASSUME NEW searches \in Nat, NEW asked \in 0 .. 1, searches <= D!SearchesAllowed(call), call.at \in {"pool", "answer"},
               D!GoTo(c, [D!OnToNextClaim(call) EXCEPT !.done = @ + 1, !.searches = @ + searches, !.models = @ + asked])
        PROVE  DecisionBudgetInv'
    <3> DEFINE next == [D!OnToNextClaim(call) EXCEPT !.done = @ + 1, !.searches = @ + searches, !.models = @ + asked]
    <3>1. Unspending /\ D!GoTo(c, next)
      BY <1>0, <1>10, <2>2, BudgetFacts DEF D!RunFails, Unspending
    <3>2. WithinBudgets(next)
      BY <1>0, <1>10, <2>2, <3>1, BudgetFacts DEF D!Idle, WithinBudgets, D!OnToNextClaim, D!SearchesAllowed
    <3> QED BY <2>2, <3>1, <3>2, BudgetGoesOn
  <2>3. ASSUME NEW asked \in 0 .. 1, D!GoTo(c, [call EXCEPT !.at = "finish", !.models = @ + asked]),
               call.models < use.budget.models, call.at = "ceo"
        PROVE  DecisionBudgetInv'
    <3> DEFINE next == [call EXCEPT !.at = "finish", !.models = @ + asked]
    <3>1. Unspending /\ D!GoTo(c, next)
      BY <1>0, <1>10, <2>3, BudgetFacts DEF D!RunFails, Unspending
    <3>2. WithinBudgets(next)
      BY <1>0, <1>10, <2>3, <3>1, BudgetFacts DEF D!Idle, WithinBudgets
    <3> QED BY <2>3, <3>1, <3>2, BudgetGoesOn
  <2>4. CASE call.at = "pool" /\ \E searches \in 0 .. D!SearchesAllowed(call) :
          D!GoTo(c, [D!OnToNextClaim(call) EXCEPT !.done = @ + 1, !.searches = @ + searches, !.models = @ + 0])
    <3>1. PICK searches \in 0 .. D!SearchesAllowed(call) :
            D!GoTo(c, [D!OnToNextClaim(call) EXCEPT !.done = @ + 1, !.searches = @ + searches, !.models = @ + 0])
      BY <2>4, Zenon
    <3>2. searches \in Nat /\ searches <= D!SearchesAllowed(call) /\ 0 \in 0 .. 1
      OBVIOUS
    <3> QED BY <2>2, <2>4, <3>1, <3>2, Zenon
  <2>5. CASE call.at = "answer" /\ \E asked \in 0 .. 1 :
          D!GoTo(c, [D!OnToNextClaim(call) EXCEPT !.done = @ + 1, !.searches = @ + 0, !.models = @ + asked])
    <3>1. 0 <= D!SearchesAllowed(call) /\ 0 \in Nat
      BY <1>0, BudgetFacts DEF D!SearchesAllowed, WithinBudgets
    <3> QED BY <2>2, <2>5, <3>1, Zenon
  <2>6. CASE call.models < use.budget.models /\ call.at = "ceo" /\ \E asked \in 0 .. 1 : D!GoTo(c, [call EXCEPT !.at = "finish", !.models = @ + asked])
    BY <2>3, <2>6
  <2> QED BY <2>1, <2>4, <2>5, <2>6, <1>10, Zenon DEF D!RunFails
<1>11. CASE D!StartRefused(c)
  <2>1. Unspending /\ D!Return(c)
    BY <1>0, <1>11, BudgetFacts DEF D!StartRefused, Unspending
  <2> QED BY <2>1, BudgetReturns
<1> QED BY <1>1, <1>2, <1>3, <1>4, <1>5, <1>6, <1>7, <1>8, <1>9, <1>10, <1>11

(* What is no part of a cycle spends nothing.                               *)
LEMMA SpendlessSteps ==
  ASSUME DecisionBudgetInv, DecisionShape', NEW c \in Calls,
         \/ \E item : D!AttachEvidence(c, item)
         \/ D!CreateCustomerEvidence(c) \/ (\E score : D!Score(c, score)) \/ D!ScoreWrite(c)
         \/ (\E level, human : D!SetValidationLevel(c, level, human)) \/ (\E to : D!Transition(c, to)) \/ D!TransitionWrite(c)
         \/ D!recommendCustomerDiscoveryAction(c) \/ D!ReviewOpportunity(c) \/ D!ReviewWrite(c) \/ \E rec, review : D!CompileMemo(c, rec, review)
  PROVE  DecisionBudgetInv'
<1> DEFINE call == calls[c]
<1>0. DecisionShape /\ DOMAIN call = DOMAIN D!Idle /\ WithinBudgets(call) /\ DOMAIN calls = Calls
      /\ DOMAIN db = {"opp", "scores", "evidence", "claims", "reports", "gaps", "items", "cycles", "recs", "reviews", "memos",
                      "approvals", "records"}
  BY BudgetFacts DEF DecisionBudgetInv, DecisionShape
<1>1. ASSUME NEW item, D!AttachEvidence(c, item) PROVE DecisionBudgetInv'
  <2>1. CASE item.source = "CUSTOMER"
    <3> DEFINE next == [D!Idle EXCEPT !.at = "wrap", !.row = D!Len(db.evidence) + 1]
    <3>1. Unspending /\ D!GoTo(c, next)
      BY <1>0, <1>1, <2>1, BudgetFacts DEF D!AttachEvidence, Unspending
    <3>2. WithinBudgets(next)
      BY <1>0, <1>1, <2>1, <3>1, BudgetFacts DEF D!Idle, WithinBudgets
    <3> QED BY <3>1, <3>2, BudgetGoesOn
  <2>2. CASE item.source # "CUSTOMER"
    <3>1. Unspending /\ UNCHANGED calls
      BY <1>0, <1>1, <2>2, BudgetFacts DEF D!AttachEvidence, Unspending
    <3> QED BY <3>1, BudgetGoesOn
  <2> QED BY <1>0, <2>1, <2>2, <1>1
<1>2. CASE D!CreateCustomerEvidence(c)
  <2>1. Unspending /\ D!Return(c)
    BY <1>0, <1>2, BudgetFacts DEF D!CreateCustomerEvidence, Unspending
  <2> QED BY <2>1, BudgetReturns
<1>3. ASSUME NEW score, D!Score(c, score) PROVE DecisionBudgetInv'
  <2> DEFINE next == [D!Idle EXCEPT !.at = "scored", !.row = score.score, !.conf = score.conf]
  <2>1. Unspending /\ D!GoTo(c, next)
    BY <1>0, <1>3, BudgetFacts DEF D!Score, Unspending
  <2>2. WithinBudgets(next)
    BY <1>0, <1>3, <2>1, BudgetFacts DEF D!Idle, WithinBudgets
  <2> QED BY <2>1, <2>2, BudgetGoesOn
<1>4. CASE D!ScoreWrite(c)
  <2>1. Unspending /\ D!Return(c)
    BY <1>0, <1>4, BudgetFacts DEF D!ScoreWrite, Unspending
  <2> QED BY <2>1, BudgetReturns
<1>5. ASSUME NEW level, NEW human, D!SetValidationLevel(c, level, human) PROVE DecisionBudgetInv'
  <2>1. Unspending /\ UNCHANGED calls
    BY <1>0, <1>5, BudgetFacts DEF D!SetValidationLevel, Unspending
  <2> QED BY <2>1, BudgetGoesOn
<1>6. ASSUME NEW to, D!Transition(c, to) PROVE DecisionBudgetInv'
  <2> DEFINE next == [D!Idle EXCEPT !.at = "move", !.status = to]
  <2>1. Unspending /\ D!GoTo(c, next)
    BY <1>0, <1>6, BudgetFacts DEF D!Transition, Unspending
  <2>2. WithinBudgets(next)
    BY <1>0, <1>6, <2>1, BudgetFacts DEF D!Idle, WithinBudgets
  <2> QED BY <2>1, <2>2, BudgetGoesOn
<1>7. CASE D!TransitionWrite(c)
  <2>1. Unspending /\ D!Return(c)
    BY <1>0, <1>7, BudgetFacts DEF D!TransitionWrite, Unspending
  <2> QED BY <2>1, BudgetReturns
<1>8. CASE D!recommendCustomerDiscoveryAction(c)
  <2>1. Unspending /\ UNCHANGED calls
    BY <1>0, <1>8, BudgetFacts DEF D!recommendCustomerDiscoveryAction, Unspending
  <2> QED BY <2>1, BudgetGoesOn
<1>9. CASE D!ReviewOpportunity(c)
  <2> DEFINE next == [D!Idle EXCEPT !.at = "review", !.status = D!DevChairmanFixture]
  <2>1. Unspending /\ D!GoTo(c, next)
    BY <1>0, <1>9, BudgetFacts DEF D!ReviewOpportunity, Unspending
  <2>2. WithinBudgets(next)
    BY <1>0, <1>9, <2>1, BudgetFacts DEF D!Idle, WithinBudgets
  <2> QED BY <2>1, <2>2, BudgetGoesOn
<1>10. CASE D!ReviewWrite(c)
  <2>1. Unspending /\ D!Return(c)
    BY <1>0, <1>10, BudgetFacts DEF D!ReviewWrite, Unspending
  <2> QED BY <2>1, BudgetReturns
<1>11. ASSUME NEW rec, NEW review, D!CompileMemo(c, rec, review) PROVE DecisionBudgetInv'
  <2>1. Unspending /\ UNCHANGED calls
    BY <1>0, <1>11, BudgetFacts DEF D!CompileMemo, Unspending
  <2> QED BY <2>1, BudgetGoesOn
<1> QED BY <1>1, <1>2, <1>3, <1>4, <1>5, <1>6, <1>7, <1>8, <1>9, <1>10, <1>11

(* Nor does what is asked of a human and decided.                           *)
LEMMA DecidingSteps ==
  ASSUME DecisionBudgetInv, DecisionShape', NEW c \in Calls,
         \/ (\E rec : D!requestApprovalForRecommendation(c, rec)) \/ \E action : D!RequestApproval(c, action)
         \/ (\E a, verdict : D!Decide(c, a, verdict)) \/ (\E a : D!applyHumanDecision(c, a))
         \/ D!ApplyKill(c) \/ D!ApplyKillWrite(c) \/ D!ApplyRecord(c)
  PROVE  DecisionBudgetInv'
<1> DEFINE call == calls[c]
<1>0. DecisionShape /\ DOMAIN call = DOMAIN D!Idle /\ WithinBudgets(call) /\ DOMAIN calls = Calls
      /\ DOMAIN db = {"opp", "scores", "evidence", "claims", "reports", "gaps", "items", "cycles", "recs", "reviews", "memos",
                      "approvals", "records"}
  BY BudgetFacts DEF DecisionBudgetInv, DecisionShape
<1>1. ASSUME NEW rec, D!requestApprovalForRecommendation(c, rec) PROVE DecisionBudgetInv'
  <2>1. Unspending /\ UNCHANGED calls
    BY <1>0, <1>1, BudgetFacts DEF D!requestApprovalForRecommendation, D!AskForApproval, Unspending
  <2> QED BY <2>1, BudgetGoesOn
<1>2. ASSUME NEW action, D!RequestApproval(c, action) PROVE DecisionBudgetInv'
  <2>1. Unspending /\ UNCHANGED calls
    BY <1>0, <1>2, BudgetFacts DEF D!RequestApproval, D!AskForApproval, Unspending
  <2> QED BY <2>1, BudgetGoesOn
<1>3. ASSUME NEW a, NEW verdict, D!Decide(c, a, verdict) PROVE DecisionBudgetInv'
  <2>1. Unspending /\ UNCHANGED calls
    BY <1>0, <1>3, BudgetFacts DEF D!Decide, Unspending
  <2> QED BY <2>1, BudgetGoesOn
<1>4. ASSUME NEW a, D!applyHumanDecision(c, a) PROVE DecisionBudgetInv'
  <2>1. ASSUME NEW at \in {"kill", "record"},
               D!GoTo(c, [D!Idle EXCEPT !.at = at, !.row = a, !.rec = D!Len(db.recs), !.review = D!Len(db.reviews), !.memo = D!Len(db.memos)])
        PROVE  DecisionBudgetInv'
    <3> DEFINE next == [D!Idle EXCEPT !.at = at, !.row = a, !.rec = D!Len(db.recs), !.review = D!Len(db.reviews), !.memo = D!Len(db.memos)]
    <3>1. Unspending /\ D!GoTo(c, next)
      BY <1>0, <1>4, <2>1, BudgetFacts DEF D!applyHumanDecision, Unspending
    <3>2. WithinBudgets(next)
      BY <1>0, <1>4, <2>1, <3>1, BudgetFacts DEF D!Idle, WithinBudgets
    <3> QED BY <3>1, <3>2, BudgetGoesOn
  <2> QED BY <1>0, <2>1, <1>4 DEF D!applyHumanDecision
<1>5. CASE D!ApplyKill(c)
  <2>1. CASE D!GoTo(c, [call EXCEPT !.at = "killWrite"])
    <3> DEFINE next == [call EXCEPT !.at = "killWrite"]
    <3>1. Unspending /\ D!GoTo(c, next) /\ call.at = "kill"
      BY <1>0, <1>5, <2>1, BudgetFacts DEF D!ApplyKill, Unspending
    <3>2. WithinBudgets(next)
      BY <1>0, <1>5, <2>1, <3>1, BudgetFacts DEF D!Idle, WithinBudgets
    <3> QED BY <3>1, <3>2, BudgetGoesOn
  <2>2. CASE D!Return(c)
    <3>1. Unspending /\ D!Return(c)
      BY <1>0, <1>5, <2>2, BudgetFacts DEF D!ApplyKill, Unspending
    <3> QED BY <3>1, BudgetReturns
  <2> QED BY <1>0, <2>1, <2>2, <1>5 DEF D!ApplyKill
<1>6. CASE D!ApplyKillWrite(c)
  <2> DEFINE next == [call EXCEPT !.at = "record"]
  <2>1. Unspending /\ D!GoTo(c, next) /\ call.at = "killWrite"
    BY <1>0, <1>6, BudgetFacts DEF D!ApplyKillWrite, Unspending
  <2>2. WithinBudgets(next)
    BY <1>0, <1>6, <2>1, BudgetFacts DEF D!Idle, WithinBudgets
  <2> QED BY <2>1, <2>2, BudgetGoesOn
<1>7. CASE D!ApplyRecord(c)
  <2>1. Unspending /\ D!Return(c)
    BY <1>0, <1>7, BudgetFacts DEF D!ApplyRecord, Unspending
  <2> QED BY <2>1, BudgetReturns
<1> QED BY <1>1, <1>2, <1>3, <1>4, <1>5, <1>6, <1>7

(* The rows: one is added, and a cycle that ends copies its counts.        *)
LEMMA DecisionRunCycleInv ==
  ASSUME DecisionBudgetInv, DecisionShape', NEW c \in Calls, NEW granted, D!RunCycle(c, granted)
  PROVE  DecisionBudgetInv'
<1>0. /\ use'.budget = use.budget /\ WithinBudgets(D!Idle) /\ DOMAIN calls = Calls /\ "cycles" \in DOMAIN db
      /\ use.budget.claims \in Nat /\ use.budget.searches \in Nat /\ use.budget.models \in Nat
  BY BudgetFacts DEF D!RunCycle, DecisionBudgetInv, DecisionShape
<1>1. PICK T : db.cycles \in Seq(T)
  BY DEF DecisionBudgetInv
<1>2. PICK status : db'.cycles = Append(db.cycles, D!NewDecisionCycle(status))
  <2>1. \A s, t : D!Append(s, t) = Append(s, t)
    OBVIOUS
  <2> QED BY <1>0, <2>1 DEF D!RunCycle
<1>3. (\E U : db.cycles \in Seq(U))'
  <2>1. db.cycles \in Seq(T \cup {D!NewDecisionCycle(status)})
    BY <1>1
  <2> QED BY <1>2, <2>1
<1>4. D!CyclesKeepTheirBudget'
  <2> DEFINE n == Len(db.cycles)
  <2>1. n \in Nat /\ DOMAIN db'.cycles = 1 .. n + 1 /\ db'.cycles[n + 1] = D!NewDecisionCycle(status)
        /\ \A i \in 1 .. n : i \in DOMAIN db.cycles /\ db'.cycles[i] = db.cycles[i]
    BY <1>1, <1>2
  <2> HIDE DEF n
  <2>2. ASSUME NEW i \in DOMAIN db'.cycles
        PROVE  /\ db'.cycles[i].claims <= use.budget.claims + 1 /\ db'.cycles[i].searches <= use.budget.searches
               /\ db'.cycles[i].models <= use.budget.models + 1
    <3>1. CASE i \in 1 .. n
      BY <2>1, <3>1 DEF DecisionBudgetInv, D!CyclesKeepTheirBudget
    <3>2. CASE i = n + 1
      BY <1>0, <2>1, <3>2 DEF D!NewDecisionCycle
    <3> QED BY <2>1, <3>1, <3>2
  <2> QED BY <1>0, <2>2 DEF D!CyclesKeepTheirBudget
<1>5. ASSUME NEW d \in Calls PROVE WithinBudgets(calls[d])'
  <2>1. \A k : WithinBudgets(k) => WithinBudgets(k)'
    BY <1>0 DEF WithinBudgets
  <2>2. WithinBudgets([D!Idle EXCEPT !.at = "extract", !.cycle = D!Len(db.cycles) + 1])
    BY <1>0 DEF WithinBudgets, D!Idle
  <2>3. calls'[d] = calls[d] \/ calls'[d] = [D!Idle EXCEPT !.at = "extract", !.cycle = D!Len(db.cycles) + 1]
    BY <1>0 DEF D!RunCycle, D!GoTo
  <2> QED BY <2>1, <2>2, <2>3 DEF DecisionBudgetInv
<1> QED BY <1>3, <1>4, <1>5 DEF DecisionBudgetInv

LEMMA DecisionFinishCycleInv ==
  ASSUME DecisionBudgetInv, DecisionShape', NEW c \in Calls, D!FinishCycle(c)
  PROVE  DecisionBudgetInv'
<1> DEFINE call == calls[c]
<1>0. use' = use /\ DecisionShape /\ WithinBudgets(call) /\ WithinBudgets(D!Idle) /\ DOMAIN calls = Calls /\ "cycles" \in DOMAIN db
  BY BudgetFacts DEF D!FinishCycle, DecisionBudgetInv, DecisionShape
<1>1. PICK T : db.cycles \in Seq(T)
  BY DEF DecisionBudgetInv
<1>2. PICK row : /\ db'.cycles = [db.cycles EXCEPT ![call.cycle] = row]
                 /\ row.claims = call.done /\ row.searches = call.searches /\ row.models = call.models
  <2> DEFINE written == [status |-> IF call.stopped THEN "STOPPED" ELSE "COMPLETED",
                         claims |-> call.done, searches |-> call.searches, models |-> call.models]
  <2>1. db'.cycles = [db.cycles EXCEPT ![call.cycle] = written]
    BY <1>0 DEF D!FinishCycle
  <2>2. written.claims = call.done /\ written.searches = call.searches /\ written.models = call.models
    OBVIOUS
  <2> HIDE DEF written
  <2> QED BY <2>1, <2>2
<1>3. \E U : db'.cycles \in Seq(U)
  <2>1. db.cycles \in Seq(T \cup {row}) /\ DOMAIN db.cycles = 1 .. Len(db.cycles)
    BY <1>1
  <2>2. CASE call.cycle \in DOMAIN db.cycles
    BY <1>2, <2>1, <2>2, ExceptSeq
  <2>3. CASE call.cycle \notin DOMAIN db.cycles
    <3>1. db'.cycles = db.cycles
      BY <1>1, <1>2, <2>1, <2>3
    <3> QED BY <1>1, <3>1
  <2> QED BY <2>2, <2>3
<1>4. D!CyclesKeepTheirBudget'
  <2>1. DOMAIN db'.cycles = DOMAIN db.cycles /\ \A i \in DOMAIN db.cycles : db'.cycles[i] = IF i = call.cycle THEN row ELSE db.cycles[i]
    BY <1>1, <1>2
  <2>2. row.claims <= use.budget.claims + 1 /\ row.searches <= use.budget.searches /\ row.models <= use.budget.models + 1
    BY <1>0, <1>2 DEF WithinBudgets
  <2> QED BY <1>0, <2>1, <2>2 DEF D!CyclesKeepTheirBudget, DecisionBudgetInv
<1>5. ASSUME NEW d \in Calls PROVE WithinBudgets(calls[d])'
  <2>1. \A k : WithinBudgets(k) => WithinBudgets(k)'
    BY <1>0 DEF WithinBudgets
  <2>2. calls'[d] = calls[d] \/ calls'[d] = D!Idle
    BY <1>0 DEF D!FinishCycle, D!Return, D!GoTo
  <2> QED BY <1>0, <2>1, <2>2 DEF DecisionBudgetInv
<1> QED BY <1>3, <1>4, <1>5 DEF DecisionBudgetInv

LEMMA DecisionBudgetRestartInv == ASSUME DecisionBudgetInv, DecisionShape', D!Restart PROVE DecisionBudgetInv'
<1>0. use'.budget = use.budget /\ UNCHANGED db /\ calls' = [c \in Calls |-> D!Idle] /\ WithinBudgets(D!Idle)
  <2>1. PICK u \in D!Use : u = use
    BY DEF DecisionBudgetInv, DecisionShape
  <2>2. use' = [u EXCEPT !.restarts = u.restarts - 1]
    BY <2>1 DEF D!Restart
  <2>3. use'.budget = use.budget
    BY <2>1, <2>2 DEF D!Use
  <2> QED BY <2>3, BudgetFacts DEF D!Restart, DecisionBudgetInv
<1>1. \A k : WithinBudgets(k) => WithinBudgets(k)'
  BY <1>0 DEF WithinBudgets
<1>2. D!CyclesKeepTheirBudget' /\ \E T : db'.cycles \in Seq(T)
  BY <1>0 DEF DecisionBudgetInv, D!CyclesKeepTheirBudget
<1>3. \A d \in Calls : WithinBudgets(calls[d])'
  <2>1. WithinBudgets(D!Idle)'
    BY <1>0 DEF WithinBudgets, D!Idle
  <2> QED BY <1>0, <2>1
<1> QED BY <1>2, <1>3 DEF DecisionBudgetInv

LEMMA DecisionBudgetInitInv == ASSUME D!DecisionConstants, D!DecisionInit PROVE DecisionBudgetInv
<1>1. DecisionShape
  BY DecisionInitInv DEF DecisionInv
<1>2. db.cycles = <<>>
  BY DEF D!DecisionInit
<1>3. db.cycles \in Seq({}) /\ DOMAIN db.cycles = {}
  BY <1>2
<1>4. \A c \in Calls : WithinBudgets(calls[c])
  BY <1>1, BudgetFacts DEF D!DecisionInit
<1> QED BY <1>1, <1>3, <1>4 DEF DecisionBudgetInv, D!CyclesKeepTheirBudget

LEMMA DecisionBudgetNextInv == ASSUME DecisionBudgetInv, DecisionShape', [D!DecisionNext]_(D!vars) PROVE DecisionBudgetInv'
<1>1. CASE UNCHANGED D!vars
  <2>1. Unspending /\ UNCHANGED calls
    BY <1>1 DEF D!vars, Unspending
  <2> QED BY <2>1, BudgetGoesOn
<1>2. ASSUME NEW c \in Calls, NEW granted \in BOOLEAN, D!RunCycle(c, granted) PROVE DecisionBudgetInv'
  BY <1>2, DecisionRunCycleInv
<1>3. ASSUME NEW c \in Calls, D!FinishCycle(c) PROVE DecisionBudgetInv'
  BY <1>3, DecisionFinishCycleInv
<1>4. CASE D!Restart
  BY <1>4, DecisionBudgetRestartInv
<1>5. ASSUME NEW c \in Calls,
             \/ \E claim : D!ValidateClaim(c, claim)
             \/ \E found : D!ReadPool(c, found)
             \/ \E answer : D!WriteReport(c, answer)
             \/ D!recalculateFromLatestReport(c) \/ D!SetStatus(c) \/ D!FindGap(c) \/ D!WriteGap(c)
      PROVE  DecisionBudgetInv'
  BY <1>5, ValidatingSteps
<1>6. ASSUME NEW c \in Calls,
             \/ D!extractForOpportunity(c) \/ D!CreateClaim(c) \/ (\E onTime : D!NextClaim(c, onTime)) \/ D!Validated(c)
             \/ D!recalculateOpportunityConfidence(c) \/ D!FindItems(c) \/ D!populateForOpportunity(c) \/ D!SkipCeo(c)
             \/ \E answer : D!RunCeo(c, answer)
             \/ D!RunFails(c) \/ D!StartRefused(c)
      PROVE  DecisionBudgetInv'
  BY <1>6, CyclingSteps
<1>7. ASSUME NEW c \in Calls,
             \/ \E item : D!AttachEvidence(c, item)
             \/ D!CreateCustomerEvidence(c) \/ (\E score : D!Score(c, score)) \/ D!ScoreWrite(c)
             \/ (\E level, human : D!SetValidationLevel(c, level, human)) \/ (\E to : D!Transition(c, to)) \/ D!TransitionWrite(c)
             \/ D!recommendCustomerDiscoveryAction(c) \/ D!ReviewOpportunity(c) \/ D!ReviewWrite(c) \/ \E rec, review : D!CompileMemo(c, rec, review)
      PROVE  DecisionBudgetInv'
  BY <1>7, SpendlessSteps
<1>8. ASSUME NEW c \in Calls,
             \/ (\E rec : D!requestApprovalForRecommendation(c, rec)) \/ \E action : D!RequestApproval(c, action)
             \/ (\E a, verdict : D!Decide(c, a, verdict)) \/ (\E a : D!applyHumanDecision(c, a))
             \/ D!ApplyKill(c) \/ D!ApplyKillWrite(c) \/ D!ApplyRecord(c)
      PROVE  DecisionBudgetInv'
  BY <1>8, DecidingSteps
<1>9. CASE D!DecisionNext
  BY <1>2, <1>3, <1>4, <1>5, <1>6, <1>7, <1>8, <1>9, ZenonT(60) DEF D!DecisionNext
<1> QED BY <1>1, <1>9

-----------------------------------------------------------------------------
(* Outreach messages.                                                      *)

(* The tables have their names; messages and requests name each other.     *)
OutreachTablesOK ==
  /\ DOMAIN db = {"prospects", "experiments", "messages", "today", "approvals", "deliveries", "responses", "halted"}
  /\ \E T : db.messages \in Seq(T)
  /\ \E T : db.approvals \in Seq(T)
  /\ \A m \in DOMAIN db.messages :
       DOMAIN db.messages[m] = {"status", "prospect", "experiment", "approval", "contacted"}
       /\ db.messages[m].approval \in {0} \cup DOMAIN db.approvals
  /\ \A a \in DOMAIN db.approvals :
       DOMAIN db.approvals[a] = {"message", "status", "lapsed"} /\ db.approvals[a].message \in DOMAIN db.messages

(* A request of that message that a human approved.                        *)
ApprovedToContact(a, m) == a \in DOMAIN db.approvals /\ db.approvals[a].status = "APPROVED" /\ db.approvals[a].message = m

OfMessage == {"attach", "applyWrite", "contact", "contactWrite", "send", "provider", "delivery", "respond"}

CallIsBound(call) ==
  /\ call.m \in {0} \cup DOMAIN db.messages
  /\ call.at \in OfMessage \/ (call.auto /\ call.at \in {"prospect", "prospectWrite"}) => call.m # 0
  /\ call.at \in {"attach", "apply"} => call.a \in DOMAIN db.approvals
  /\ call.at = "provider" => ApprovedToContact(call.a, call.m)
  /\ call.at = "draft" => ~call.auto

OutreachCallsOK == DOMAIN calls = Calls /\ \A c \in Calls : DOMAIN calls[c] = DOMAIN O!Idle /\ CallIsBound(calls[c])

SentOK ==
  /\ DOMAIN history = {"times", "under"} /\ DOMAIN history.times = Messages /\ DOMAIN history.under = Messages
  /\ \A m \in Messages : history.times[m] > 0 => ApprovedToContact(history.under[m], m)

OutreachInv == OutreachTablesOK /\ OutreachCallsOK /\ SentOK

-----------------------------------------------------------------------------
(* Rows stay, and what a human approved stays approved.                    *)
OutreachRowsStay ==
  /\ OutreachTablesOK'
  /\ DOMAIN db.messages \subseteq DOMAIN db'.messages /\ DOMAIN db.approvals \subseteq DOMAIN db'.approvals
  /\ \A a, m : ApprovedToContact(a, m) => ApprovedToContact(a, m)'

LEMMA OutreachIdle == O!Idle.at = "idle" /\ CallIsBound(O!Idle) /\ DOMAIN O!Idle = {"at", "p", "x", "m", "a", "r", "to", "todo", "auto"}
BY DEF O!Idle, CallIsBound, OfMessage

LEMMA BoundStays == ASSUME OutreachRowsStay, NEW call, CallIsBound(call) PROVE CallIsBound(call)'
BY DEF OutreachRowsStay, CallIsBound

LEMMA OutreachGoingOn ==
  ASSUME OutreachInv, OutreachRowsStay, UNCHANGED history,
         UNCHANGED calls \/ \E c \in Calls : \E call : O!GoTo(c, call) /\ DOMAIN call = DOMAIN O!Idle /\ CallIsBound(call)'
  PROVE  OutreachInv'
<1>1. OutreachCallsOK'
  <2>1. CASE UNCHANGED calls
    <3>1. ASSUME NEW c \in Calls PROVE CallIsBound(calls[c])'
      <4>1. CallIsBound(calls'[c])
        BY <2>1 DEF OutreachInv, OutreachCallsOK
      <4> QED BY <2>1, <4>1, BoundStays
    <3> QED BY <2>1, <3>1 DEF OutreachInv, OutreachCallsOK
  <2>2. CASE \E c \in Calls : \E call : O!GoTo(c, call) /\ DOMAIN call = DOMAIN O!Idle /\ CallIsBound(call)'
    <3>0. PICK c \in Calls : \E call : O!GoTo(c, call) /\ DOMAIN call = DOMAIN O!Idle /\ CallIsBound(call)'
      BY <2>2
    <3>1. PICK call : O!GoTo(c, call) /\ DOMAIN call = DOMAIN O!Idle /\ CallIsBound(call)'
      BY <3>0
    <3>2. DOMAIN calls' = Calls /\ calls'[c] = call /\ \A d \in Calls \ {c} : calls'[d] = calls[d]
      BY <3>1 DEF O!GoTo, OutreachInv, OutreachCallsOK
    <3>3. ASSUME NEW d \in Calls PROVE DOMAIN calls'[d] = DOMAIN O!Idle /\ CallIsBound(calls[d])'
      <4>1. CASE d = c
        BY <3>1, <3>2, <4>1 DEF CallIsBound
      <4>2. CASE d # c
        <5>1. PICK other : other = calls[d]
          OBVIOUS
        <5>2. CallIsBound(other) /\ DOMAIN other = DOMAIN O!Idle
          BY <5>1 DEF OutreachInv, OutreachCallsOK
        <5>3. CallIsBound(other)' /\ calls'[d] = other
          BY <3>2, <4>2, <5>1, <5>2, BoundStays
        <5> QED BY <5>2, <5>3 DEF CallIsBound
      <4> QED BY <4>1, <4>2
    <3> QED BY <3>2, <3>3 DEF OutreachCallsOK
  <2> QED BY <2>1, <2>2
<1>2. SentOK'
  BY DEF OutreachInv, SentOK, OutreachRowsStay
<1> QED BY <1>1, <1>2 DEF OutreachInv, OutreachRowsStay

(* Only other tables are written.                                          *)
OutreachElsewhere ==
  \/ \E v : db' = [db EXCEPT !.prospects = v]
  \/ \E v : db' = [db EXCEPT !.experiments = v]
  \/ \E v : db' = [db EXCEPT !.deliveries = v]
  \/ \E v : db' = [db EXCEPT !.responses = v]
  \/ \E v : db' = [db EXCEPT !.today = v]
  \/ \E v : db' = [db EXCEPT !.halted = v]
  \/ UNCHANGED db

LEMMA ElsewhereStays ==
  ASSUME OutreachInv, OutreachElsewhere
  PROVE  OutreachRowsStay /\ (\A call : CallIsBound(call)' <=> CallIsBound(call))
<1>0. OutreachTablesOK
  BY DEF OutreachInv
<1>1. DOMAIN db' = DOMAIN db /\ db'.messages = db.messages /\ db'.approvals = db.approvals
  <2>1. ASSUME NEW t \in {"prospects", "experiments", "deliveries", "responses", "today", "halted"}, NEW v, db' = [db EXCEPT ![t] = v]
        PROVE  DOMAIN db' = DOMAIN db /\ db'.messages = db.messages /\ db'.approvals = db.approvals
    BY <1>0, <2>1 DEF OutreachTablesOK
  <2> QED BY <2>1 DEF OutreachElsewhere
<1> QED BY <1>0, <1>1 DEF OutreachTablesOK, OutreachRowsStay, ApprovedToContact, CallIsBound

LEMMA OutreachGoingOnElsewhere ==
  ASSUME OutreachInv, OutreachElsewhere, UNCHANGED history,
         NEW c \in Calls, NEW call, O!GoTo(c, call), DOMAIN call = DOMAIN O!Idle, CallIsBound(call)
  PROVE  OutreachInv'
<1>1. OutreachRowsStay /\ CallIsBound(call)'
  BY ElsewhereStays
<1> QED BY <1>1, OutreachGoingOn
(* A call that begins, about no message yet; and one that goes on.         *)
FreshOutreach(call) ==
  /\ DOMAIN call = DOMAIN O!Idle /\ call.m = 0 /\ ~call.auto
  /\ call.at \in {"discover", "prospect", "experiment", "draft", "analyze"}

FollowsOutreach(call, prior) ==
  /\ DOMAIN call = DOMAIN O!Idle /\ call.m = prior.m /\ call.auto = prior.auto
  /\ \/ call.at \in {"prospect", "prospectWrite"} /\ prior.at \in {"prospect", "prospectWrite"}
     \/ call.at = "send" /\ prior.at = "prospectWrite" /\ prior.auto
     \/ call.at \in {"analyze", "analyzed"}

LEMMA FreshOutreachIsBound == ASSUME NEW call, FreshOutreach(call) PROVE DOMAIN call = DOMAIN O!Idle /\ CallIsBound(call)
BY DEF FreshOutreach, CallIsBound, OfMessage

LEMMA FollowsOutreachIsBound ==
  ASSUME NEW call, NEW prior, CallIsBound(prior), FollowsOutreach(call, prior) PROVE DOMAIN call = DOMAIN O!Idle /\ CallIsBound(call)
BY DEF FollowsOutreach, CallIsBound, OfMessage

(* Steps that leave messages and requests alone, but for the send itself.  *)
LEMMA OutreachStepsAside ==
  ASSUME OutreachInv, NEW c \in Calls,
         \/ O!SetStatusStep(c)
         \/ \E s : O!Discover(c, s) \/ O!Import(c, s)
         \/ O!DiscoverCreate(c)
         \/ \E p, answer : O!Qualify(c, p, answer)
         \/ \E p : O!MarkDoNotContact(c, p)
         \/ \E x : O!ApproveExperiment(c, x)
         \/ \E x, to : O!SetExperimentStatus(c, x, to)
         \/ O!ExperimentWrite(c)
         \/ \E x, p : O!Draft(c, x, p)
         \/ O!ModelFails(c)
         \/ \E r : O!Analyze(c, r)
         \/ \E n : O!AnalyzeExtract(c, n)
         \/ O!AnalyzeMark(c)
  PROVE  OutreachInv'
<1> USE OutreachIdle
<1> DEFINE Done == OutreachInv'
<1>0. /\ DOMAIN calls[c] = DOMAIN O!Idle /\ CallIsBound(calls[c])
      /\ DOMAIN db = {"prospects", "experiments", "messages", "today", "approvals", "deliveries", "responses", "halted"}
  BY DEF OutreachInv, OutreachCallsOK, OutreachTablesOK
<1>1. ASSUME NEW call, O!GoTo(c, call), DOMAIN call = DOMAIN O!Idle, CallIsBound(call), OutreachElsewhere, UNCHANGED history PROVE Done
  BY <1>1, OutreachGoingOnElsewhere
<1> HIDE DEF Done
<1>2. ASSUME O!Return(c), OutreachElsewhere, UNCHANGED history PROVE Done
  BY <1>1, <1>2 DEF O!Return
<1>3. ASSUME NEW call, O!GoTo(c, call), FreshOutreach(call), UNCHANGED <<db, history>> PROVE Done
  BY <1>1, <1>3, FreshOutreachIsBound DEF OutreachElsewhere
<1>4. ASSUME NEW call, O!GoTo(c, call), FollowsOutreach(call, calls[c]), OutreachElsewhere, UNCHANGED history PROVE Done
  BY <1>0, <1>1, <1>4, FollowsOutreachIsBound
<1>6. ASSUME O!SetStatusRead(c) PROVE Done
  <2>1. UNCHANGED <<db, history>> /\ calls[c].at = "prospect" /\ (O!Return(c) \/ O!GoTo(c, [calls[c] EXCEPT !.at = "prospectWrite"]))
    BY <1>6 DEF O!SetStatusRead
  <2>2. CASE O!Return(c)
    BY <1>2, <2>1, <2>2 DEF OutreachElsewhere
  <2>3. CASE O!GoTo(c, [calls[c] EXCEPT !.at = "prospectWrite"])
    <3> DEFINE call == [calls[c] EXCEPT !.at = "prospectWrite"]
    <3>1. FollowsOutreach(call, calls[c])
      BY <1>0, <2>1, <2>3 DEF FollowsOutreach, OfMessage, O!Idle
    <3> HIDE DEF call
    <3>2. O!GoTo(c, call)
      BY <2>3 DEF call
    <3> QED BY <1>4, <2>1, <3>1, <3>2 DEF OutreachElsewhere
  <2> QED BY <2>1, <2>2, <2>3
<1>7. ASSUME O!SetStatusWrite(c) PROVE Done
  <2>1. OutreachElsewhere /\ UNCHANGED history /\ calls[c].at = "prospectWrite"
    <3> DEFINE v == [db.prospects EXCEPT ![calls[c].p].status = Head(calls[c].todo)]
    <3>1. db' = [db EXCEPT !.prospects = v] /\ UNCHANGED history /\ calls[c].at = "prospectWrite"
      BY <1>0, <1>7 DEF O!SetStatusWrite
    <3> HIDE DEF v
    <3> QED BY <3>1 DEF OutreachElsewhere
  <2>2. PICK rest : \/ O!GoTo(c, [calls[c] EXCEPT !.at = "prospect", !.p = calls[c].p, !.todo = rest])
                    \/ calls[c].auto /\ O!GoTo(c, [calls[c] EXCEPT !.at = "send"])
                    \/ O!GoTo(c, [calls[c] EXCEPT !.at = "analyze"])
                    \/ O!Return(c)
    BY <1>7, Zenon DEF O!SetStatusWrite, O!ToProspect
  <2>3. CASE O!GoTo(c, [calls[c] EXCEPT !.at = "prospect", !.p = calls[c].p, !.todo = rest])
    <3> DEFINE call == [calls[c] EXCEPT !.at = "prospect", !.p = calls[c].p, !.todo = rest]
    <3>1. FollowsOutreach(call, calls[c])
      BY <1>0, <2>1, <2>3 DEF FollowsOutreach, OfMessage, O!Idle
    <3> HIDE DEF call
    <3>2. O!GoTo(c, call)
      BY <2>3 DEF call
    <3> QED BY <1>4, <2>1, <3>1, <3>2
  <2>4. CASE calls[c].auto /\ O!GoTo(c, [calls[c] EXCEPT !.at = "send"])
    <3> DEFINE call == [calls[c] EXCEPT !.at = "send"]
    <3>1. FollowsOutreach(call, calls[c])
      BY <1>0, <2>1, <2>4 DEF FollowsOutreach, OfMessage, O!Idle
    <3> HIDE DEF call
    <3>2. O!GoTo(c, call)
      BY <2>4 DEF call
    <3> QED BY <1>4, <2>1, <3>1, <3>2
  <2>5. CASE O!GoTo(c, [calls[c] EXCEPT !.at = "analyze"])
    <3> DEFINE call == [calls[c] EXCEPT !.at = "analyze"]
    <3>1. FollowsOutreach(call, calls[c])
      BY <1>0, <2>1, <2>5 DEF FollowsOutreach, OfMessage, O!Idle
    <3> HIDE DEF call
    <3>2. O!GoTo(c, call)
      BY <2>5 DEF call
    <3> QED BY <1>4, <2>1, <3>1, <3>2
  <2>6. CASE O!Return(c)
    BY <1>2, <2>1, <2>6
  <2> QED BY <2>2, <2>3, <2>4, <2>5, <2>6
<1>9. ASSUME NEW s, O!Discover(c, s) \/ O!Import(c, s) PROVE Done
  <2>1. O!GoTo(c, [O!Idle EXCEPT !.at = "discover", !.to = s]) /\ UNCHANGED <<db, history>>
    BY <1>9 DEF O!Discover, O!Import
  <2> DEFINE call == [O!Idle EXCEPT !.at = "discover", !.to = s]
  <2>2. FreshOutreach(call)
    BY DEF FreshOutreach, O!Idle
  <2> HIDE DEF call
  <2>3. O!GoTo(c, call)
    BY <2>1 DEF call
  <2> QED BY <1>3, <2>1, <2>2, <2>3
<1>10. ASSUME NEW p, NEW answer, O!Qualify(c, p, answer) \/ O!MarkDoNotContact(c, p) PROVE Done
  <2>1. PICK todo : O!GoTo(c, [O!Idle EXCEPT !.at = "prospect", !.p = p, !.todo = todo])
    BY <1>10, Zenon DEF O!Qualify, O!MarkDoNotContact, O!ToProspect
  <2>2. UNCHANGED <<db, history>>
    BY <1>10 DEF O!Qualify, O!MarkDoNotContact
  <2> DEFINE call == [O!Idle EXCEPT !.at = "prospect", !.p = p, !.todo = todo]
  <2>3. FreshOutreach(call)
    BY DEF FreshOutreach, O!Idle
  <2> HIDE DEF call
  <2>4. O!GoTo(c, call)
    BY <2>1 DEF call
  <2> QED BY <1>3, <2>1, <2>2, <2>3, <2>4
<1>11. ASSUME NEW x, NEW to, O!ApproveExperiment(c, x) \/ O!SetExperimentStatus(c, x, to) PROVE Done
  <2>1. PICK t : O!GoTo(c, [O!Idle EXCEPT !.at = "experiment", !.x = x, !.to = t])
    BY <1>11 DEF O!ApproveExperiment, O!SetExperimentStatus
  <2>2. UNCHANGED <<db, history>>
    BY <1>11 DEF O!ApproveExperiment, O!SetExperimentStatus
  <2> DEFINE call == [O!Idle EXCEPT !.at = "experiment", !.x = x, !.to = t]
  <2>3. FreshOutreach(call)
    BY DEF FreshOutreach, O!Idle
  <2> HIDE DEF call
  <2>4. O!GoTo(c, call)
    BY <2>1 DEF call
  <2> QED BY <1>3, <2>1, <2>2, <2>3, <2>4
<1>12. ASSUME NEW x, NEW p, O!Draft(c, x, p) PROVE Done
  <2>1. O!GoTo(c, [O!Idle EXCEPT !.at = "draft", !.x = x, !.p = p]) /\ UNCHANGED <<db, history>>
    BY <1>12 DEF O!Draft
  <2> DEFINE call == [O!Idle EXCEPT !.at = "draft", !.x = x, !.p = p]
  <2>2. FreshOutreach(call)
    BY DEF FreshOutreach, O!Idle
  <2> HIDE DEF call
  <2>3. O!GoTo(c, call)
    BY <2>1 DEF call
  <2> QED BY <1>3, <2>1, <2>2, <2>3
<1>13. ASSUME NEW r, O!Analyze(c, r) PROVE Done
  <2>1. O!GoTo(c, [O!Idle EXCEPT !.at = "analyze", !.r = r]) /\ UNCHANGED <<db, history>>
    BY <1>13 DEF O!Analyze
  <2> DEFINE call == [O!Idle EXCEPT !.at = "analyze", !.r = r]
  <2>2. FreshOutreach(call)
    BY DEF FreshOutreach, O!Idle
  <2> HIDE DEF call
  <2>3. O!GoTo(c, call)
    BY <2>1 DEF call
  <2> QED BY <1>3, <2>1, <2>2, <2>3
<1>14. ASSUME O!DiscoverCreate(c) \/ O!ExperimentWrite(c) \/ O!ModelFails(c) \/ O!AnalyzeMark(c) PROVE Done
  <2>1. O!Return(c) /\ UNCHANGED history
    BY <1>14 DEF O!DiscoverCreate, O!ExperimentWrite, O!ModelFails, O!AnalyzeMark
  <2>2. ASSUME O!DiscoverCreate(c) PROVE OutreachElsewhere
    BY <2>2, Zenon DEF O!DiscoverCreate, OutreachElsewhere
  <2>3. ASSUME O!ExperimentWrite(c) PROVE OutreachElsewhere
    <3> DEFINE v == [db.experiments EXCEPT ![calls[c].x] = calls[c].to]
    <3>1. db' = [db EXCEPT !.experiments = v]
      BY <1>0, <2>3 DEF O!ExperimentWrite
    <3> HIDE DEF v
    <3> QED BY <3>1 DEF OutreachElsewhere
  <2>4. ASSUME O!ModelFails(c) PROVE OutreachElsewhere
    BY <2>4 DEF O!ModelFails, OutreachElsewhere
  <2>5. ASSUME O!AnalyzeMark(c) PROVE OutreachElsewhere
    <3> DEFINE v == [db.responses EXCEPT ![calls[c].r].status = "ANALYZED"]
    <3>1. db' = [db EXCEPT !.responses = v]
      BY <1>0, <2>5 DEF O!AnalyzeMark
    <3> HIDE DEF v
    <3> QED BY <3>1 DEF OutreachElsewhere
  <2> QED BY <1>2, <1>14, <2>1, <2>2, <2>3, <2>4, <2>5
<1>15. ASSUME NEW n, O!AnalyzeExtract(c, n) PROVE Done
  <2>1. OutreachElsewhere
    BY <1>15, Zenon DEF O!AnalyzeExtract, OutreachElsewhere
  <2>2. calls[c].at = "analyze" /\ UNCHANGED history /\ O!GoTo(c, [calls[c] EXCEPT !.at = "analyzed"])
    BY <1>15 DEF O!AnalyzeExtract
  <2> DEFINE call == [calls[c] EXCEPT !.at = "analyzed"]
  <2>3. FollowsOutreach(call, calls[c])
    BY <1>0, <2>2 DEF FollowsOutreach, OfMessage, O!Idle
  <2> HIDE DEF call
  <2>4. O!GoTo(c, call)
    BY <2>2 DEF call
  <2> QED BY <1>4, <2>1, <2>2, <2>3, <2>4
<1> QED BY <1>6, <1>7, <1>9, <1>10, <1>11, <1>12, <1>13, <1>14, <1>15 DEF Done, O!SetStatusStep
(* Calls about a message or a request that is there, and their next steps. *)
LEMMA StepsOfMessages ==
  ASSUME OutreachInv, NEW c \in Calls,
         \/ \E a \in DOMAIN db.approvals : O!ApplyDecision(c, a)
         \/ O!ApplyRead(c) \/ O!ContactRead(c) \/ O!SendCheck(c) \/ O!SendRecord(c) \/ O!RecordCreate(c)
         \/ \E m \in DOMAIN db.messages : O!MarkContacted(c, m) \/ O!Send(c, m) \/ O!RecordResponse(c, m)
  PROVE  OutreachInv'
<1> USE OutreachIdle
<1> DEFINE Done == OutreachInv'
<1>0. /\ DOMAIN calls[c] = DOMAIN O!Idle /\ CallIsBound(calls[c]) /\ OutreachTablesOK
      /\ DOMAIN db = {"prospects", "experiments", "messages", "today", "approvals", "deliveries", "responses", "halted"}
      /\ 0 \notin DOMAIN db.messages
  BY DEF OutreachInv, OutreachCallsOK, OutreachTablesOK
<1>1. ASSUME NEW call, O!GoTo(c, call), DOMAIN call = DOMAIN O!Idle, CallIsBound(call), OutreachElsewhere, UNCHANGED history PROVE Done
  BY <1>1, OutreachGoingOnElsewhere
<1> HIDE DEF Done
<1>2. ASSUME O!Return(c), OutreachElsewhere, UNCHANGED history PROVE Done
  BY <1>1, <1>2 DEF O!Return
<1>3. ASSUME NEW a \in DOMAIN db.approvals, O!ApplyDecision(c, a) PROVE Done
  <2> DEFINE call == [O!Idle EXCEPT !.at = "apply", !.a = a]
  <2>1. DOMAIN call = DOMAIN O!Idle /\ CallIsBound(call)
    BY DEF O!Idle, CallIsBound, OfMessage
  <2> HIDE DEF call
  <2>2. O!GoTo(c, call) /\ UNCHANGED <<db, history>>
    BY <1>3 DEF O!ApplyDecision, call
  <2> QED BY <1>1, <2>1, <2>2 DEF OutreachElsewhere
<1>4. ASSUME O!ApplyRead(c) PROVE Done
  <2>1. PICK m, to : /\ m = db.approvals[calls[c].a].message /\ calls[c].at = "apply" /\ UNCHANGED <<db, history>>
                     /\ \/ O!GoTo(c, [calls[c] EXCEPT !.at = "send", !.m = m])
                        \/ O!GoTo(c, [calls[c] EXCEPT !.at = "applyWrite", !.m = m, !.to = to])
                        \/ O!Return(c)
    BY <1>4, Zenon DEF O!ApplyRead
  <2>2. m \in DOMAIN db.messages
    BY <1>0, <2>1 DEF CallIsBound, OutreachTablesOK
  <2>3. CASE O!GoTo(c, [calls[c] EXCEPT !.at = "send", !.m = m])
    <3> DEFINE call == [calls[c] EXCEPT !.at = "send", !.m = m]
    <3>1. DOMAIN call = DOMAIN O!Idle /\ CallIsBound(call)
      BY <1>0, <2>2 DEF CallIsBound, OfMessage
    <3> HIDE DEF call
    <3>2. O!GoTo(c, call)
      BY <2>3 DEF call
    <3> QED BY <1>1, <2>1, <3>1, <3>2 DEF OutreachElsewhere
  <2>4. CASE O!GoTo(c, [calls[c] EXCEPT !.at = "applyWrite", !.m = m, !.to = to])
    <3> DEFINE call == [calls[c] EXCEPT !.at = "applyWrite", !.m = m, !.to = to]
    <3>1. DOMAIN call = DOMAIN O!Idle /\ CallIsBound(call)
      BY <1>0, <2>2 DEF CallIsBound, OfMessage
    <3> HIDE DEF call
    <3>2. O!GoTo(c, call)
      BY <2>4 DEF call
    <3> QED BY <1>1, <2>1, <3>1, <3>2 DEF OutreachElsewhere
  <2> QED BY <1>2, <2>1, <2>3, <2>4 DEF OutreachElsewhere
<1>5. ASSUME NEW at \in {"contactWrite", "contact"}, calls[c].at \in OfMessage, O!GoTo(c, [calls[c] EXCEPT !.at = at]), OutreachElsewhere, UNCHANGED history
      PROVE  Done
  <2> DEFINE call == [calls[c] EXCEPT !.at = at]
  <2>1. DOMAIN call = DOMAIN O!Idle /\ CallIsBound(call)
    BY <1>0, <1>5 DEF CallIsBound, OfMessage
  <2> HIDE DEF call
  <2>2. O!GoTo(c, call)
    BY <1>5 DEF call
  <2> QED BY <1>1, <1>5, <2>1, <2>2
<1>6. ASSUME O!ContactRead(c) PROVE Done
  <2>1. calls[c].at = "contact" /\ UNCHANGED <<db, history>> /\ (O!Return(c) \/ O!GoTo(c, [calls[c] EXCEPT !.at = "contactWrite"]))
    BY <1>6, Zenon DEF O!ContactRead
  <2> QED BY <1>2, <1>5, <2>1 DEF OutreachElsewhere, OfMessage
<1>7. ASSUME O!SendCheck(c) PROVE Done
  <2> DEFINE m == calls[c].m
             a == db.messages[m].approval
  <2>1. calls[c].at = "send" /\ UNCHANGED <<db, history>>
    BY <1>7 DEF O!SendCheck
  <2>2. CASE ~O!Sendable(m)
    <3>1. O!Return(c)
      BY <1>7, <2>2 DEF O!SendCheck
    <3> QED BY <1>2, <2>1, <3>1 DEF OutreachElsewhere
  <2>3. CASE O!Sendable(m)
    <3> DEFINE call == [calls[c] EXCEPT !.at = "provider", !.a = a]
    <3>1. m \in DOMAIN db.messages
      BY <1>0, <2>1 DEF CallIsBound, OfMessage
    <3>2. ApprovedToContact(a, m)
      BY <1>0, <2>3, <3>1 DEF O!Sendable, O!BoundApproval, ApprovedToContact, OutreachTablesOK
    <3>3. O!GoTo(c, call)
      BY <1>7, <2>3 DEF O!SendCheck
    <3>4. DOMAIN call = DOMAIN O!Idle /\ call.at = "provider" /\ call.a = a /\ call.m = m
      BY <1>0
    <3> HIDE DEF call
    <3>5. CallIsBound(call)
      BY <1>0, <3>1, <3>2, <3>4 DEF CallIsBound, OfMessage
    <3> QED BY <1>1, <2>1, <3>3, <3>4, <3>5 DEF OutreachElsewhere
  <2> QED BY <2>2, <2>3
<1>8. ASSUME O!SendRecord(c) PROVE Done
  <2> DEFINE v == [db.deliveries EXCEPT ![calls[c].m] = Append(@, calls[c].to)]
  <2>1. db' = [db EXCEPT !.deliveries = v]
    BY <1>0, <1>8 DEF O!SendRecord
  <2> HIDE DEF v
  <2>2. calls[c].at = "delivery" /\ UNCHANGED history /\ (O!Return(c) \/ O!GoTo(c, [calls[c] EXCEPT !.at = "contact"]))
    BY <1>8, Zenon DEF O!SendRecord
  <2> QED BY <1>2, <1>5, <2>1, <2>2 DEF OutreachElsewhere, OfMessage
<1>9. ASSUME O!RecordCreate(c) PROVE Done
  <2>1. PICK v : db' = [db EXCEPT !.responses = v]
    BY <1>9, Zenon DEF O!RecordCreate
  <2>2. PICK r, auto, p, todo :
          O!GoTo(c, [[calls[c] EXCEPT !.r = r, !.auto = auto] EXCEPT !.at = "prospect", !.p = p, !.todo = todo])
    BY <1>9, Zenon DEF O!RecordCreate, O!ToProspect
  <2>3. calls[c].at = "respond" /\ UNCHANGED history
    BY <1>9 DEF O!RecordCreate
  <2> DEFINE call == [[calls[c] EXCEPT !.r = r, !.auto = auto] EXCEPT !.at = "prospect", !.p = p, !.todo = todo]
  <2>4. DOMAIN call = DOMAIN O!Idle /\ CallIsBound(call)
    BY <1>0, <2>3 DEF CallIsBound, OfMessage
  <2> HIDE DEF call
  <2>5. O!GoTo(c, call)
    BY <2>2 DEF call
  <2> QED BY <1>1, <2>1, <2>3, <2>4, <2>5 DEF OutreachElsewhere
<1>10. ASSUME NEW m \in DOMAIN db.messages, NEW at \in {"contact", "send", "respond"}, O!GoTo(c, [O!Idle EXCEPT !.at = at, !.m = m]), UNCHANGED <<db, history>>
       PROVE  Done
  <2> DEFINE call == [O!Idle EXCEPT !.at = at, !.m = m]
  <2>1. DOMAIN call = DOMAIN O!Idle /\ call.at = at /\ call.m = m /\ ~call.auto
    BY DEF O!Idle
  <2> HIDE DEF call
  <2>2. O!GoTo(c, call)
    BY <1>10 DEF call
  <2>3. CallIsBound(call)
    BY <1>0, <2>1 DEF CallIsBound, OfMessage
  <2> QED BY <1>1, <1>10, <2>1, <2>2, <2>3 DEF OutreachElsewhere
<1>11. ASSUME NEW m \in DOMAIN db.messages, O!MarkContacted(c, m) \/ O!Send(c, m) \/ O!RecordResponse(c, m) PROVE Done
  BY <1>10, <1>11 DEF O!MarkContacted, O!Send, O!RecordResponse
<1> QED BY <1>3, <1>4, <1>6, <1>7, <1>8, <1>9, <1>11 DEF Done

(* The send: the provider is called under the request that was checked.    *)
LEMMA SendProviderInv ==
  ASSUME OutreachInv, NEW c \in Calls, NEW outcome, O!SendProvider(c, outcome)
  PROVE  OutreachInv'
<1> USE OutreachIdle
<1>0. /\ DOMAIN calls = Calls /\ DOMAIN calls[c] = DOMAIN O!Idle /\ CallIsBound(calls[c]) /\ calls[c].at = "provider"
      /\ UNCHANGED db
  BY DEF OutreachInv, OutreachCallsOK, O!SendProvider
<1>1. PICK m, a : m = calls[c].m /\ a = calls[c].a
  OBVIOUS
<1>2. ApprovedToContact(a, m)
  BY <1>0, <1>1 DEF CallIsBound
<1>3. PICK to : calls' = [calls EXCEPT ![c] = [calls[c] EXCEPT !.at = "delivery", !.to = to]]
  BY Zenon DEF O!SendProvider, O!GoTo
<1>4. PICK call : call = [calls[c] EXCEPT !.at = "delivery", !.to = to]
  OBVIOUS
<1>5. DOMAIN call = DOMAIN O!Idle /\ CallIsBound(call)
  BY <1>0, <1>4 DEF CallIsBound, OfMessage
<1>6. OutreachCallsOK'
  <2>1. ASSUME NEW d \in Calls PROVE DOMAIN calls'[d] = DOMAIN O!Idle /\ CallIsBound(calls'[d])
    BY <1>0, <1>3, <1>4, <1>5 DEF OutreachInv, OutreachCallsOK
  <2> QED BY <1>0, <1>3, <2>1 DEF OutreachCallsOK, CallIsBound, ApprovedToContact
<1>7. SentOK'
  <2>1. \/ UNCHANGED history
        \/ history' = [times |-> [history.times EXCEPT ![m] = @ + 1], under |-> [history.under EXCEPT ![m] = a]]
    BY <1>1, Zenon DEF O!SendProvider
  <2>2. CASE UNCHANGED history
    BY <1>0, <2>2 DEF OutreachInv, SentOK, ApprovedToContact
  <2>3. CASE history' = [times |-> [history.times EXCEPT ![m] = @ + 1], under |-> [history.under EXCEPT ![m] = a]]
    <3>1. /\ DOMAIN history' = {"times", "under"} /\ DOMAIN history'.times = Messages /\ DOMAIN history'.under = Messages
          /\ \A n \in Messages : n # m => history'.times[n] = history.times[n] /\ history'.under[n] = history.under[n]
          /\ m \in Messages => history'.under[m] = a
      BY <2>3 DEF OutreachInv, SentOK
    <3>2. ASSUME NEW n \in Messages, history'.times[n] > 0 PROVE ApprovedToContact(history'.under[n], n)
      BY <1>2, <3>1, <3>2 DEF OutreachInv, SentOK
    <3> QED BY <1>0, <3>1, <3>2 DEF SentOK, ApprovedToContact
  <2> QED BY <2>1, <2>2, <2>3
<1>8. OutreachTablesOK'
  BY <1>0 DEF OutreachInv, OutreachTablesOK
<1> QED BY <1>6, <1>7, <1>8 DEF OutreachInv
-----------------------------------------------------------------------------
(* Steps that write messages or requests.                                  *)
MessageFields == {"status", "prospect", "experiment", "approval", "contacted"}
RequestFields == {"message", "status", "lapsed"}

LEMMA MessagesWritten ==
  ASSUME OutreachTablesOK, NEW messages, NEW today, db' = [db EXCEPT !.messages = messages, !.today = today], \E T : messages \in Seq(T),
         DOMAIN db.messages \subseteq DOMAIN messages,
         \A m \in DOMAIN messages : DOMAIN messages[m] = MessageFields /\ messages[m].approval \in {0} \cup DOMAIN db.approvals
  PROVE  OutreachRowsStay
<1>1. DOMAIN db' = DOMAIN db /\ db'.messages = messages /\ db'.approvals = db.approvals
  BY DEF OutreachTablesOK
<1> QED BY <1>1 DEF OutreachTablesOK, OutreachRowsStay, ApprovedToContact, MessageFields

LEMMA MessageWritten ==
  ASSUME OutreachTablesOK, NEW x \in DOMAIN db.messages, NEW row, DOMAIN row = MessageFields, row.approval \in {0} \cup DOMAIN db.approvals,
         db' = [db EXCEPT !.messages = [db.messages EXCEPT ![x] = row]]
  PROVE  OutreachRowsStay
<1>1. PICK messages : messages = [db.messages EXCEPT ![x] = row]
  OBVIOUS
<1>2. PICK T : db.messages \in Seq(T)
  BY DEF OutreachTablesOK
<1>3. messages \in Seq(T \cup {row}) /\ DOMAIN messages = DOMAIN db.messages
  <2>1. db.messages \in Seq(T \cup {row}) /\ row \in T \cup {row}
    BY <1>2
  <2> QED BY <1>1, <2>1
<1>4. \A m \in DOMAIN messages : DOMAIN messages[m] = MessageFields /\ messages[m].approval \in {0} \cup DOMAIN db.approvals
  BY <1>1 DEF OutreachTablesOK, MessageFields
<1>5. db' = [db EXCEPT !.messages = messages, !.today = db.today]
  BY <1>1 DEF OutreachTablesOK
<1> QED BY <1>3, <1>4, <1>5, MessagesWritten

LEMMA RequestsWritten ==
  ASSUME OutreachTablesOK, NEW approvals, db' = [db EXCEPT !.approvals = approvals], \E T : approvals \in Seq(T),
         DOMAIN db.approvals \subseteq DOMAIN approvals,
         \A a \in DOMAIN approvals : DOMAIN approvals[a] = RequestFields /\ approvals[a].message \in DOMAIN db.messages,
         \A a \in DOMAIN db.approvals :
           approvals[a].message = db.approvals[a].message /\ (db.approvals[a].status = "APPROVED" => approvals[a].status = "APPROVED")
  PROVE  OutreachRowsStay
<1>1. DOMAIN db' = DOMAIN db /\ db'.messages = db.messages /\ db'.approvals = approvals
  BY DEF OutreachTablesOK
<1> QED BY <1>1 DEF OutreachTablesOK, OutreachRowsStay, ApprovedToContact, RequestFields

LEMMA RequestWritten ==
  ASSUME OutreachTablesOK, NEW x \in DOMAIN db.approvals, NEW row, DOMAIN row = RequestFields, row.message = db.approvals[x].message,
         db.approvals[x].status = "APPROVED" => row.status = "APPROVED",
         db' = [db EXCEPT !.approvals = [db.approvals EXCEPT ![x] = row]]
  PROVE  OutreachRowsStay
<1>1. PICK approvals : approvals = [db.approvals EXCEPT ![x] = row]
  OBVIOUS
<1>2. PICK T : db.approvals \in Seq(T)
  BY DEF OutreachTablesOK
<1>3. approvals \in Seq(T \cup {row}) /\ DOMAIN approvals = DOMAIN db.approvals
  <2>1. db.approvals \in Seq(T \cup {row}) /\ row \in T \cup {row}
    BY <1>2
  <2> QED BY <1>1, <2>1
<1>4. \A a \in DOMAIN approvals :
        /\ DOMAIN approvals[a] = RequestFields /\ approvals[a].message \in DOMAIN db.messages
        /\ approvals[a].message = db.approvals[a].message /\ (db.approvals[a].status = "APPROVED" => approvals[a].status = "APPROVED")
  BY <1>1 DEF OutreachTablesOK, RequestFields
<1>5. db' = [db EXCEPT !.approvals = approvals]
  BY <1>1
<1> QED BY <1>3, <1>4, <1>5, RequestsWritten

LEMMA Appended ==
  ASSUME NEW T, NEW s \in Seq(T), NEW row, NEW t, t = Append(s, row)
  PROVE  /\ t \in Seq(T \cup {row})
         /\ DOMAIN s \subseteq DOMAIN t /\ Len(s) + 1 \in DOMAIN t
         /\ \A i \in DOMAIN t : t[i] = row \/ (i \in DOMAIN s /\ t[i] = s[i])
         /\ \A i \in DOMAIN s : t[i] = s[i]
<1>2. s \in Seq(T \cup {row}) /\ row \in T \cup {row} /\ Len(s) \in Nat /\ DOMAIN s = 1 .. Len(s)
  OBVIOUS
<1>3. /\ t \in Seq(T \cup {row}) /\ DOMAIN t = 1 .. Len(s) + 1
      /\ t[Len(s) + 1] = row /\ \A i \in DOMAIN s : t[i] = s[i]
  BY <1>2, AppendProperties
<1> QED BY <1>2, <1>3

LEMMA StepsThatWriteRows ==
  ASSUME OutreachInv, NEW c \in Calls,
         \/ O!DraftCreate(c) \/ O!AttachApproval(c) \/ O!ApplyWrite(c) \/ O!ContactWrite(c)
         \/ \E m \in DOMAIN db.messages : O!RequestApproval(c, m)
         \/ \E a \in DOMAIN db.approvals, verdict \in {"APPROVED", "REJECTED"} : O!Decide(c, a, verdict)
  PROVE  OutreachInv'
<1> USE OutreachIdle
<1> DEFINE Done == OutreachInv'
<1>0. /\ DOMAIN calls[c] = DOMAIN O!Idle /\ CallIsBound(calls[c]) /\ OutreachTablesOK
      /\ DOMAIN db = {"prospects", "experiments", "messages", "today", "approvals", "deliveries", "responses", "halted"}
      /\ 0 \notin DOMAIN db.messages
  BY DEF OutreachInv, OutreachCallsOK, OutreachTablesOK
<1>1. ASSUME NEW call, O!GoTo(c, call), DOMAIN call = DOMAIN O!Idle, CallIsBound(call), OutreachRowsStay, UNCHANGED history PROVE Done
  <2>1. CallIsBound(call)'
    BY <1>1, BoundStays
  <2> QED BY <1>1, <2>1, OutreachGoingOn
<1>2. ASSUME NEW call, O!GoTo(c, call), DOMAIN call = DOMAIN O!Idle, CallIsBound(call)', OutreachRowsStay, UNCHANGED history PROVE Done
  BY <1>2, OutreachGoingOn
<1> HIDE DEF Done
<1>3. ASSUME O!DraftCreate(c) PROVE Done
  <2>1. PICK row : row = O!NewOutreachMessage(calls[c].x, calls[c].p)
    OBVIOUS
  <2>2. PICK today : db' = [db EXCEPT !.messages = Append(db.messages, row), !.today = today]
    BY <1>0, <1>3, <2>1 DEF O!DraftCreate
  <2>3. DOMAIN row = MessageFields /\ row.approval = 0
    BY <2>1 DEF O!NewOutreachMessage, MessageFields
  <2>4. OutreachRowsStay
    <3>1. PICK messages : messages = Append(db.messages, row)
      OBVIOUS
    <3>2. /\ \E T : messages \in Seq(T)
          /\ DOMAIN db.messages \subseteq DOMAIN messages
          /\ \A m \in DOMAIN messages : messages[m] = row \/ (m \in DOMAIN db.messages /\ messages[m] = db.messages[m])
      <4>1. PICK T : db.messages \in Seq(T)
        BY <1>0 DEF OutreachTablesOK
      <4>2. /\ messages \in Seq(T \cup {row})
            /\ DOMAIN db.messages \subseteq DOMAIN messages
            /\ \A m \in DOMAIN messages : messages[m] = row \/ (m \in DOMAIN db.messages /\ messages[m] = db.messages[m])
        BY <3>1, <4>1, Appended
      <4> QED BY <4>2
    <3>3. ASSUME NEW m \in DOMAIN messages
          PROVE  DOMAIN messages[m] = MessageFields /\ messages[m].approval \in {0} \cup DOMAIN db.approvals
      <4>1. CASE messages[m] = row
        BY <2>3, <4>1
      <4>2. CASE m \in DOMAIN db.messages /\ messages[m] = db.messages[m]
        BY <1>0, <4>2 DEF OutreachTablesOK, MessageFields
      <4> QED BY <3>2, <4>1, <4>2
    <3> QED BY <1>0, <2>2, <3>1, <3>2, <3>3, MessagesWritten
  <2>5. PICK todo : O!GoTo(c, [calls[c] EXCEPT !.at = "prospect", !.p = calls[c].p, !.todo = todo])
    BY <1>3, Zenon DEF O!DraftCreate, O!ToProspect
  <2>6. calls[c].at = "draft" /\ UNCHANGED history
    BY <1>3 DEF O!DraftCreate
  <2> DEFINE call == [calls[c] EXCEPT !.at = "prospect", !.p = calls[c].p, !.todo = todo]
  <2>7. DOMAIN call = DOMAIN O!Idle /\ CallIsBound(call)
    BY <1>0, <2>6 DEF CallIsBound, OfMessage
  <2> HIDE DEF call
  <2>8. O!GoTo(c, call)
    BY <2>5 DEF call
  <2> QED BY <1>1, <2>4, <2>6, <2>7, <2>8
<1>4. ASSUME NEW row, DOMAIN row = MessageFields, row.approval \in {0} \cup DOMAIN db.approvals, calls[c].at \in OfMessage,
             db' = [db EXCEPT !.messages = [db.messages EXCEPT ![calls[c].m] = row]], UNCHANGED history,
             NEW p, NEW todo, O!GoTo(c, O!ToProspect(calls[c], p, todo))
      PROVE  Done
  <2>1. calls[c].m \in DOMAIN db.messages
    BY <1>0, <1>4 DEF CallIsBound
  <2>2. OutreachRowsStay
    BY <1>0, <1>4, <2>1, MessageWritten
  <2> DEFINE call == O!ToProspect(calls[c], p, todo)
  <2>3. DOMAIN call = DOMAIN O!Idle /\ CallIsBound(call)
    BY <1>0, <1>4 DEF CallIsBound, OfMessage, O!ToProspect
  <2> HIDE DEF call
  <2>4. O!GoTo(c, call)
    BY <1>4 DEF call
  <2> QED BY <1>1, <1>4, <2>2, <2>3, <2>4
<1>5. ASSUME O!AttachApproval(c) \/ O!ApplyWrite(c) \/ O!ContactWrite(c) PROVE Done
  <2> DEFINE m == calls[c].m
  <2>1. calls[c].at \in OfMessage /\ UNCHANGED history /\ m \in DOMAIN db.messages
    BY <1>0, <1>5 DEF O!AttachApproval, O!ApplyWrite, O!ContactWrite, OfMessage, CallIsBound
  <2>2. PICK p, todo : O!GoTo(c, O!ToProspect(calls[c], p, todo))
    BY <1>5, Zenon DEF O!AttachApproval, O!ApplyWrite, O!ContactWrite
  <2>3. DOMAIN db.messages[m] = MessageFields /\ db.messages[m].approval \in {0} \cup DOMAIN db.approvals
    BY <1>0, <2>1 DEF OutreachTablesOK, MessageFields
  <2>4. CASE O!AttachApproval(c)
    <3> DEFINE row == [db.messages[m] EXCEPT !.status = "AWAITING_HUMAN_APPROVAL", !.approval = calls[c].a]
    <3>1. calls[c].at = "attach" /\ calls[c].a \in DOMAIN db.approvals
      BY <1>0, <2>4 DEF O!AttachApproval, CallIsBound
    <3>2. DOMAIN row = MessageFields /\ row.approval \in {0} \cup DOMAIN db.approvals
      BY <2>3, <3>1 DEF MessageFields
    <3>3. db' = [db EXCEPT !.messages = [db.messages EXCEPT ![m] = row]]
      BY <1>0, <2>1, <2>4 DEF O!AttachApproval
    <3> HIDE DEF row
    <3> QED BY <1>4, <2>1, <2>2, <3>2, <3>3
  <2>5. CASE O!ApplyWrite(c)
    <3> DEFINE row == [db.messages[m] EXCEPT !.status = calls[c].to]
    <3>2. DOMAIN row = MessageFields /\ row.approval \in {0} \cup DOMAIN db.approvals
      BY <2>3 DEF MessageFields
    <3>3. db' = [db EXCEPT !.messages = [db.messages EXCEPT ![m] = row]]
      BY <1>0, <2>1, <2>5 DEF O!ApplyWrite
    <3> HIDE DEF row
    <3> QED BY <1>4, <2>1, <2>2, <3>2, <3>3
  <2>6. CASE O!ContactWrite(c)
    <3> DEFINE row == [db.messages[m] EXCEPT !.status = "CONTACTED", !.contacted = TRUE]
    <3>2. DOMAIN row = MessageFields /\ row.approval \in {0} \cup DOMAIN db.approvals
      BY <2>3 DEF MessageFields
    <3>3. db' = [db EXCEPT !.messages = [db.messages EXCEPT ![m] = row]]
      BY <1>0, <2>1, <2>6 DEF O!ContactWrite
    <3> HIDE DEF row
    <3> QED BY <1>4, <2>1, <2>2, <3>2, <3>3
  <2> QED BY <1>5, <2>4, <2>5, <2>6
<1>6. ASSUME NEW m \in DOMAIN db.messages, O!RequestApproval(c, m) PROVE Done
  <2>1. PICK row : row = O!NewApproval(m)
    OBVIOUS
  <2>2. PICK approvals, n : approvals = Append(db.approvals, row) /\ n = Len(db.approvals) + 1
    OBVIOUS
  <2>3. db' = [db EXCEPT !.approvals = approvals] /\ UNCHANGED history
    BY <1>0, <1>6, <2>1, <2>2 DEF O!RequestApproval
  <2>4. DOMAIN row = RequestFields /\ row.message = m
    BY <2>1 DEF O!NewApproval, RequestFields
  <2>5. /\ \E T : approvals \in Seq(T)
        /\ DOMAIN db.approvals \subseteq DOMAIN approvals /\ n \in DOMAIN approvals
        /\ \A a \in DOMAIN approvals : approvals[a] = row \/ (a \in DOMAIN db.approvals /\ approvals[a] = db.approvals[a])
        /\ \A a \in DOMAIN db.approvals : approvals[a] = db.approvals[a]
    <3>1. PICK T : db.approvals \in Seq(T)
      BY <1>0 DEF OutreachTablesOK
    <3>2. /\ approvals \in Seq(T \cup {row})
          /\ DOMAIN db.approvals \subseteq DOMAIN approvals /\ n \in DOMAIN approvals
          /\ \A a \in DOMAIN approvals : approvals[a] = row \/ (a \in DOMAIN db.approvals /\ approvals[a] = db.approvals[a])
          /\ \A a \in DOMAIN db.approvals : approvals[a] = db.approvals[a]
      BY <2>2, <3>1, Appended
    <3> QED BY <3>2
  <2>6. ASSUME NEW a \in DOMAIN approvals
        PROVE  DOMAIN approvals[a] = RequestFields /\ approvals[a].message \in DOMAIN db.messages
    <3>1. CASE approvals[a] = row
      BY <2>4, <3>1
    <3>2. CASE a \in DOMAIN db.approvals /\ approvals[a] = db.approvals[a]
      BY <1>0, <3>2 DEF OutreachTablesOK, RequestFields
    <3> QED BY <2>5, <3>1, <3>2
  <2>7. OutreachRowsStay
    BY <1>0, <2>3, <2>5, <2>6, RequestsWritten
  <2>8. PICK call : call = [O!Idle EXCEPT !.at = "attach", !.m = m, !.a = n]
    OBVIOUS
  <2>9. DOMAIN call = DOMAIN O!Idle /\ call.at = "attach" /\ call.m = m /\ call.a = n
    BY <2>8 DEF O!Idle
  <2>10. db'.approvals = approvals /\ db'.messages = db.messages
    BY <1>0, <2>3
  <2>11. CallIsBound(call)'
    BY <1>0, <2>5, <2>9, <2>10 DEF CallIsBound, OfMessage
  <2>12. O!GoTo(c, call)
    BY <1>6, <2>2, <2>8 DEF O!RequestApproval
  <2> QED BY <1>2, <2>3, <2>7, <2>9, <2>11, <2>12
<1>7. ASSUME NEW a \in DOMAIN db.approvals, NEW verdict \in {"APPROVED", "REJECTED"}, O!Decide(c, a, verdict) PROVE Done
  <2>1. PICK row : row = [db.approvals[a] EXCEPT !.status = verdict]
    OBVIOUS
  <2>2. db' = [db EXCEPT !.approvals = [db.approvals EXCEPT ![a] = row]] /\ UNCHANGED history /\ db.approvals[a].status = "PENDING"
    BY <1>0, <1>7, <2>1 DEF O!Decide
  <2>3. DOMAIN row = RequestFields /\ row.message = db.approvals[a].message
    BY <1>0, <2>1 DEF OutreachTablesOK, RequestFields
  <2>4. OutreachRowsStay
    BY <1>0, <2>2, <2>3, RequestWritten
  <2>5. PICK call : call \in {O!Idle, [O!Idle EXCEPT !.at = "apply", !.a = a, !.auto = TRUE]} /\ O!GoTo(c, call)
    BY <1>7, Zenon DEF O!Decide, O!Return
  <2>6. DOMAIN call = DOMAIN O!Idle /\ CallIsBound(call)
    BY <2>5 DEF O!Idle, CallIsBound, OfMessage
  <2> QED BY <1>1, <2>2, <2>4, <2>5, <2>6
<1> QED BY <1>3, <1>5, <1>6, <1>7 DEF Done

-----------------------------------------------------------------------------
LEMMA OutreachInitInv == O!OutreachInit => OutreachInv
<1> SUFFICES ASSUME O!OutreachInit PROVE OutreachInv
  OBVIOUS
<1> USE OutreachIdle
<1>1. DOMAIN db = {"prospects", "experiments", "messages", "today", "approvals", "deliveries", "responses", "halted"}
      /\ db.messages = <<>> /\ db.approvals = <<>>
  BY DEF O!OutreachInit
<1>2. OutreachTablesOK
  <2>1. db.messages \in Seq({}) /\ db.approvals \in Seq({})
    BY <1>1
  <2> QED BY <1>1, <2>1 DEF OutreachTablesOK
<1>3. OutreachCallsOK
  BY DEF O!OutreachInit, OutreachCallsOK
<1>4. SentOK
  BY DEF O!OutreachInit, SentOK
<1> QED BY <1>2, <1>3, <1>4 DEF OutreachInv

LEMMA OutreachAround ==
  ASSUME OutreachInv,
         \/ \E x \in Experiments : O!CreateExperiment(x)
         \/ \E a \in DOMAIN db.approvals : O!Lapse(a)
         \/ O!NewDay \/ O!NewMinute \/ O!Halt \/ O!Restart
  PROVE  OutreachInv'
<1> USE OutreachIdle
<1> DEFINE Done == OutreachInv'
<1>0. OutreachTablesOK /\ DOMAIN db = {"prospects", "experiments", "messages", "today", "approvals", "deliveries", "responses", "halted"}
  BY DEF OutreachInv, OutreachTablesOK
<1>1. ASSUME OutreachElsewhere, UNCHANGED <<calls, history>> PROVE Done
  BY <1>1, ElsewhereStays, OutreachGoingOn
<1> HIDE DEF Done
<1>2. ASSUME NEW x \in Experiments, O!CreateExperiment(x) PROVE Done
  <2> DEFINE v == [db.experiments EXCEPT ![x] = "PENDING_APPROVAL"]
  <2>1. db' = [db EXCEPT !.experiments = v] /\ UNCHANGED <<calls, history>>
    BY <1>0, <1>2 DEF O!CreateExperiment
  <2> HIDE DEF v
  <2> QED BY <1>1, <2>1 DEF OutreachElsewhere
<1>3. ASSUME NEW a \in DOMAIN db.approvals, O!Lapse(a) PROVE Done
  <2>1. PICK row : row = [db.approvals[a] EXCEPT !.lapsed = TRUE]
    OBVIOUS
  <2>2. db' = [db EXCEPT !.approvals = [db.approvals EXCEPT ![a] = row]] /\ UNCHANGED <<calls, history>>
    BY <1>0, <1>3, <2>1 DEF O!Lapse
  <2>3. DOMAIN row = RequestFields /\ row.message = db.approvals[a].message /\ row.status = db.approvals[a].status
    BY <1>0, <2>1 DEF OutreachTablesOK, RequestFields
  <2>4. OutreachRowsStay
    BY <1>0, <2>2, <2>3, RequestWritten
  <2> QED BY <2>2, <2>4, OutreachGoingOn DEF Done
<1>4. ASSUME O!NewDay PROVE Done
  <2>1. OutreachElsewhere
    BY <1>4, Zenon DEF O!NewDay, OutreachElsewhere
  <2> QED BY <1>1, <1>4, <2>1 DEF O!NewDay
<1>5. ASSUME O!NewMinute PROVE Done
  BY <1>1, <1>5 DEF O!NewMinute, OutreachElsewhere
<1>6. ASSUME O!Halt PROVE Done
  <2>1. OutreachElsewhere
    BY <1>6, Zenon DEF O!Halt, OutreachElsewhere
  <2> QED BY <1>1, <1>6, <2>1 DEF O!Halt
<1>7. ASSUME O!Restart PROVE Done
  <2>1. calls' = [c \in Calls |-> O!Idle] /\ UNCHANGED <<db, history>>
    BY <1>7 DEF O!Restart
  <2>2. OutreachTablesOK' /\ OutreachCallsOK' /\ SentOK'
    BY <2>1 DEF OutreachInv, OutreachTablesOK, OutreachCallsOK, SentOK, ApprovedToContact, CallIsBound
  <2> QED BY <2>2 DEF OutreachInv, Done
<1> QED BY <1>2, <1>3, <1>4, <1>5, <1>6, <1>7 DEF Done

LEMMA OutreachNextInv == OutreachInv /\ [O!OutreachNext]_(O!vars) => OutreachInv'
<1> SUFFICES ASSUME OutreachInv, [O!OutreachNext]_(O!vars) PROVE OutreachInv'
  OBVIOUS
<1>1. CASE UNCHANGED O!vars
  BY <1>1, ElsewhereStays, OutreachGoingOn DEF O!vars, OutreachElsewhere
<1>2. ASSUME NEW c \in Calls, O!SetStatusStep(c) \/ O!DiscoveryStep(c) \/ O!ExperimentStep(c) PROVE OutreachInv'
  <2>1. CASE O!SetStatusStep(c)
    BY <2>1, OutreachStepsAside
  <2>2. CASE O!DiscoveryStep(c)
    BY <2>2, OutreachStepsAside DEF O!DiscoveryStep
  <2>3. CASE O!ExperimentStep(c)
    BY <2>3, OutreachStepsAside DEF O!ExperimentStep
  <2> QED BY <1>2, <2>1, <2>2, <2>3
<1>3. ASSUME NEW c \in Calls, O!MessageStep(c) PROVE OutreachInv'
  <2>1. ASSUME (\E x, p : O!Draft(c, x, p)) \/ O!ModelFails(c) PROVE OutreachInv'
    BY <2>1, OutreachStepsAside
  <2>2. ASSUME \/ O!DraftCreate(c) \/ O!AttachApproval(c) \/ O!ApplyWrite(c) \/ O!ContactWrite(c)
               \/ \E m \in DOMAIN db.messages : O!RequestApproval(c, m)
               \/ \E a \in DOMAIN db.approvals, verdict \in {"APPROVED", "REJECTED"} : O!Decide(c, a, verdict)
        PROVE  OutreachInv'
    BY <2>2, StepsThatWriteRows
  <2>3. ASSUME \/ \E a \in DOMAIN db.approvals : O!ApplyDecision(c, a)
               \/ O!ApplyRead(c) \/ O!ContactRead(c)
               \/ \E m \in DOMAIN db.messages : O!MarkContacted(c, m)
        PROVE  OutreachInv'
    BY <2>3, StepsOfMessages
  <2> QED BY <1>3, <2>1, <2>2, <2>3, ZenonT(60) DEF O!MessageStep
<1>4. ASSUME NEW c \in Calls, O!SendStep(c) PROVE OutreachInv'
  BY <1>4, StepsOfMessages, SendProviderInv DEF O!SendStep
<1>5. ASSUME NEW c \in Calls, O!ResponseStep(c) PROVE OutreachInv'
  BY <1>5, OutreachStepsAside, StepsOfMessages DEF O!ResponseStep
<1>6. CASE O!OutreachNext
  BY <1>2, <1>3, <1>4, <1>5, <1>6, OutreachAround DEF O!OutreachNext, O!Step
<1> QED BY <1>1, <1>6

LEMMA OutreachInvImplies == OutreachInv => O!SentMessagesWereApproved
<1> SUFFICES ASSUME OutreachInv, NEW m \in Messages, history.times[m] > 0
             PROVE  LET a == history.under[m] IN a # 0 /\ db.approvals[a].message = m /\ db.approvals[a].status = "APPROVED"
  BY DEF O!SentMessagesWereApproved
<1>1. ApprovedToContact(history.under[m], m)
  BY DEF OutreachInv, SentOK
<1>2. 0 \notin DOMAIN db.approvals
  BY DEF OutreachInv, OutreachTablesOK
<1> QED BY <1>1, <1>2 DEF ApprovedToContact

-----------------------------------------------------------------------------
(* The product factory.                                                    *)

ProductStatus == DOMAIN F!PRODUCT_STATUS_TRANSITIONS
EarlyStatuses == {"none", "PROPOSED", "APPROVED"}
Attempts == 0 .. MAX_TASK_ATTEMPTS
WorkspaceFile == {"store", "storeTest", "routes", "routesTest", "index"}

FactoryCall ==
  [at : {"idle", "approve", "status", "statusWrite", "specify", "design", "ux", "provision", "scaffold", "decompose", "engineer",
         "engineering", "typecheck", "complete", "review", "qa", "integrate", "secure", "estimate", "recommend", "chair", "memo", "decide"},
   to : ProductStatus \cup DOMAIN F!DecisionStatus, spec : Nat, arch : Nat, i : {1, 2}, n : Attempts, rec : Nat, chair : Nat,
   files : SUBSET WorkspaceFile]
Product == [status : ProductStatus, workspace : BOOLEAN, costed : BOOLEAN]
Feature == [claim : F!ClaimsOfOpportunity, priority : {"EXPERIMENT_ONLY", "BUILD_NOW", "BUILD_LATER", "DEFER"}]
Thesis == [grounds : SUBSET F!ClaimsOfOpportunity, features : SUBSET Feature]
Architecture == [spec : Nat, entities : Nat, ux : BOOLEAN]
EngineeringTask ==
  [arch : Nat, owns : SUBSET WorkspaceFile, after : Nat, status : DOMAIN F!ENGINEERING_TASK_STATUS_TRANSITIONS, attempts : Attempts,
   files : SUBSET WorkspaceFile, codeReview : {"none", "BLOCKING", "clean"}, qa : {"none", "PASS", "PASS_WITH_GAPS", "FAIL"},
   security : {"none", "PASS", "PASS_WITH_WARNINGS", "FAIL"}, tested : {"none", "passed", "failed"}]
Recommendation == [action : {"STOP", "CUT_SCOPE", "REQUEST_HUMAN_REVIEW", "BUILD"}, cited : SUBSET F!ClaimsOfOpportunity]
Review == {"REJECT", "REQUEST_CHANGES", "REQUEST_MORE_EVIDENCE", "APPROVE"}
Counts == [tasks : Nat, completed : Nat, blocking : Nat, qa : Nat, security : Nat]
ReviewMemo == [arch : Nat, rec : Nat, chair : Nat, counts : Counts, human : DOMAIN F!DecisionStatus \cup {"none"}]
FactoryTables ==
  [product : Product, specs : Seq(Thesis), archs : Seq(Architecture), tasks : Seq(EngineeringTask), recs : Seq(Recommendation), chairs : Seq(Review),
   memos : Seq(ReviewMemo)]

FactoryTypes ==
  /\ use \in F!Use
  /\ db \in FactoryTables
  /\ calls \in [Calls -> FactoryCall]

(* The stage a call is in, or goes to when its status has been written.    *)
FactoryPlace(call) == IF call.at \in {"status", "statusWrite"} /\ call.n > 0 /\ call.to \in DOMAIN F!Stage THEN F!Stage[call.to] ELSE call.at
Engineering == {"engineer", "engineering", "typecheck", "complete"}
Scanned == {"secure", "estimate", "recommend", "chair", "memo"}
Reviewing == {"review", "qa", "integrate"} \cup Scanned
Later == {"provision", "scaffold", "decompose"} \cup Engineering \cup Reviewing

TaskPair(arch) == \E t \in DOMAIN db.tasks : F!TasksOf(arch) = {t, t + 1}
AnApproval == \E v \in history : v.verdict = "APPROVE"

(* An architecture that is being built: no memo is about it yet.           *)
Unreported(arch) == arch \in DOMAIN db.archs /\ \A m \in DOMAIN db.memos : db.memos[m].arch # arch
Tasked(call) ==
  /\ F!TasksOf(call.arch) # {}
  /\ call.i = 2 => \A t \in F!TasksOf(call.arch) : t + 1 \in F!TasksOf(call.arch) => db.tasks[t].status = "COMPLETED"
  /\ \A t \in F!TasksOf(call.arch) : db.tasks[t].status # "COMPLETED" => db.tasks[t].attempts < MAX_TASK_ATTEMPTS
  /\ call.at \in {"engineering", "typecheck", "complete"} => \A t \in F!TasksOf(call.arch) : t = F!TheTask(call) => db.tasks[t].status = "IN_PROGRESS"
Implemented(arch) == F!TasksOf(arch) # {} /\ \A t \in F!TasksOf(arch) : db.tasks[t].status = "COMPLETED"
Tested(arch) == \A t \in F!TasksOf(arch) : db.tasks[t].tested # "none"

FactoryCallOK(call) ==
  /\ call.arch \in {0} \cup DOMAIN db.archs
  /\ FactoryPlace(call) = "design" => call.spec \in DOMAIN db.specs
  /\ FactoryPlace(call) \in {"ux"} \cup Later => Unreported(call.arch)
  /\ FactoryPlace(call) \in Later => db.archs[call.arch].ux
  /\ FactoryPlace(call) \in {"provision", "scaffold", "decompose"} => call.i = 1
  /\ FactoryPlace(call) \in Engineering => Tasked(call)
  /\ FactoryPlace(call) \in Reviewing => Implemented(call.arch)
  /\ FactoryPlace(call) \in Scanned => Tested(call.arch)
  /\ call.at \in {"chair", "memo"} => call.rec \in DOMAIN db.recs
  /\ call.at = "memo" => call.chair \in DOMAIN db.chairs
  /\ call.at = "decide" => call.rec \in DOMAIN db.memos /\ call.to \in DOMAIN F!DecisionStatus
  /\ call.at \in {"status", "statusWrite"} => call.to \in ProductStatus \ EarlyStatuses /\ (call.to = "READY_FOR_DEPLOYMENT" => AnApproval)

Unshared == \A c, d \in Calls : calls[c].arch = calls[d].arch /\ calls[c].arch # 0 => c = d

MemoOK(m) ==
  /\ m.arch \in DOMAIN db.archs /\ db.archs[m.arch].ux
  /\ Implemented(m.arch) /\ Tested(m.arch)
  /\ \A t \in F!TasksOf(m.arch) :
       /\ db.tasks[t].codeReview = "BLOCKING" => m.counts.blocking > 0
       /\ db.tasks[t].qa = "FAIL" => m.counts.qa > 0
       /\ db.tasks[t].security = "FAIL" => m.counts.security > 0
  /\ m.rec \in DOMAIN db.recs /\ m.chair \in DOMAIN db.chairs

FactoryRowsOK ==
  /\ \A s \in DOMAIN db.specs : db.specs[s].grounds # {}
  /\ \A a \in DOMAIN db.archs : db.archs[a].spec \in DOMAIN db.specs
  /\ \A t \in DOMAIN db.tasks : db.tasks[t].arch \in DOMAIN db.archs
  /\ \A a \in DOMAIN db.archs : F!TasksOf(a) = {} \/ TaskPair(a)
  /\ \A m \in DOMAIN db.memos : MemoOK(db.memos[m])
  /\ \A v \in history : v.memo \in DOMAIN db.memos
  /\ db.product.status = "READY_FOR_DEPLOYMENT" => AnApproval

(* Nothing has been scanned.                                               *)
NothingScanned == db.memos = <<>> /\ \A t \in DOMAIN db.tasks : db.tasks[t].security = "none"
BuildStarted == db.product.status \notin EarlyStatuses
Before == {"specify", "design", "ux", "provision", "scaffold", "decompose"} \cup Engineering \cup {"review", "qa", "integrate"}

FactorySerialCallOK(call) ==
  /\ call.at = "approve" \/ FactoryPlace(call) \in Before => NothingScanned
  /\ call.at \in Scanned => BuildStarted
FactorySerialRowsOK ==
  /\ ~BuildStarted => NothingScanned
  /\ \A t \in DOMAIN db.tasks : db.tasks[t].security # "none" /\ F!Flawed(t) => db.tasks[t].security = "FAIL"

FactoryInv ==
  /\ FactoryTypes
  /\ \A c \in Calls : FactoryCallOK(calls[c])
  /\ Unshared
  /\ FactoryRowsOK
  /\ use.load = 1 => OneInFlight /\ FactorySerialRowsOK /\ \A c \in Calls : FactorySerialCallOK(calls[c])

-----------------------------------------------------------------------------
LEMMA FactoryStageFacts ==
  /\ DOMAIN F!Stage = {"SPECIFYING", "ARCHITECTING", "BUILDING", "REVIEWING", "TESTING", "SECURITY_REVIEW"}
  /\ F!Stage["SPECIFYING"] = "specify" /\ F!Stage["ARCHITECTING"] = "design" /\ F!Stage["BUILDING"] = "provision"
  /\ F!Stage["REVIEWING"] = "review" /\ F!Stage["TESTING"] = "qa" /\ F!Stage["SECURITY_REVIEW"] = "secure"
BY DEF F!Stage

LEMMA FactoryIdle ==
  ASSUME F!FactoryConstants
  PROVE  /\ F!Idle \in FactoryCall /\ F!Idle.at = "idle" /\ F!Idle.arch = 0 /\ F!Idle.n = 1 /\ FactoryPlace(F!Idle) = "idle"
         /\ FactoryCallOK(F!Idle) /\ FactorySerialCallOK(F!Idle)
<1>1. F!Idle.at = "idle" /\ F!Idle.arch = 0 /\ F!Idle.n = 1 /\ FactoryPlace(F!Idle) = "idle"
  BY DEF F!Idle, FactoryPlace
<1>2. F!Idle \in FactoryCall
  BY DEF F!FactoryConstants, F!Idle, FactoryCall, Attempts, ProductStatus, F!PRODUCT_STATUS_TRANSITIONS
<1>3. FactoryCallOK(F!Idle) /\ FactorySerialCallOK(F!Idle)
  BY <1>1 DEF FactoryCallOK, FactorySerialCallOK, Later, Engineering, Reviewing, Scanned, Before
<1> QED BY <1>1, <1>2, <1>3

LEMMA SetToFacts ==
  ASSUME NEW call \in FactoryCall, NEW s \in ProductStatus
  PROVE  LET next == F!SetTo(call, s)
         IN  /\ next \in FactoryCall /\ next.at = "status" /\ next.to = s /\ next.i = 1
             /\ next.arch = call.arch /\ next.spec = call.spec /\ next.rec = call.rec /\ next.n = call.n
             /\ FactoryPlace(next) = IF call.n > 0 /\ s \in DOMAIN F!Stage THEN F!Stage[s] ELSE "status"
<1> DEFINE next == F!SetTo(call, s)
<1>1. next \in FactoryCall
  BY DEF F!SetTo, FactoryCall
<1>2. /\ next.at = "status" /\ next.to = s /\ next.i = 1
      /\ next.arch = call.arch /\ next.spec = call.spec /\ next.rec = call.rec /\ next.n = call.n
  BY DEF F!SetTo, FactoryCall
<1> HIDE DEF next
<1>3. FactoryPlace(next) = IF call.n > 0 /\ s \in DOMAIN F!Stage THEN F!Stage[s] ELSE "status"
  BY <1>2 DEF FactoryPlace
<1> QED BY <1>1, <1>2, <1>3 DEF next

LEMMA FactoryBeginFacts ==
  ASSUME F!FactoryConstants, FactoryTypes, NEW c \in Calls, NEW op, F!May(op, c)
  PROVE  calls[c].at = "idle" /\ (use.load = 1 => \A d \in Calls : calls[d].at = "idle")
<1> DEFINE busy == {d \in Calls : calls[d].at # "idle"}
<1>1. IsFiniteSet(busy)
  BY FactoryCounts, FS_Subset DEF F!FactoryConstants
<1>2. Cardinality(busy) < use.load /\ calls[c].at = "idle"
  BY FactoryCounts DEF F!May
<1>3. Cardinality(busy) \in Nat
  BY <1>1, FS_CardinalityType
<1>4. use.load = 1 => Cardinality(busy) = 0
  BY <1>2, <1>3
<1>5. Cardinality(busy) = 0 => busy = {}
  BY <1>1, FS_EmptySet
<1> QED BY <1>2, <1>4, <1>5

(* The task a call is at is the first or the second of its architecture.   *)
LEMMA TaskFacts ==
  ASSUME FactoryTypes, NEW call \in FactoryCall, TaskPair(call.arch)
  PROVE  /\ F!TheTask(call) \in F!TasksOf(call.arch) /\ F!TheTask(call) \in DOMAIN db.tasks /\ Cardinality(F!TasksOf(call.arch)) = 2
         /\ call.i = 1 => F!TasksOf(call.arch) = {F!TheTask(call), F!TheTask(call) + 1}
         /\ call.i = 2 => \E t \in DOMAIN db.tasks : t + 1 = F!TheTask(call) /\ F!TasksOf(call.arch) = {t, t + 1}
<1> DEFINE S == F!TasksOf(call.arch)
           Upto(t) == {u \in S : u <= t}
<1>1. PICK t \in DOMAIN db.tasks : S = {t, t + 1}
  BY DEF TaskPair
<1>2. t \in Nat /\ S \subseteq DOMAIN db.tasks
  BY DEF FactoryTypes, FactoryTables, F!TasksOf
<1>3. Upto(t) = {t} /\ Upto(t + 1) = {t, t + 1}
  BY <1>1, <1>2
<1>4. Cardinality({t}) = 1 /\ IsFiniteSet({t})
  BY FS_Singleton
<1>5. {t, t + 1} = {t} \cup {t + 1} /\ t + 1 \notin {t}
  BY <1>2
<1>6. Cardinality({t, t + 1}) = 2
  <2>1. Cardinality({t} \cup {t + 1}) = Cardinality({t}) + 1
    BY <1>4, <1>5, FS_AddElement
  <2> QED BY <1>4, <1>5, <2>1
<1>7. call.i \in {1, 2}
  BY DEF FactoryCall
<1>8. F!TheTask(call) = CHOOSE u \in S : Cardinality(Upto(u)) = call.i
  BY FactoryCounts DEF F!TheTask
<1> HIDE DEF Upto, S
<1>9. CASE call.i = 1
  <2>1. \A u \in S : Cardinality(Upto(u)) = 1 <=> u = t
    <3>1. Cardinality(Upto(t)) = 1 /\ Cardinality(Upto(t + 1)) = 2
      BY <1>3, <1>4, <1>6
    <3>2. 1 # 2 /\ t # t + 1
      BY <1>2
    <3> QED BY <1>1, <3>1, <3>2, Zenon
  <2>2. F!TheTask(call) = t
    BY <1>1, <1>8, <1>9, <2>1
  <2> QED BY <1>1, <1>2, <1>6, <1>9, <2>2 DEF S
<1>10. CASE call.i = 2
  <2>1. \A u \in S : Cardinality(Upto(u)) = 2 <=> u = t + 1
    <3>1. Cardinality(Upto(t)) = 1 /\ Cardinality(Upto(t + 1)) = 2
      BY <1>3, <1>4, <1>6
    <3>2. 1 # 2 /\ t # t + 1
      BY <1>2
    <3> QED BY <1>1, <3>1, <3>2, Zenon
  <2>2. F!TheTask(call) = t + 1
    BY <1>1, <1>8, <1>10, <2>1
  <2> QED BY <1>1, <1>2, <1>6, <1>10, <2>2 DEF S
<1> QED BY <1>7, <1>9, <1>10

-----------------------------------------------------------------------------
(* What a step leaves of the rows, and of an architecture it is not about. *)

FactoryGrown ==
  /\ DOMAIN db.specs \subseteq DOMAIN db'.specs
  /\ DOMAIN db.archs \subseteq DOMAIN db'.archs
  /\ DOMAIN db.recs \subseteq DOMAIN db'.recs
  /\ DOMAIN db.chairs \subseteq DOMAIN db'.chairs
  /\ DOMAIN db.memos \subseteq DOMAIN db'.memos
  /\ AnApproval => AnApproval'
ArchStays(arch) ==
  /\ db'.archs[arch] = db.archs[arch]
  /\ F!TasksOf(arch)' = F!TasksOf(arch)
  /\ \A t \in F!TasksOf(arch) : db'.tasks[t] = db.tasks[t]
  /\ (\A m \in DOMAIN db.memos : db.memos[m].arch # arch) => \A m \in DOMAIN db'.memos : db'.memos[m].arch # arch

LEMMA CallStays ==
  ASSUME NEW call, FactoryCallOK(call), FactoryGrown, call.arch # 0 => ArchStays(call.arch), 0 \notin DOMAIN db.archs
  PROVE  FactoryCallOK(call)'
<1>1. call.arch \in {0} \cup DOMAIN db'.archs
  BY DEF FactoryCallOK, FactoryGrown
<1>2. Unreported(call.arch) => Unreported(call.arch)' /\ db'.archs[call.arch] = db.archs[call.arch]
  BY DEF Unreported, ArchStays, FactoryGrown
<1>3. ASSUME Unreported(call.arch)
      PROVE  /\ Tasked(call) => Tasked(call)'
             /\ Implemented(call.arch) => Implemented(call.arch)'
             /\ Tested(call.arch) => Tested(call.arch)'
  <2>1. call.arch # 0 /\ ArchStays(call.arch)
    BY <1>3 DEF Unreported
  <2>2. F!TasksOf(call.arch)' = F!TasksOf(call.arch) /\ \A t \in F!TasksOf(call.arch) : db'.tasks[t] = db.tasks[t]
    BY <2>1 DEF ArchStays
  <2>3. F!TheTask(call)' = F!TheTask(call)
    BY <2>2 DEF F!TheTask
  <2> QED BY <2>2, <2>3 DEF Tasked, Implemented, Tested
<1>4. FactoryPlace(call) \in Later => Unreported(call.arch)
  BY DEF FactoryCallOK
<1>5. FactoryPlace(call)' = FactoryPlace(call)
  BY DEF FactoryPlace
<1> QED BY <1>1, <1>2, <1>3, <1>4, <1>5 DEF FactoryCallOK, FactoryGrown, Later, Reviewing

LEMMA FactoryRows ==
  ASSUME FactoryTypes
  PROVE  /\ db.product \in Product
         /\ \A s \in DOMAIN db.specs : s \in Nat \ {0} /\ db.specs[s] \in Thesis
         /\ \A a \in DOMAIN db.archs : a \in Nat \ {0} /\ db.archs[a] \in Architecture
         /\ \A t \in DOMAIN db.tasks : t \in Nat \ {0} /\ db.tasks[t] \in EngineeringTask
         /\ \A r \in DOMAIN db.recs : r \in Nat /\ db.recs[r] \in Recommendation
         /\ \A m \in DOMAIN db.memos : m \in Nat /\ db.memos[m] \in ReviewMemo
         /\ Len(db.archs) + 1 \notin DOMAIN db.archs /\ Len(db.archs) \in Nat
<1>1. /\ db.product \in Product /\ db.specs \in Seq(Thesis) /\ db.archs \in Seq(Architecture) /\ db.tasks \in Seq(EngineeringTask)
      /\ db.recs \in Seq(Recommendation) /\ db.memos \in Seq(ReviewMemo)
  BY DEF FactoryTypes, FactoryTables
<1> QED BY <1>1

LEMMA FactoryCallStep ==
  ASSUME FactoryInv, NEW c \in Calls, NEW next \in FactoryCall, F!GoTo(c, next), FactoryGrown, use'.load = use.load,
         calls[c].at # "idle" \/ (use.load = 1 => \A d \in Calls : calls[d].at = "idle"),
         \A a \in DOMAIN db.archs : a # calls[c].arch => ArchStays(a),
         next.arch \in {0, calls[c].arch, Len(db.archs) + 1},
         FactoryCallOK(next)', use.load = 1 => FactorySerialCallOK(next)'
  PROVE  /\ calls' \in [Calls -> FactoryCall] /\ (\A d \in Calls : FactoryCallOK(calls[d])') /\ Unshared'
         /\ use'.load = 1 => OneInFlight' /\ \A d \in Calls : FactorySerialCallOK(calls[d])'
<1>1. /\ calls' \in [Calls -> FactoryCall] /\ calls'[c] = next
      /\ \A d \in Calls \ {c} : calls'[d] = calls[d]
  BY DEF F!GoTo, FactoryInv, FactoryTypes
<1>2. \A d \in Calls : calls[d].arch \in {0} \cup DOMAIN db.archs
  BY DEF FactoryInv, FactoryCallOK
<1>3. 0 \notin DOMAIN db.archs /\ Len(db.archs) + 1 \notin DOMAIN db.archs
  BY FactoryRows DEF FactoryInv
<1>4. ASSUME NEW d \in Calls \ {c} PROVE FactoryCallOK(calls[d])'
  <2>1. PICK call \in FactoryCall : call = calls[d]
    BY DEF FactoryInv, FactoryTypes
  <2>2. FactoryCallOK(call)
    BY <2>1 DEF FactoryInv
  <2>3. call.arch # 0 => call.arch # calls[c].arch
    BY <2>1 DEF FactoryInv, Unshared
  <2>4. FactoryCallOK(call)'
    BY <1>2, <1>3, <2>1, <2>2, <2>3, CallStays
  <2>5. calls'[d] = call
    BY <1>1, <2>1
  <2> QED BY <2>4, <2>5
<1>5. FactoryCallOK(calls[c])'
  BY <1>1
<1>6. Unshared'
  BY <1>1, <1>2, <1>3 DEF Unshared, FactoryInv
<1>7. ASSUME use.load = 1 PROVE OneInFlight' /\ \A d \in Calls : FactorySerialCallOK(calls[d])'
  <2>1. \A d \in Calls \ {c} : calls[d].at = "idle"
    BY <1>7 DEF FactoryInv, OneInFlight
  <2>2. OneInFlight'
    BY <1>1, <2>1 DEF OneInFlight
  <2>3. \A d \in Calls \ {c} : FactorySerialCallOK(calls[d])'
    BY <1>1, <2>1 DEF FactorySerialCallOK, FactoryPlace, Before, Scanned, Engineering
  <2>4. FactorySerialCallOK(calls[c])'
    BY <1>1, <1>7
  <2> QED BY <2>2, <2>3, <2>4
<1> QED BY <1>1, <1>4, <1>5, <1>6, <1>7

(* A step that writes at most the product's row.                           *)
LEMMA FactoryGoOn ==
  ASSUME FactoryInv, NEW c \in Calls, NEW next \in FactoryCall, F!GoTo(c, next), UNCHANGED history,
         NEW p \in Product, db' = [db EXCEPT !.product = p],
         use' \in F!Use, use'.load = use.load,
         calls[c].at # "idle" \/ (use.load = 1 => \A d \in Calls : calls[d].at = "idle"),
         next.arch \in {0, calls[c].arch}, FactoryCallOK(next),
         p.status = "READY_FOR_DEPLOYMENT" => AnApproval,
         use.load = 1 =>
           /\ p.status \in EarlyStatuses => NothingScanned
           /\ next.at = "approve" \/ FactoryPlace(next) \in Before => NothingScanned
           /\ next.at \in Scanned => p.status \notin EarlyStatuses
           /\ memory' = memory \/ NothingScanned
  PROVE  FactoryInv'
<1>1. /\ db' \in FactoryTables /\ db'.product = p /\ db'.specs = db.specs /\ db'.archs = db.archs /\ db'.tasks = db.tasks
      /\ db'.recs = db.recs /\ db'.chairs = db.chairs /\ db'.memos = db.memos
  BY DEF FactoryInv, FactoryTypes, FactoryTables
<1>2. \A a : F!TasksOf(a)' = F!TasksOf(a)
  BY <1>1 DEF F!TasksOf
<1>3. FactoryGrown /\ \A a : ArchStays(a)
  BY <1>1, <1>2 DEF FactoryGrown, ArchStays, AnApproval
<1>4. FactoryCallOK(next)'
  BY <1>3, CallStays, FactoryRows DEF FactoryInv
<1>5. NothingScanned => NothingScanned'
  BY <1>1 DEF NothingScanned
<1>6. ASSUME use.load = 1 PROVE FactorySerialRowsOK' /\ FactorySerialCallOK(next)'
  <2>1. FactorySerialCallOK(next)'
    BY <1>1, <1>5, <1>6 DEF FactorySerialCallOK, BuildStarted, FactoryPlace
  <2>2. BuildStarted' \/ NothingScanned'
    BY <1>1, <1>5, <1>6 DEF BuildStarted
  <2>3. \A t \in DOMAIN db'.tasks : db'.tasks[t].security # "none" /\ F!Flawed(t)' => db'.tasks[t].security = "FAIL"
    <3>1. CASE NothingScanned
      BY <1>1, <3>1 DEF NothingScanned
    <3>2. CASE memory' = memory
      <4>1. \A t \in DOMAIN db.tasks : db.tasks[t].security # "none" /\ F!Flawed(t) => db.tasks[t].security = "FAIL"
        BY <1>6 DEF FactoryInv, FactorySerialRowsOK
      <4> QED BY <1>1, <3>2, <4>1 DEF F!Flawed
    <3> QED BY <1>6, <3>1, <3>2
  <2>4. FactorySerialRowsOK'
    BY <2>2, <2>3 DEF FactorySerialRowsOK
  <2> QED BY <2>1, <2>4
<1>7. FactoryRowsOK'
  <2>1. \A m \in DOMAIN db.memos : MemoOK(db.memos[m])'
    BY <1>1, <1>2 DEF FactoryInv, FactoryRowsOK, MemoOK, Implemented, Tested
  <2>2. \A a : TaskPair(a) => TaskPair(a)'
    BY <1>1, <1>2 DEF TaskPair
  <2>3. AnApproval' = AnApproval
    BY DEF AnApproval
  <2> QED BY <1>1, <1>2, <2>1, <2>2, <2>3 DEF FactoryRowsOK, FactoryInv
<1>8. /\ calls' \in [Calls -> FactoryCall] /\ (\A d \in Calls : FactoryCallOK(calls[d])') /\ Unshared'
      /\ use'.load = 1 => OneInFlight' /\ \A d \in Calls : FactorySerialCallOK(calls[d])'
  BY <1>3, <1>4, <1>6, FactoryCallStep
<1> QED BY <1>1, <1>6, <1>7, <1>8 DEF FactoryInv, FactoryTypes

LEMMA FactoryPassOn ==
  ASSUME FactoryInv, NEW c \in Calls, NEW next \in FactoryCall, F!GoTo(c, next), UNCHANGED <<db, history>>,
         use' \in F!Use, use'.load = use.load,
         calls[c].at # "idle" \/ (use.load = 1 => \A d \in Calls : calls[d].at = "idle"),
         next.arch \in {0, calls[c].arch}, FactoryCallOK(next),
         use.load = 1 => FactorySerialCallOK(next) /\ (memory' = memory \/ NothingScanned)
  PROVE  FactoryInv'
<1>1. db.product \in Product /\ db' = [db EXCEPT !.product = db.product]
  BY DEF FactoryInv, FactoryTypes, FactoryTables
<1>2. db.product.status = "READY_FOR_DEPLOYMENT" => AnApproval
  BY DEF FactoryInv, FactoryRowsOK
<1>3. use.load = 1 =>
           /\ db.product.status \in EarlyStatuses => NothingScanned
           /\ next.at = "approve" \/ FactoryPlace(next) \in Before => NothingScanned
           /\ next.at \in Scanned => db.product.status \notin EarlyStatuses
           /\ memory' = memory \/ NothingScanned
  BY DEF FactoryInv, FactorySerialRowsOK, FactorySerialCallOK, BuildStarted
<1> QED BY <1>1, <1>2, <1>3, FactoryGoOn

-----------------------------------------------------------------------------
(* A call that ends, or goes on to FAILED, leaves everything as it is.     *)
LEMMA FactoryEnds ==
  ASSUME F!FactoryConstants, FactoryInv, NEW c \in Calls, calls[c].at # "idle",
         F!Return(c) \/ F!GoTo(c, F!SetTo(calls[c], "FAILED")), UNCHANGED <<db, memory, history>>, use' \in F!Use, use'.load = use.load
  PROVE  FactoryInv'
<1>0. PICK call \in FactoryCall : call = calls[c]
  BY DEF FactoryInv, FactoryTypes
<1>1. CASE F!Return(c)
  BY <1>1, FactoryIdle, FactoryPassOn DEF F!Return
<1>2. CASE F!GoTo(c, F!SetTo(call, "FAILED"))
  <2> DEFINE next == F!SetTo(call, "FAILED")
  <2>1. "FAILED" \in ProductStatus \ EarlyStatuses /\ "FAILED" \notin DOMAIN F!Stage
    BY FactoryStageFacts DEF ProductStatus, F!PRODUCT_STATUS_TRANSITIONS, EarlyStatuses
  <2>2. /\ next \in FactoryCall /\ next.at = "status" /\ next.to = "FAILED" /\ next.arch = call.arch /\ FactoryPlace(next) = "status"
    BY <2>1, SetToFacts
  <2>3. FactoryCallOK(call)
    BY <1>0 DEF FactoryInv
  <2> HIDE DEF next
  <2>4. FactoryCallOK(next) /\ FactorySerialCallOK(next)
    BY <2>1, <2>2, <2>3 DEF FactoryCallOK, FactorySerialCallOK, Later, Engineering, Reviewing, Scanned, Before
  <2>5. F!GoTo(c, next)
    BY <1>2 DEF next
  <2> QED BY <1>0, <2>2, <2>4, <2>5, FactoryPassOn
<1> QED BY <1>0, <1>1, <1>2

LEMMA FaultFacts ==
  ASSUME FactoryTypes, F!Fault
  PROVE  use' \in F!Use /\ use'.load = use.load
BY DEF FactoryTypes, F!Fault, F!Use

LEMMA StartRefusedInv ==
  ASSUME F!FactoryConstants, FactoryInv, NEW c \in Calls, F!StartRefused(c)
  PROVE  FactoryInv'
<1>1. calls[c].at # "idle"
  BY DEF F!StartRefused, F!Runs
<1> QED BY <1>1, FaultFacts, FactoryEnds DEF F!StartRefused, FactoryInv

LEMMA ProductSteps ==
  ASSUME F!FactoryConstants, FactoryInv, NEW c \in Calls,
         \/ F!CreateProduct(c) \/ F!Approve(c) \/ F!ApproveWrite(c) \/ F!Provision(c) \/ F!Scaffold(c) \/ F!SetEstimates(c)
  PROVE  FactoryInv'
<1>0. PICK call \in FactoryCall : call = calls[c]
  BY DEF FactoryInv, FactoryTypes
<1>1. FactoryCallOK(call) /\ (use.load = 1 => FactorySerialCallOK(call)) /\ db.product \in Product /\ use \in F!Use
  BY <1>0, FactoryRows DEF FactoryInv, FactoryTypes
<1>2. /\ db.product.status = "READY_FOR_DEPLOYMENT" => AnApproval
      /\ use.load = 1 /\ db.product.status \in EarlyStatuses => NothingScanned
  BY DEF FactoryInv, FactoryRowsOK, FactorySerialRowsOK, BuildStarted
<1>3. CASE F!CreateProduct(c)
  <2> DEFINE p == [db.product EXCEPT !.status = "PROPOSED"]
  <2>1. F!May("create", c) /\ db.product.status = "none" /\ UNCHANGED <<use, memory, history>> /\ F!GoTo(c, call)
    BY <1>0, <1>3 DEF F!CreateProduct, F!GoTo, FactoryInv, FactoryTypes
  <2>2. p \in Product /\ p.status = "PROPOSED"
    BY <1>1 DEF Product, ProductStatus, F!PRODUCT_STATUS_TRANSITIONS
  <2>3. db' = [db EXCEPT !.product = p]
    BY <1>3 DEF F!CreateProduct
  <2>4. call.at = "idle" /\ (use.load = 1 => \A d \in Calls : calls[d].at = "idle")
    BY <1>0, <2>1, FactoryBeginFacts DEF FactoryInv
  <2>5. use.load = 1 => NothingScanned
    BY <1>2, <2>1 DEF EarlyStatuses
  <2>6. call.at \notin Scanned
    BY <2>4 DEF Scanned
  <2> HIDE DEF p
  <2> QED BY <1>0, <1>1, <2>1, <2>2, <2>3, <2>4, <2>5, <2>6, FactoryGoOn
<1>4. CASE F!Approve(c)
  <2> DEFINE next == [F!Idle EXCEPT !.at = "approve"]
  <2>1. F!GoTo(c, next) /\ UNCHANGED <<use, db, memory, history>> /\ "APPROVED" \in F!PRODUCT_STATUS_TRANSITIONS[db.product.status]
    BY <1>4 DEF F!Approve
  <2>2. next \in FactoryCall /\ next.at = "approve" /\ next.arch = 0 /\ FactoryPlace(next) = "approve"
    BY FactoryIdle DEF FactoryCall, FactoryPlace
  <2>3. calls[c].at = "idle" /\ (use.load = 1 => \A d \in Calls : calls[d].at = "idle")
    BY <1>4, FactoryBeginFacts DEF FactoryInv, F!Approve
  <2>4. db.product.status = "PROPOSED"
    BY <1>1, <2>1 DEF F!PRODUCT_STATUS_TRANSITIONS, Product, ProductStatus
  <2>5. use.load = 1 => NothingScanned
    BY <1>2, <2>4 DEF EarlyStatuses
  <2> HIDE DEF next
  <2>6. FactoryCallOK(next) /\ (use.load = 1 => FactorySerialCallOK(next))
    BY <2>2, <2>5 DEF FactoryCallOK, FactorySerialCallOK, Later, Engineering, Reviewing, Scanned, Before
  <2> QED BY <1>1, <2>1, <2>2, <2>3, <2>6, FactoryPassOn
<1>5. CASE F!ApproveWrite(c)
  <2> DEFINE p == [db.product EXCEPT !.status = "APPROVED"]
  <2>1. call.at = "approve" /\ F!GoTo(c, F!Idle) /\ UNCHANGED <<use, memory, history>>
    BY <1>0, <1>5 DEF F!ApproveWrite, F!Return
  <2>2. p \in Product /\ p.status = "APPROVED"
    BY <1>1 DEF Product, ProductStatus, F!PRODUCT_STATUS_TRANSITIONS
  <2>3. db' = [db EXCEPT !.product = p]
    BY <1>5 DEF F!ApproveWrite
  <2>4. use.load = 1 => NothingScanned
    BY <1>1, <2>1 DEF FactorySerialCallOK
  <2>5. F!Idle.at \notin Scanned
    BY FactoryIdle DEF Scanned
  <2> HIDE DEF p
  <2> QED BY <1>0, <1>1, <2>1, <2>2, <2>3, <2>4, <2>5, FactoryIdle, FactoryGoOn
<1>6. CASE F!Provision(c)
  <2> DEFINE next == [call EXCEPT !.at = "scaffold"]
  <2>1. call.at = "provision" /\ UNCHANGED <<use, db, memory, history>> /\ (F!Return(c) \/ F!GoTo(c, next))
    BY <1>0, <1>6 DEF F!Provision
  <2>2. next \in FactoryCall /\ next.at = "scaffold" /\ next.arch = call.arch /\ next.i = call.i /\ FactoryPlace(next) = "scaffold"
    BY DEF FactoryCall, FactoryPlace
  <2>3. FactoryPlace(call) = "provision"
    BY <2>1 DEF FactoryPlace
  <2> HIDE DEF next
  <2>4. FactoryCallOK(next) /\ (use.load = 1 => FactorySerialCallOK(next))
    BY <1>1, <2>2, <2>3 DEF FactoryCallOK, FactorySerialCallOK, Later, Engineering, Reviewing, Scanned, Before
  <2> QED BY <1>0, <1>1, <2>1, <2>2, <2>4, FactoryPassOn, FactoryEnds
<1>7. CASE F!Scaffold(c)
  <2> DEFINE next == [call EXCEPT !.at = "decompose"]
             p == [db.product EXCEPT !.workspace = TRUE]
  <2>1. call.at = "scaffold" /\ UNCHANGED <<use, history>> /\ F!GoTo(c, next)
    BY <1>0, <1>7 DEF F!Scaffold
  <2>2. next \in FactoryCall /\ next.at = "decompose" /\ next.arch = call.arch /\ next.i = call.i /\ FactoryPlace(next) = "decompose"
    BY DEF FactoryCall, FactoryPlace
  <2>3. FactoryPlace(call) = "scaffold"
    BY <2>1 DEF FactoryPlace
  <2>4. p \in Product /\ p.status = db.product.status
    BY <1>1 DEF Product
  <2>5. db' = [db EXCEPT !.product = p]
    BY <1>7 DEF F!Scaffold
  <2> HIDE DEF next, p
  <2>6. FactoryCallOK(next) /\ (use.load = 1 => FactorySerialCallOK(next) /\ NothingScanned)
    BY <1>1, <2>2, <2>3 DEF FactoryCallOK, FactorySerialCallOK, Later, Engineering, Reviewing, Scanned, Before
  <2>7. next.at \notin Scanned
    BY <2>2 DEF Scanned
  <2> QED BY <1>0, <1>1, <1>2, <2>1, <2>2, <2>4, <2>5, <2>6, <2>7, FactoryGoOn
<1>8. CASE F!SetEstimates(c)
  <2> DEFINE next == [call EXCEPT !.at = "recommend"]
             p == [db.product EXCEPT !.costed = TRUE]
  <2>1. call.at = "estimate" /\ UNCHANGED <<use, memory, history>> /\ F!GoTo(c, next)
    BY <1>0, <1>8 DEF F!SetEstimates
  <2>2. next \in FactoryCall /\ next.at = "recommend" /\ next.arch = call.arch /\ FactoryPlace(next) = "recommend"
    BY DEF FactoryCall, FactoryPlace
  <2>3. FactoryPlace(call) = "estimate"
    BY <2>1 DEF FactoryPlace
  <2>4. p \in Product /\ p.status = db.product.status
    BY <1>1 DEF Product
  <2>5. db' = [db EXCEPT !.product = p]
    BY <1>8 DEF F!SetEstimates
  <2> HIDE DEF next, p
  <2>6. FactoryCallOK(next) /\ (use.load = 1 => FactorySerialCallOK(next))
    BY <1>1, <2>1, <2>2, <2>3 DEF FactoryCallOK, FactorySerialCallOK, Later, Engineering, Reviewing, Scanned, Before
  <2>7. use.load = 1 => p.status \notin EarlyStatuses
    BY <1>1, <2>1, <2>4 DEF FactorySerialCallOK, Scanned, BuildStarted
  <2>8. FactoryPlace(next) \notin Before /\ next.at # "approve"
    BY <2>2 DEF Before, Engineering
  <2> QED BY <1>0, <1>1, <1>2, <2>1, <2>2, <2>4, <2>5, <2>6, <2>7, <2>8, FactoryGoOn
<1> QED BY <1>3, <1>4, <1>5, <1>6, <1>7, <1>8

LEMMA StatusSteps ==
  ASSUME F!FactoryConstants, FactoryInv, NEW c \in Calls, F!StatusRead(c) \/ F!StatusWrite(c)
  PROVE  FactoryInv'
<1>0. PICK call \in FactoryCall : call = calls[c]
  BY DEF FactoryInv, FactoryTypes
<1>1. FactoryCallOK(call) /\ (use.load = 1 => FactorySerialCallOK(call)) /\ db.product \in Product /\ use \in F!Use
  BY <1>0, FactoryRows DEF FactoryInv, FactoryTypes
<1>2. call.at \in {"status", "statusWrite"}
  BY <1>0 DEF F!StatusRead, F!StatusWrite
<1>3. call.to \in ProductStatus \ EarlyStatuses /\ (call.to = "READY_FOR_DEPLOYMENT" => AnApproval)
  BY <1>1, <1>2 DEF FactoryCallOK
<1>4. CASE F!StatusRead(c)
  <2> DEFINE next == [call EXCEPT !.at = "statusWrite"]
  <2>1. call.at = "status" /\ UNCHANGED <<use, db, memory, history>> /\ (F!GoTo(c, next) \/ F!Return(c))
    BY <1>0, <1>4 DEF F!StatusRead
  <2>2. next \in FactoryCall /\ next.at = "statusWrite" /\ next.arch = call.arch /\ next.to = call.to /\ next.spec = call.spec
      /\ next.n = call.n /\ next.i = call.i
    BY DEF FactoryCall
  <2> HIDE DEF next
  <2>3. FactoryPlace(next) = FactoryPlace(call) \/ FactoryPlace(next) = "statusWrite"
    BY <2>1, <2>2 DEF FactoryPlace
  <2>4. FactoryPlace(call) \notin {"engineer", "engineering", "typecheck", "complete"}
    BY <2>1, FactoryStageFacts DEF FactoryPlace
  <2>5. FactoryCallOK(next)
    BY <1>1, <1>3, <2>2, <2>3, <2>4 DEF FactoryCallOK, Later, Reviewing, Scanned, Engineering
  <2>6. use.load = 1 => FactorySerialCallOK(next)
    BY <1>1, <2>1, <2>2, <2>3 DEF FactorySerialCallOK, Scanned, Before, Engineering
  <2> QED BY <1>0, <1>1, <2>1, <2>2, <2>5, <2>6, FactoryPassOn, FactoryEnds
<1>5. CASE F!StatusWrite(c)
  <2> DEFINE next == [call EXCEPT !.at = F!Stage[call.to]]
             p == [db.product EXCEPT !.status = call.to]
  <2>1. call.at = "statusWrite" /\ UNCHANGED <<use, memory, history>> /\ db' = [db EXCEPT !.product = p]
    BY <1>0, <1>5 DEF F!StatusWrite
  <2>2. \/ call.n > 0 /\ call.to \in DOMAIN F!Stage /\ F!GoTo(c, next)
        \/ F!GoTo(c, F!Idle)
    BY <1>0, <1>5 DEF F!StatusWrite, F!Return
  <2>3. p \in Product /\ p.status = call.to
    BY <1>1, <1>3 DEF Product
  <2> HIDE DEF p
  <2>4. CASE F!GoTo(c, F!Idle)
    <3>1. F!Idle.at \notin Scanned /\ FactoryPlace(F!Idle) \notin Before
      BY FactoryIdle DEF Scanned, Before, Engineering
    <3> QED BY <1>0, <1>1, <1>3, <2>1, <2>3, <2>4, <3>1, FactoryIdle, FactoryGoOn
  <2>5. CASE call.n > 0 /\ call.to \in DOMAIN F!Stage /\ F!GoTo(c, next)
    <3>1. F!Stage[call.to] \in {"specify", "design", "provision", "review", "qa", "secure"}
      BY <2>5, FactoryStageFacts
    <3>2. next \in FactoryCall /\ next.at = F!Stage[call.to] /\ next.arch = call.arch /\ next.spec = call.spec /\ next.i = call.i
      BY <3>1 DEF FactoryCall
    <3>3. FactoryPlace(next) = F!Stage[call.to] /\ FactoryPlace(call) = F!Stage[call.to]
      BY <2>1, <2>5, <3>1, <3>2 DEF FactoryPlace
    <3> HIDE DEF next
    <3>4. FactoryCallOK(next)
      BY <1>1, <3>1, <3>2, <3>3 DEF FactoryCallOK, Engineering
    <3>5. use.load = 1 => (FactoryPlace(next) \in Before => NothingScanned)
      BY <1>1, <3>3 DEF FactorySerialCallOK
    <3> QED BY <1>0, <1>1, <1>3, <2>1, <2>3, <2>5, <3>1, <3>2, <3>4, <3>5, FactoryGoOn
  <2> QED BY <2>2, <2>4, <2>5
<1> QED BY <1>4, <1>5

LEMMA BuildInv ==
  ASSUME F!FactoryConstants, FactoryInv, NEW c \in Calls, F!Build(c)
  PROVE  FactoryInv'
<1> DEFINE next == F!SetTo(F!Idle, "SPECIFYING")
<1>1. /\ F!May("build", c) /\ db.product.status = "APPROVED" /\ use.builds > 0 /\ use' = [use EXCEPT !.builds = @ - 1]
      /\ F!GoTo(c, next) /\ UNCHANGED <<db, memory, history>>
  BY DEF F!Build
<1>2. use' \in F!Use /\ use'.load = use.load
  BY <1>1 DEF FactoryInv, FactoryTypes, F!Use
<1>3. "SPECIFYING" \in ProductStatus \ EarlyStatuses /\ F!Stage["SPECIFYING"] = "specify" /\ "SPECIFYING" \in DOMAIN F!Stage
  BY FactoryStageFacts DEF ProductStatus, F!PRODUCT_STATUS_TRANSITIONS, EarlyStatuses
<1>4. /\ next \in FactoryCall /\ next.at = "status" /\ next.to = "SPECIFYING" /\ next.arch = 0 /\ FactoryPlace(next) = "specify"
  BY <1>3, FactoryIdle, SetToFacts
<1>5. calls[c].at = "idle" /\ (use.load = 1 => \A d \in Calls : calls[d].at = "idle")
  BY <1>1, FactoryBeginFacts DEF FactoryInv
<1>6. use.load = 1 => NothingScanned
  BY <1>1 DEF FactoryInv, FactorySerialRowsOK, BuildStarted, EarlyStatuses
<1> HIDE DEF next
<1>7. FactoryCallOK(next) /\ (use.load = 1 => FactorySerialCallOK(next))
  BY <1>3, <1>4, <1>6 DEF FactoryCallOK, FactorySerialCallOK, Later, Engineering, Reviewing, Scanned
<1> QED BY <1>1, <1>2, <1>4, <1>5, <1>7, FactoryPassOn

LEMMA RecordHumanDecisionInv ==
  ASSUME F!FactoryConstants, FactoryInv, NEW c \in Calls, NEW m \in DOMAIN db.memos, NEW verdict \in DOMAIN F!DecisionStatus,
         F!RecordHumanDecision(c, m, verdict)
  PROVE  FactoryInv'
<1> DEFINE next == [F!Idle EXCEPT !.at = "decide", !.rec = m, !.to = verdict]
<1>1. F!May("decide", c) /\ F!GoTo(c, next) /\ UNCHANGED <<use, db, memory, history>>
  BY DEF F!RecordHumanDecision
<1>2. m \in Nat
  BY FactoryRows DEF FactoryInv
<1>3. /\ next \in FactoryCall /\ next.at = "decide" /\ next.rec = m /\ next.to = verdict /\ next.arch = 0 /\ FactoryPlace(next) = "decide"
  BY <1>2, FactoryIdle DEF FactoryCall, FactoryPlace
<1>4. calls[c].at = "idle" /\ (use.load = 1 => \A d \in Calls : calls[d].at = "idle")
  BY <1>1, FactoryBeginFacts DEF FactoryInv
<1> HIDE DEF next
<1>5. FactoryCallOK(next) /\ FactorySerialCallOK(next)
  BY <1>3 DEF FactoryCallOK, FactorySerialCallOK, Later, Engineering, Reviewing, Scanned, Before
<1>6. use \in F!Use
  BY DEF FactoryInv, FactoryTypes
<1> QED BY <1>1, <1>3, <1>4, <1>5, <1>6, FactoryPassOn

-----------------------------------------------------------------------------
(* Steps that add rows.                                                    *)

(* A step that writes other tables than the product's and goes on.         *)
LEMMA FactoryWrite ==
  ASSUME FactoryInv, NEW c \in Calls, NEW next \in FactoryCall, F!GoTo(c, next), FactoryGrown, use' \in F!Use, use'.load = use.load,
         calls[c].at # "idle", db' \in FactoryTables,
         \A a \in DOMAIN db.archs : a # calls[c].arch => ArchStays(a),
         next.arch \in {0, calls[c].arch, Len(db.archs) + 1},
         FactoryCallOK(next)', use.load = 1 => FactorySerialCallOK(next)',
         FactoryRowsOK', use.load = 1 => FactorySerialRowsOK'
  PROVE  FactoryInv'
<1>1. /\ calls' \in [Calls -> FactoryCall] /\ (\A d \in Calls : FactoryCallOK(calls[d])') /\ Unshared'
      /\ use'.load = 1 => OneInFlight' /\ \A d \in Calls : FactorySerialCallOK(calls[d])'
  BY FactoryCallStep
<1> QED BY <1>1 DEF FactoryInv, FactoryTypes

LEMMA MemoStays ==
  ASSUME NEW m, MemoOK(m), FactoryGrown, ArchStays(m.arch)
  PROVE  MemoOK(m)'
BY DEF MemoOK, FactoryGrown, ArchStays, Implemented, Tested

(* Rows were added to other tables than tasks and memos, and none changed. *)
LEMMA RowsAdded ==
  ASSUME FactoryInv, db' \in FactoryTables, FactoryGrown,
         \A a \in DOMAIN db.archs : db'.archs[a] = db.archs[a],
         \A s \in DOMAIN db'.specs : (s \in DOMAIN db.specs /\ db'.specs[s] = db.specs[s]) \/ db'.specs[s].grounds # {},
         \A a \in DOMAIN db'.archs : a \notin DOMAIN db.archs => db'.archs[a].spec \in DOMAIN db'.specs,
         UNCHANGED <<db.product, db.tasks, db.memos, memory, history>>
  PROVE  /\ \A a \in DOMAIN db.archs : ArchStays(a)
         /\ FactoryRowsOK' /\ (use.load = 1 => FactorySerialRowsOK') /\ NothingScanned' = NothingScanned /\ BuildStarted' = BuildStarted
<1>1. db'.product = db.product /\ db'.tasks = db.tasks /\ db'.memos = db.memos /\ memory' = memory /\ history' = history
  OBVIOUS
<1>2. \A a : F!TasksOf(a)' = F!TasksOf(a)
  BY <1>1 DEF F!TasksOf
<1>3. \A a \in DOMAIN db.archs : ArchStays(a)
  BY <1>1, <1>2 DEF ArchStays
<1>4. \A m \in DOMAIN db'.memos : MemoOK(db.memos[m])'
  <2>1. SUFFICES ASSUME NEW m \in DOMAIN db.memos PROVE MemoOK(db.memos[m])'
    BY <1>1
  <2>2. PICK memo : memo = db.memos[m]
    OBVIOUS
  <2>3. MemoOK(memo) /\ memo.arch \in DOMAIN db.archs
    BY <2>2 DEF FactoryInv, FactoryRowsOK, MemoOK
  <2>4. MemoOK(memo)'
    BY <1>3, <2>3, MemoStays
  <2>5. db'.memos[m] = memo
    BY <1>1, <2>2
  <2> QED BY <1>1, <2>2, <2>4, <2>5
<1>5. \A a \in DOMAIN db'.archs : a \notin DOMAIN db.archs => F!TasksOf(a)' = {}
  BY <1>1, <1>2 DEF FactoryInv, FactoryRowsOK, F!TasksOf
<1>6. \A a : TaskPair(a) => TaskPair(a)'
  BY <1>1, <1>2 DEF TaskPair
<1>7. AnApproval' = AnApproval
  BY <1>1 DEF AnApproval
<1>8. FactoryRowsOK'
  <2>1. \A s \in DOMAIN db'.specs : db'.specs[s].grounds # {}
    BY DEF FactoryInv, FactoryRowsOK
  <2>2. \A a \in DOMAIN db'.archs : db'.archs[a].spec \in DOMAIN db'.specs
    BY DEF FactoryInv, FactoryRowsOK, FactoryGrown
  <2>3. \A a \in DOMAIN db'.archs : F!TasksOf(a)' = {} \/ TaskPair(a)'
    BY <1>2, <1>5, <1>6 DEF FactoryInv, FactoryRowsOK
  <2>4. \A t \in DOMAIN db'.tasks : db'.tasks[t].arch \in DOMAIN db'.archs
    BY <1>1 DEF FactoryInv, FactoryRowsOK, FactoryGrown
  <2>5. (\A v \in history' : v.memo \in DOMAIN db'.memos) /\ (db'.product.status = "READY_FOR_DEPLOYMENT" => AnApproval')
    BY <1>1, <1>7 DEF FactoryInv, FactoryRowsOK
  <2> QED BY <1>4, <2>1, <2>2, <2>3, <2>4, <2>5 DEF FactoryRowsOK
<1>9. NothingScanned' = NothingScanned /\ BuildStarted' = BuildStarted
  BY <1>1 DEF NothingScanned, BuildStarted
<1>10. use.load = 1 => FactorySerialRowsOK'
  BY <1>1, <1>9 DEF FactoryInv, FactorySerialRowsOK, F!Flawed
<1> QED BY <1>3, <1>8, <1>9, <1>10

(* A call that carries the row it has made.                                *)
LEMMA CarriesFacts ==
  ASSUME NEW call \in FactoryCall, NEW k \in Nat
  PROVE  /\ [call EXCEPT !.spec = k] \in FactoryCall
         /\ [call EXCEPT !.at = "ux", !.arch = k] \in FactoryCall
         /\ [call EXCEPT !.at = "chair", !.rec = k] \in FactoryCall
         /\ [call EXCEPT !.at = "memo", !.chair = k] \in FactoryCall
BY DEF FactoryCall

LEMMA RunProductStrategistInv ==
  ASSUME F!FactoryConstants, FactoryInv, NEW c \in Calls, NEW answer, F!RunProductStrategist(c, answer)
  PROVE  FactoryInv'
<1>0. PICK call \in FactoryCall : call = calls[c]
  BY DEF FactoryInv, FactoryTypes
<1> DEFINE grounds == answer.grounds \cap F!ClaimsOfOpportunity
           features == {[claim |-> f.claim, priority |-> F!computeFeaturePriority(f)] :
                          f \in {g \in answer.features : g.claim \in F!ClaimsOfOpportunity}}
           row == [grounds |-> grounds, features |-> features]
           to == [F!SetTo(call, "ARCHITECTING") EXCEPT !.spec = Len(db.specs) + 1]
<1>1. FactoryCallOK(call) /\ (use.load = 1 => FactorySerialCallOK(call)) /\ use \in F!Use /\ db \in FactoryTables
  BY <1>0 DEF FactoryInv, FactoryTypes
<1>2. call.at = "specify" /\ UNCHANGED <<use, memory, history>>
  BY <1>0 DEF F!RunProductStrategist
<1>3. \/ (F!Return(c) \/ F!GoTo(c, F!SetTo(call, "FAILED"))) /\ UNCHANGED db
      \/ grounds # {} /\ db' = [db EXCEPT !.specs = Append(@, row)] /\ F!GoTo(c, to)
  BY <1>0 DEF F!RunProductStrategist, F!NewProductSpec
<1>4. CASE (F!Return(c) \/ F!GoTo(c, F!SetTo(call, "FAILED"))) /\ UNCHANGED db
  BY <1>0, <1>1, <1>2, <1>4, FactoryEnds
<1>5. CASE grounds # {} /\ db' = [db EXCEPT !.specs = Append(@, row)] /\ F!GoTo(c, to)
  <2>1. \A f : F!computeFeaturePriority(f) \in {"EXPERIMENT_ONLY", "BUILD_NOW", "BUILD_LATER", "DEFER"}
    BY DEF F!computeFeaturePriority
  <2>2. features \subseteq Feature
    BY <2>1 DEF Feature
  <2>3. row \in Thesis /\ row.grounds # {}
    BY <1>5, <2>2 DEF Thesis
  <2> HIDE DEF row
  <2>4. db.specs \in Seq(Thesis) /\ db'.specs = Append(db.specs, row)
    BY <1>1, <1>5 DEF FactoryTables
  <2>5. /\ db'.specs \in Seq(Thesis) /\ DOMAIN db.specs \subseteq DOMAIN db'.specs
        /\ Len(db.specs) \in Nat /\ Len(db.specs) + 1 \in DOMAIN db'.specs
        /\ \A s \in DOMAIN db'.specs : (s \in DOMAIN db.specs /\ db'.specs[s] = db.specs[s]) \/ db'.specs[s] = row
    BY <2>3, <2>4
  <2>6. /\ db' \in FactoryTables /\ db'.product = db.product /\ db'.archs = db.archs /\ db'.tasks = db.tasks
        /\ db'.recs = db.recs /\ db'.chairs = db.chairs /\ db'.memos = db.memos
    BY <1>1, <1>5, <2>5 DEF FactoryTables
  <2>7. FactoryGrown
    BY <1>2, <2>5, <2>6 DEF FactoryGrown, AnApproval
  <2>8. /\ \A a \in DOMAIN db.archs : ArchStays(a)
        /\ FactoryRowsOK' /\ (use.load = 1 => FactorySerialRowsOK') /\ NothingScanned' = NothingScanned
    BY <1>2, <2>3, <2>5, <2>6, <2>7, RowsAdded
  <2>9. PICK next \in FactoryCall :
          /\ next = to /\ next.at = "status" /\ next.to = "ARCHITECTING" /\ next.arch = call.arch /\ next.spec = Len(db.specs) + 1
          /\ (FactoryPlace(next) = "design" \/ FactoryPlace(next) = "status") /\ next.to \in ProductStatus \ EarlyStatuses
    <3> DEFINE base == F!SetTo(call, "ARCHITECTING")
    <3>1. "ARCHITECTING" \in ProductStatus \ EarlyStatuses
      BY DEF ProductStatus, F!PRODUCT_STATUS_TRANSITIONS, EarlyStatuses
    <3>2. base \in FactoryCall /\ base.at = "status" /\ base.to = "ARCHITECTING" /\ base.arch = call.arch
      BY <3>1, SetToFacts
    <3>3. to = [base EXCEPT !.spec = Len(db.specs) + 1]
      OBVIOUS
    <3> HIDE DEF base, to
    <3>4. to \in FactoryCall /\ to.at = "status" /\ to.to = "ARCHITECTING" /\ to.arch = call.arch /\ to.spec = Len(db.specs) + 1
      <4>1. PICK k \in Nat : k = Len(db.specs) + 1
        BY <2>5
      <4>2. to = [base EXCEPT !.spec = k] /\ to \in FactoryCall
        BY <3>2, <3>3, <4>1, CarriesFacts
      <4> QED BY <3>2, <4>1, <4>2 DEF FactoryCall
    <3>5. FactoryPlace(to) = "design" \/ FactoryPlace(to) = "status"
      BY <3>4, FactoryStageFacts DEF FactoryPlace
    <3> QED BY <3>1, <3>4, <3>5
  <2> HIDE DEF to
  <2>10. call.arch \in {0} \cup DOMAIN db'.archs /\ (use.load = 1 => NothingScanned)
    <3>1. FactoryPlace(call) = "specify"
      BY <1>2 DEF FactoryPlace
    <3> QED BY <1>1, <2>6, <3>1 DEF FactoryCallOK, FactorySerialCallOK, Before
  <2>11. FactoryCallOK(next)' /\ (use.load = 1 => FactorySerialCallOK(next)')
    <3>1. FactoryPlace(next)' = FactoryPlace(next)
      BY DEF FactoryPlace
    <3> QED BY <2>5, <2>8, <2>9, <2>10, <3>1 DEF FactoryCallOK, FactorySerialCallOK, Later, Engineering, Reviewing, Scanned
  <2> QED BY <1>0, <1>1, <1>2, <1>5, <2>6, <2>7, <2>8, <2>9, <2>11, FactoryWrite
<1> QED BY <1>3, <1>4, <1>5

LEMMA RunMvpArchitectInv ==
  ASSUME F!FactoryConstants, FactoryInv, NEW c \in Calls, NEW entities \in Nat, F!RunMvpArchitect(c, entities)
  PROVE  FactoryInv'
<1>0. PICK call \in FactoryCall : call = calls[c]
  BY DEF FactoryInv, FactoryTypes
<1> DEFINE row == [spec |-> call.spec, entities |-> entities, ux |-> FALSE]
           to == [call EXCEPT !.at = "ux", !.arch = Len(db.archs) + 1]
<1>1. FactoryCallOK(call) /\ (use.load = 1 => FactorySerialCallOK(call)) /\ use \in F!Use /\ db \in FactoryTables
  BY <1>0 DEF FactoryInv, FactoryTypes
<1>2. call.at = "design" /\ UNCHANGED <<use, memory, history>> /\ db' = [db EXCEPT !.archs = Append(@, row)] /\ F!GoTo(c, to)
  BY <1>0 DEF F!RunMvpArchitect, F!NewMvpArchitecture
<1>3. call.spec \in DOMAIN db.specs /\ (use.load = 1 => NothingScanned)
  <2>1. FactoryPlace(call) = "design"
    BY <1>2 DEF FactoryPlace
  <2> QED BY <1>1, <2>1 DEF FactoryCallOK, FactorySerialCallOK, Before
<1>4. row \in Architecture /\ row.spec = call.spec
  BY DEF Architecture, FactoryCall
<1> HIDE DEF row
<1>5. db.archs \in Seq(Architecture) /\ db'.archs = Append(db.archs, row)
  BY <1>1, <1>2 DEF FactoryTables
<1>6. /\ db'.archs \in Seq(Architecture) /\ DOMAIN db.archs \subseteq DOMAIN db'.archs
      /\ Len(db.archs) \in Nat /\ Len(db.archs) + 1 \in DOMAIN db'.archs
      /\ \A a \in DOMAIN db.archs : db'.archs[a] = db.archs[a]
      /\ \A a \in DOMAIN db'.archs : a \in DOMAIN db.archs \/ db'.archs[a] = row
  BY <1>4, <1>5
<1>7. /\ db' \in FactoryTables /\ db'.product = db.product /\ db'.specs = db.specs /\ db'.tasks = db.tasks
      /\ db'.recs = db.recs /\ db'.chairs = db.chairs /\ db'.memos = db.memos
  BY <1>1, <1>2, <1>6 DEF FactoryTables
<1>8. FactoryGrown
  BY <1>2, <1>6, <1>7 DEF FactoryGrown, AnApproval
<1>9. /\ \A a \in DOMAIN db.archs : ArchStays(a)
      /\ FactoryRowsOK' /\ (use.load = 1 => FactorySerialRowsOK') /\ NothingScanned' = NothingScanned
  BY <1>2, <1>3, <1>4, <1>6, <1>7, <1>8, RowsAdded
<1>10. PICK next \in FactoryCall : next = to /\ next.at = "ux" /\ next.arch = Len(db.archs) + 1
  <2>1. to \in FactoryCall /\ to.at = "ux" /\ to.arch = Len(db.archs) + 1
    <3>1. PICK k \in Nat : k = Len(db.archs) + 1
      BY <1>6
    <3>2. to = [call EXCEPT !.at = "ux", !.arch = k] /\ to \in FactoryCall
      BY <3>1, CarriesFacts
    <3> QED BY <3>1, <3>2 DEF FactoryCall
  <2> QED BY <2>1
<1> HIDE DEF to
<1>11. FactoryPlace(next)' = "ux"
  BY <1>10 DEF FactoryPlace
<1>12. \A m \in DOMAIN db'.memos : db'.memos[m].arch # next.arch
  BY <1>7, <1>10, FactoryRows DEF FactoryInv, FactoryRowsOK, MemoOK
<1>13. FactoryCallOK(next)' /\ (use.load = 1 => FactorySerialCallOK(next)')
  BY <1>3, <1>6, <1>9, <1>10, <1>11, <1>12 DEF FactoryCallOK, FactorySerialCallOK, Unreported, Later, Engineering, Reviewing, Scanned
<1> QED BY <1>0, <1>1, <1>2, <1>7, <1>8, <1>9, <1>10, <1>13, FactoryWrite

LEMMA recommendProductBuildActionInv ==
  ASSUME F!FactoryConstants, FactoryInv, NEW c \in Calls, NEW answer,
         answer.action \in {"STOP", "CUT_SCOPE", "REQUEST_HUMAN_REVIEW", "BUILD"}, F!recommendProductBuildAction(c, answer)
  PROVE  FactoryInv'
<1>0. PICK call \in FactoryCall : call = calls[c]
  BY DEF FactoryInv, FactoryTypes
<1> DEFINE cited == answer.cited \cap F!LatestSpec.grounds
           row == [action |-> answer.action, cited |-> cited]
           to == [call EXCEPT !.at = "chair", !.rec = Len(db.recs) + 1]
<1>1. FactoryCallOK(call) /\ (use.load = 1 => FactorySerialCallOK(call)) /\ use \in F!Use /\ db \in FactoryTables
  BY <1>0 DEF FactoryInv, FactoryTypes
<1>2. call.at = "recommend" /\ UNCHANGED <<use, memory, history>>
  BY <1>0 DEF F!recommendProductBuildAction
<1>3. \/ (F!Return(c) \/ F!GoTo(c, F!SetTo(call, "FAILED"))) /\ UNCHANGED db
      \/ db' = [db EXCEPT !.recs = Append(@, row)] /\ F!GoTo(c, to)
  BY <1>0 DEF F!recommendProductBuildAction
<1>4. CASE (F!Return(c) \/ F!GoTo(c, F!SetTo(call, "FAILED"))) /\ UNCHANGED db
  BY <1>0, <1>1, <1>2, <1>4, FactoryEnds
<1>5. CASE db' = [db EXCEPT !.recs = Append(@, row)] /\ F!GoTo(c, to)
  <2>1. FactoryPlace(call) = "recommend"
    BY <1>2 DEF FactoryPlace
  <2>2. Unreported(call.arch)
    BY <1>1, <2>1 DEF FactoryCallOK, Later, Reviewing, Scanned
  <2>3. F!LatestSpec \in Thesis
    <3>1. db.archs[call.arch].spec \in DOMAIN db.specs
      BY <2>2 DEF FactoryInv, FactoryRowsOK, Unreported
    <3>2. db.specs \in Seq(Thesis)
      BY <1>1 DEF FactoryTables
    <3>3. Len(db.specs) \in DOMAIN db.specs
      BY <3>1, <3>2
    <3> QED BY <3>2, <3>3 DEF F!LatestSpec
  <2>4. row \in Recommendation
    BY <2>3 DEF Recommendation, Thesis
  <2> HIDE DEF row
  <2>5. db.recs \in Seq(Recommendation) /\ db'.recs = Append(db.recs, row)
    BY <1>1, <1>5 DEF FactoryTables
  <2>6. /\ db'.recs \in Seq(Recommendation) /\ DOMAIN db.recs \subseteq DOMAIN db'.recs
        /\ Len(db.recs) \in Nat /\ Len(db.recs) + 1 \in DOMAIN db'.recs
    BY <2>4, <2>5
  <2>7. /\ db' \in FactoryTables /\ db'.product = db.product /\ db'.archs = db.archs /\ db'.tasks = db.tasks
        /\ db'.specs = db.specs /\ db'.chairs = db.chairs /\ db'.memos = db.memos
    BY <1>1, <1>5, <2>6 DEF FactoryTables
  <2>8. FactoryGrown
    BY <1>2, <2>6, <2>7 DEF FactoryGrown, AnApproval
  <2>9. /\ \A a \in DOMAIN db.archs : ArchStays(a)
        /\ FactoryRowsOK' /\ (use.load = 1 => FactorySerialRowsOK') /\ BuildStarted' = BuildStarted
    BY <1>2, <2>7, <2>8, RowsAdded
  <2>10. PICK next \in FactoryCall : next = to /\ next.at = "chair" /\ next.arch = call.arch /\ next.rec = Len(db.recs) + 1
    <3>1. to \in FactoryCall /\ to.at = "chair" /\ to.arch = call.arch /\ to.rec = Len(db.recs) + 1
      <4>1. PICK k \in Nat : k = Len(db.recs) + 1
        BY <2>6
      <4>2. to = [call EXCEPT !.at = "chair", !.rec = k] /\ to \in FactoryCall
        BY <4>1, CarriesFacts
      <4> QED BY <4>1, <4>2 DEF FactoryCall
    <3> QED BY <3>1
  <2> HIDE DEF to
  <2>11. FactoryPlace(next) = "chair" /\ FactoryPlace(next)' = "chair"
    BY <2>10 DEF FactoryPlace
  <2>12. /\ Unreported(call.arch)' /\ db'.archs[call.arch] = db.archs[call.arch]
         /\ Implemented(call.arch)' = Implemented(call.arch) /\ Tested(call.arch)' = Tested(call.arch)
    BY <2>2, <2>7 DEF Unreported, Implemented, Tested, F!TasksOf
  <2>13. FactoryCallOK(next)' /\ (use.load = 1 => FactorySerialCallOK(next)')
    BY <1>1, <1>2, <2>1, <2>2, <2>6, <2>9, <2>10, <2>11, <2>12
       DEF FactoryCallOK, FactorySerialCallOK, Later, Engineering, Reviewing, Scanned, Before, Unreported
  <2> QED BY <1>0, <1>1, <1>2, <1>5, <2>7, <2>8, <2>9, <2>10, <2>13, FactoryWrite
<1> QED BY <1>3, <1>4, <1>5

LEMMA reviewProductInv ==
  ASSUME F!FactoryConstants, FactoryInv, NEW c \in Calls, NEW decision \in Review, F!reviewProduct(c, decision)
  PROVE  FactoryInv'
<1>0. PICK call \in FactoryCall : call = calls[c]
  BY DEF FactoryInv, FactoryTypes
<1> DEFINE to == [call EXCEPT !.at = "memo", !.chair = Len(db.chairs) + 1]
<1>1. FactoryCallOK(call) /\ (use.load = 1 => FactorySerialCallOK(call)) /\ use \in F!Use /\ db \in FactoryTables
  BY <1>0 DEF FactoryInv, FactoryTypes
<1>2. call.at = "chair" /\ UNCHANGED <<use, memory, history>> /\ db' = [db EXCEPT !.chairs = Append(@, decision)] /\ F!GoTo(c, to)
  BY <1>0 DEF F!reviewProduct
<1>3. FactoryPlace(call) = "chair"
  BY <1>2 DEF FactoryPlace
<1>4. Unreported(call.arch) /\ call.rec \in DOMAIN db.recs
  BY <1>1, <1>2, <1>3 DEF FactoryCallOK, Later, Reviewing, Scanned
<1>5. db.chairs \in Seq(Review) /\ db'.chairs = Append(db.chairs, decision)
  BY <1>1, <1>2 DEF FactoryTables
<1>6. /\ db'.chairs \in Seq(Review) /\ DOMAIN db.chairs \subseteq DOMAIN db'.chairs
      /\ Len(db.chairs) \in Nat /\ Len(db.chairs) + 1 \in DOMAIN db'.chairs
  BY <1>5
<1>7. /\ db' \in FactoryTables /\ db'.product = db.product /\ db'.archs = db.archs /\ db'.tasks = db.tasks
      /\ db'.specs = db.specs /\ db'.recs = db.recs /\ db'.memos = db.memos
  BY <1>1, <1>2, <1>6 DEF FactoryTables
<1>8. FactoryGrown
  BY <1>2, <1>6, <1>7 DEF FactoryGrown, AnApproval
<1>9. /\ \A a \in DOMAIN db.archs : ArchStays(a)
      /\ FactoryRowsOK' /\ (use.load = 1 => FactorySerialRowsOK') /\ BuildStarted' = BuildStarted
  BY <1>2, <1>7, <1>8, RowsAdded
<1>10. PICK next \in FactoryCall :
         next = to /\ next.at = "memo" /\ next.arch = call.arch /\ next.chair = Len(db.chairs) + 1 /\ next.rec = call.rec
  <2>1. to \in FactoryCall /\ to.at = "memo" /\ to.arch = call.arch /\ to.chair = Len(db.chairs) + 1 /\ to.rec = call.rec
    <3>1. PICK k \in Nat : k = Len(db.chairs) + 1
      BY <1>6
    <3>2. to = [call EXCEPT !.at = "memo", !.chair = k] /\ to \in FactoryCall
      BY <3>1, CarriesFacts
    <3> QED BY <3>1, <3>2 DEF FactoryCall
  <2> QED BY <2>1
<1> HIDE DEF to
<1>11. FactoryPlace(next) = "memo" /\ FactoryPlace(next)' = "memo"
  BY <1>10 DEF FactoryPlace
<1>12. /\ Unreported(call.arch)' /\ db'.archs[call.arch] = db.archs[call.arch]
       /\ Implemented(call.arch)' = Implemented(call.arch) /\ Tested(call.arch)' = Tested(call.arch)
  BY <1>4, <1>7 DEF Unreported, Implemented, Tested, F!TasksOf
<1>13. FactoryCallOK(next)' /\ (use.load = 1 => FactorySerialCallOK(next)')
  BY <1>1, <1>2, <1>3, <1>4, <1>6, <1>7, <1>9, <1>10, <1>11, <1>12
     DEF FactoryCallOK, FactorySerialCallOK, Later, Engineering, Reviewing, Scanned, Before, Unreported
<1> QED BY <1>0, <1>1, <1>2, <1>7, <1>8, <1>9, <1>10, <1>13, FactoryWrite

-----------------------------------------------------------------------------
(* Steps about one architecture.                                           *)

(* What is written is about an architecture that no memo is about.         *)
LEMMA ArchWritten ==
  ASSUME FactoryInv, NEW a \in DOMAIN db.archs, Unreported(a), db' \in FactoryTables,
         db'.product = db.product, db'.specs = db.specs, db'.recs = db.recs, db'.chairs = db.chairs, db'.memos = db.memos,
         UNCHANGED history,
         DOMAIN db'.archs = DOMAIN db.archs, db'.archs[a].spec = db.archs[a].spec,
         \A b \in DOMAIN db.archs : b # a => db'.archs[b] = db.archs[b],
         DOMAIN db.tasks \subseteq DOMAIN db'.tasks,
         \A t \in DOMAIN db'.tasks :
           IF t \in DOMAIN db.tasks /\ db.tasks[t].arch # a THEN db'.tasks[t] = db.tasks[t] ELSE db'.tasks[t].arch = a,
         F!TasksOf(a)' = {} \/ TaskPair(a)'
  PROVE  /\ FactoryGrown /\ FactoryRowsOK' /\ Unreported(a)' /\ BuildStarted' = BuildStarted
         /\ \A b \in DOMAIN db.archs : b # a => ArchStays(b)
<1>1. FactoryGrown
  BY DEF FactoryGrown, AnApproval
<1>2. ASSUME NEW b \in DOMAIN db.archs, b # a PROVE ArchStays(b) /\ (TaskPair(b) => TaskPair(b)')
  <2>1. F!TasksOf(b)' = F!TasksOf(b) /\ \A t \in F!TasksOf(b) : db'.tasks[t] = db.tasks[t]
    BY <1>2 DEF F!TasksOf
  <2> QED BY <1>2, <2>1 DEF ArchStays, TaskPair
<1>3. \A m \in DOMAIN db'.memos : MemoOK(db.memos[m])'
  <2>1. SUFFICES ASSUME NEW m \in DOMAIN db.memos PROVE MemoOK(db.memos[m])'
    OBVIOUS
  <2>2. PICK memo : memo = db.memos[m]
    OBVIOUS
  <2>3. MemoOK(memo) /\ memo.arch \in DOMAIN db.archs /\ memo.arch # a
    BY <2>2 DEF FactoryInv, FactoryRowsOK, MemoOK, Unreported
  <2>4. MemoOK(memo)'
    BY <1>1, <1>2, <2>3, MemoStays
  <2>5. db'.memos[m] = memo
    BY <2>2
  <2> QED BY <2>4, <2>5
<1>4. FactoryRowsOK'
  <2>1. (\A s \in DOMAIN db'.specs : db'.specs[s].grounds # {}) /\ \A a1 \in DOMAIN db'.archs : db'.archs[a1].spec \in DOMAIN db'.specs
    BY DEF FactoryInv, FactoryRowsOK
  <2>2. \A t \in DOMAIN db'.tasks : db'.tasks[t].arch \in DOMAIN db'.archs
    BY DEF FactoryInv, FactoryRowsOK
  <2>3. \A b \in DOMAIN db'.archs : F!TasksOf(b)' = {} \/ TaskPair(b)'
    BY <1>2 DEF FactoryInv, FactoryRowsOK, ArchStays
  <2>4. (\A v \in history' : v.memo \in DOMAIN db'.memos) /\ (db'.product.status = "READY_FOR_DEPLOYMENT" => AnApproval')
    BY DEF FactoryInv, FactoryRowsOK, AnApproval
  <2> QED BY <1>3, <2>1, <2>2, <2>3, <2>4 DEF FactoryRowsOK
<1>5. Unreported(a)' /\ BuildStarted' = BuildStarted
  BY DEF Unreported, BuildStarted
<1> QED BY <1>1, <1>2, <1>4, <1>5

LEMMA RunUxAgentInv ==
  ASSUME F!FactoryConstants, FactoryInv, NEW c \in Calls, F!RunUxAgent(c)
  PROVE  FactoryInv'
<1>0. PICK call \in FactoryCall : call = calls[c]
  BY DEF FactoryInv, FactoryTypes
<1> DEFINE a == call.arch
           next == F!SetTo(call, "BUILDING")
<1>1. FactoryCallOK(call) /\ (use.load = 1 => FactorySerialCallOK(call)) /\ use \in F!Use /\ db \in FactoryTables
  BY <1>0 DEF FactoryInv, FactoryTypes
<1>2. call.at = "ux" /\ UNCHANGED <<use, memory, history>>
  BY <1>0 DEF F!RunUxAgent
<1>3. \/ F!Return(c) /\ UNCHANGED db
      \/ db' = [db EXCEPT !.archs[a].ux = TRUE] /\ F!GoTo(c, next)
  BY <1>0 DEF F!RunUxAgent
<1>4. CASE F!Return(c) /\ UNCHANGED db
  BY <1>0, <1>1, <1>2, <1>4, FactoryEnds
<1>5. CASE db' = [db EXCEPT !.archs[a].ux = TRUE] /\ F!GoTo(c, next)
  <2>1. FactoryPlace(call) = "ux"
    BY <1>2 DEF FactoryPlace
  <2>2. Unreported(a) /\ a \in DOMAIN db.archs /\ (use.load = 1 => NothingScanned)
    BY <1>1, <2>1 DEF FactoryCallOK, Unreported, FactorySerialCallOK, Before
  <2> DEFINE row == [db.archs[a] EXCEPT !.ux = TRUE]
  <2>3. row \in Architecture /\ row.spec = db.archs[a].spec /\ row.ux
    BY <2>2, FactoryRows DEF FactoryInv, Architecture
  <2>4. db'.archs = [db.archs EXCEPT ![a] = row] /\ db.archs \in Seq(Architecture)
    BY <1>1, <1>5 DEF FactoryTables
  <2> HIDE DEF row
  <2>5. db'.archs \in Seq(Architecture)
    BY <2>2, <2>3, <2>4
  <2>6. /\ db' \in FactoryTables /\ db'.product = db.product /\ db'.specs = db.specs /\ db'.tasks = db.tasks
        /\ db'.recs = db.recs /\ db'.chairs = db.chairs /\ db'.memos = db.memos
    BY <1>1, <1>5, <2>5 DEF FactoryTables
  <2>7. /\ DOMAIN db'.archs = DOMAIN db.archs /\ db'.archs[a] = row /\ \A b \in DOMAIN db.archs : b # a => db'.archs[b] = db.archs[b]
    BY <2>2, <2>4
  <2>8. F!TasksOf(a)' = {} \/ TaskPair(a)'
    <3>1. F!TasksOf(a)' = F!TasksOf(a)
      BY <2>6 DEF F!TasksOf
    <3> QED BY <2>2, <2>6, <3>1 DEF FactoryInv, FactoryRowsOK, TaskPair
  <2>9. \A t \in DOMAIN db'.tasks :
          IF t \in DOMAIN db.tasks /\ db.tasks[t].arch # a THEN db'.tasks[t] = db.tasks[t] ELSE db'.tasks[t].arch = a
    BY <2>6
  <2>10. /\ FactoryGrown /\ FactoryRowsOK' /\ Unreported(a)' /\ BuildStarted' = BuildStarted
         /\ \A b \in DOMAIN db.archs : b # a => ArchStays(b)
    BY <1>2, <2>2, <2>3, <2>6, <2>7, <2>8, <2>9, ArchWritten
  <2>11. use.load = 1 => NothingScanned' /\ FactorySerialRowsOK'
    BY <2>2, <2>6 DEF NothingScanned, FactorySerialRowsOK
  <2>12. "BUILDING" \in ProductStatus \ EarlyStatuses /\ F!Stage["BUILDING"] = "provision"
    BY FactoryStageFacts DEF ProductStatus, F!PRODUCT_STATUS_TRANSITIONS, EarlyStatuses
  <2>13. /\ next \in FactoryCall /\ next.at = "status" /\ next.to = "BUILDING" /\ next.arch = a /\ next.i = 1
         /\ FactoryPlace(next) = "provision" \/ FactoryPlace(next) = "status"
    BY <2>12, SetToFacts
  <2> HIDE DEF next
  <2>14. FactoryPlace(next)' = FactoryPlace(next)
    BY DEF FactoryPlace
  <2>15. FactoryCallOK(next)' /\ (use.load = 1 => FactorySerialCallOK(next)')
    BY <2>2, <2>3, <2>7, <2>10, <2>11, <2>12, <2>13, <2>14 DEF FactoryCallOK, FactorySerialCallOK, Unreported, Later, Engineering, Reviewing, Scanned
  <2> QED BY <1>0, <1>1, <1>2, <1>5, <2>6, <2>10, <2>11, <2>13, <2>15, FactoryWrite
<1> QED BY <1>3, <1>4, <1>5

LEMMA DecomposeFromArchitectureInv ==
  ASSUME F!FactoryConstants, FactoryInv, NEW c \in Calls, F!DecomposeFromArchitecture(c)
  PROVE  FactoryInv'
<1>0. PICK call \in FactoryCall : call = calls[c]
  BY DEF FactoryInv, FactoryTypes
<1>n. PICK n \in Nat : n = Len(db.tasks)
  BY DEF FactoryInv, FactoryTypes, FactoryTables
<1> DEFINE a == call.arch
           store == F!NewEngineeringTask(a, {"store", "storeTest"}, 0)
           routes == F!NewEngineeringTask(a, {"routes", "index", "routesTest"}, n + 1)
           next == [call EXCEPT !.at = "engineer"]
<1>1. FactoryCallOK(call) /\ (use.load = 1 => FactorySerialCallOK(call)) /\ use \in F!Use /\ db \in FactoryTables
  BY <1>0 DEF FactoryInv, FactoryTypes
<1>2. call.at = "decompose" /\ UNCHANGED <<use, memory, history>>
  BY <1>0 DEF F!DecomposeFromArchitecture
<1>3. \/ F!Return(c) /\ UNCHANGED db
      \/ F!TasksOf(a) = {} /\ db' = [db EXCEPT !.tasks = @ \o <<store, routes>>] /\ F!GoTo(c, next)
  BY <1>0, <1>n DEF F!DecomposeFromArchitecture
<1>4. CASE F!Return(c) /\ UNCHANGED db
  BY <1>0, <1>1, <1>2, <1>4, FactoryEnds
<1>5. CASE F!TasksOf(a) = {} /\ db' = [db EXCEPT !.tasks = @ \o <<store, routes>>] /\ F!GoTo(c, next)
  <2>1. FactoryPlace(call) = "decompose"
    BY <1>2 DEF FactoryPlace
  <2>2. Unreported(a) /\ a \in DOMAIN db.archs /\ a \in Nat /\ db.archs[a].ux /\ (use.load = 1 => NothingScanned)
    BY <1>1, <2>1 DEF FactoryCallOK, Unreported, FactorySerialCallOK, Before, Later, FactoryCall
  <2>3. /\ store \in EngineeringTask /\ store.arch = a /\ store.status = "PENDING" /\ store.attempts = 0 /\ store.security = "none"
        /\ routes \in EngineeringTask /\ routes.arch = a /\ routes.status = "PENDING" /\ routes.attempts = 0 /\ routes.security = "none"
    BY <2>2 DEF F!NewEngineeringTask, EngineeringTask, WorkspaceFile, Attempts, F!FactoryConstants, F!ENGINEERING_TASK_STATUS_TRANSITIONS
  <2>4. db.tasks \in Seq(EngineeringTask) /\ db'.tasks = db.tasks \o <<store, routes>>
    BY <1>1, <1>5 DEF FactoryTables
  <2> HIDE DEF store, routes
  <2>5. /\ db'.tasks \in Seq(EngineeringTask) /\ DOMAIN db.tasks = 1 .. n /\ DOMAIN db'.tasks = 1 .. (n + 2)
        /\ \A t \in 1 .. n : db'.tasks[t] = db.tasks[t]
        /\ db'.tasks[n + 1] = store /\ db'.tasks[n + 2] = routes
    <3>1. <<store, routes>> \in Seq(EngineeringTask) /\ Len(<<store, routes>>) = 2
      BY <2>3
    <3> QED BY <1>n, <2>4, <3>1
  <2>6. /\ db' \in FactoryTables /\ db'.product = db.product /\ db'.specs = db.specs /\ db'.archs = db.archs
        /\ db'.recs = db.recs /\ db'.chairs = db.chairs /\ db'.memos = db.memos
    BY <1>1, <1>5, <2>5 DEF FactoryTables
  <2>7. \A t \in DOMAIN db.tasks : db.tasks[t].arch # a
    BY <1>5 DEF F!TasksOf
  <2>8. \A t \in DOMAIN db'.tasks : t \in DOMAIN db.tasks \/ t = n + 1 \/ t = n + 2
    BY <2>5
  <2>9. F!TasksOf(a)' = {n + 1, n + 2} /\ n + 1 \in DOMAIN db'.tasks
    <3>1. n + 1 \in DOMAIN db'.tasks /\ n + 2 \in DOMAIN db'.tasks
      BY <2>5
    <3>2. db'.tasks[n + 1].arch = a /\ db'.tasks[n + 2].arch = a
      BY <2>3, <2>5
    <3>3. \A t \in DOMAIN db.tasks : db'.tasks[t].arch # a
      BY <2>5, <2>7
    <3>4. F!TasksOf(a)' = {t \in DOMAIN db'.tasks : db'.tasks[t].arch = a}
      BY DEF F!TasksOf
    <3> HIDE DEF a
    <3> QED BY <2>8, <3>1, <3>2, <3>3, <3>4
  <2>10. TaskPair(a)'
    BY <2>9 DEF TaskPair
  <2>11. \A t \in DOMAIN db'.tasks :
          IF t \in DOMAIN db.tasks /\ db.tasks[t].arch # a THEN db'.tasks[t] = db.tasks[t] ELSE db'.tasks[t].arch = a
    BY <2>3, <2>5, <2>7, <2>8
  <2>12. /\ FactoryGrown /\ FactoryRowsOK' /\ Unreported(a)' /\ BuildStarted' = BuildStarted
         /\ \A b \in DOMAIN db.archs : b # a => ArchStays(b)
    <3>1. DOMAIN db.tasks \subseteq DOMAIN db'.tasks
      BY <2>5
    <3> QED BY <1>2, <2>2, <2>6, <2>10, <2>11, <3>1, ArchWritten
  <2>13. use.load = 1 => NothingScanned' /\ FactorySerialRowsOK'
    <3>1. NothingScanned => \A t \in DOMAIN db'.tasks : db'.tasks[t].security = "none"
      BY <2>3, <2>5, <2>8 DEF NothingScanned
    <3> QED BY <2>2, <2>6, <3>1 DEF NothingScanned, FactorySerialRowsOK
  <2>14. /\ next \in FactoryCall /\ next.at = "engineer" /\ next.arch = a /\ next.i = 1
    BY <1>1, <2>1 DEF FactoryCall, FactoryCallOK
  <2> HIDE DEF next
  <2>15. FactoryPlace(next)' = "engineer"
    BY <2>14 DEF FactoryPlace
  <2>16. Tasked(next)'
    <3>1. db'.tasks[n + 1].attempts < MAX_TASK_ATTEMPTS /\ db'.tasks[n + 2].attempts < MAX_TASK_ATTEMPTS
      BY <2>3, <2>5 DEF F!FactoryConstants
    <3> QED BY <2>9, <2>14, <3>1 DEF Tasked
  <2>17. FactoryCallOK(next)' /\ (use.load = 1 => FactorySerialCallOK(next)')
    BY <2>2, <2>6, <2>12, <2>13, <2>14, <2>15, <2>16 DEF FactoryCallOK, FactorySerialCallOK, Unreported, Later, Engineering, Reviewing, Scanned
  <2> QED BY <1>0, <1>1, <1>2, <1>5, <2>6, <2>12, <2>13, <2>14, <2>17, FactoryWrite
<1> QED BY <1>3, <1>4, <1>5

-----------------------------------------------------------------------------
(* Steps about one task.                                                   *)

LEMMA AtTask ==
  ASSUME FactoryInv, NEW call \in FactoryCall, FactoryCallOK(call), FactoryPlace(call) \in Engineering \cup Reviewing
  PROVE  /\ Unreported(call.arch) /\ db.archs[call.arch].ux /\ TaskPair(call.arch)
         /\ F!TheTask(call) \in F!TasksOf(call.arch) /\ F!TheTask(call) \in DOMAIN db.tasks /\ db.tasks[F!TheTask(call)] \in EngineeringTask
         /\ db.tasks[F!TheTask(call)].arch = call.arch
<1>1. Unreported(call.arch) /\ db.archs[call.arch].ux /\ F!TasksOf(call.arch) # {}
  BY DEF FactoryCallOK, Later, Engineering, Reviewing, Scanned, Tasked, Implemented
<1>2. TaskPair(call.arch)
  BY <1>1 DEF FactoryInv, FactoryRowsOK, Unreported
<1>3. F!TheTask(call) \in F!TasksOf(call.arch) /\ F!TheTask(call) \in DOMAIN db.tasks
  BY <1>2, TaskFacts DEF FactoryInv
<1> QED BY <1>1, <1>2, <1>3, FactoryRows DEF FactoryInv, F!TasksOf

(* The row of one task, which may be as it was.                            *)
LEMMA TaskWritten ==
  ASSUME FactoryInv, NEW a, Unreported(a), NEW t \in F!TasksOf(a), NEW row \in EngineeringTask, row.arch = a,
         db' = [db EXCEPT !.tasks = [db.tasks EXCEPT ![t] = row]], UNCHANGED <<memory, history>>,
         use.load = 1 =>
           \/ row.security = db.tasks[t].security /\ row.files = db.tasks[t].files
           \/ NothingScanned /\ row.security = "none"
           \/ BuildStarted /\ ((\E f \in row.files : memory[f] = "flawed") => row.security = "FAIL")
  PROVE  /\ db' \in FactoryTables /\ db'.archs = db.archs /\ db'.recs = db.recs /\ F!TasksOf(a)' = F!TasksOf(a)
         /\ db'.tasks[t] = row /\ \A u \in F!TasksOf(a) : u # t => db'.tasks[u] = db.tasks[u]
         /\ FactoryGrown /\ FactoryRowsOK' /\ Unreported(a)' /\ BuildStarted' = BuildStarted
         /\ \A b \in DOMAIN db.archs : b # a => ArchStays(b)
         /\ use.load = 1 => FactorySerialRowsOK'
         /\ NothingScanned /\ row.security = "none" => NothingScanned'
<1>1. db \in FactoryTables /\ t \in DOMAIN db.tasks /\ db.tasks[t].arch = a /\ a \in DOMAIN db.archs
  BY DEF FactoryInv, FactoryTypes, F!TasksOf, Unreported
<1>2. db.tasks \in Seq(EngineeringTask) /\ db'.tasks = [db.tasks EXCEPT ![t] = row]
  BY <1>1 DEF FactoryTables
<1>3. /\ db'.tasks \in Seq(EngineeringTask) /\ DOMAIN db'.tasks = DOMAIN db.tasks /\ db'.tasks[t] = row
      /\ \A u \in DOMAIN db.tasks : u # t => db'.tasks[u] = db.tasks[u]
  BY <1>1, <1>2
<1>4. /\ db' \in FactoryTables /\ db'.product = db.product /\ db'.specs = db.specs /\ db'.archs = db.archs
      /\ db'.recs = db.recs /\ db'.chairs = db.chairs /\ db'.memos = db.memos
  BY <1>1, <1>2, <1>3 DEF FactoryTables
<1>5. F!TasksOf(a)' = F!TasksOf(a) /\ \A u \in F!TasksOf(a) : u # t => db'.tasks[u] = db.tasks[u]
  BY <1>1, <1>3 DEF F!TasksOf
<1>6. TaskPair(a)'
  BY <1>1, <1>3, <1>5 DEF TaskPair, FactoryInv, FactoryRowsOK
<1>7. \A u \in DOMAIN db'.tasks :
        IF u \in DOMAIN db.tasks /\ db.tasks[u].arch # a THEN db'.tasks[u] = db.tasks[u] ELSE db'.tasks[u].arch = a
  BY <1>1, <1>3
<1>8. /\ FactoryGrown /\ FactoryRowsOK' /\ Unreported(a)' /\ BuildStarted' = BuildStarted
      /\ \A b \in DOMAIN db.archs : b # a => ArchStays(b)
  BY <1>1, <1>3, <1>4, <1>6, <1>7, ArchWritten
<1>9. NothingScanned /\ row.security = "none" => NothingScanned'
  BY <1>3, <1>4 DEF NothingScanned
<1>10. ASSUME use.load = 1 PROVE FactorySerialRowsOK'
  <2>1. \A u \in DOMAIN db.tasks : db.tasks[u].security # "none" /\ F!Flawed(u) => db.tasks[u].security = "FAIL"
    BY <1>10 DEF FactoryInv, FactorySerialRowsOK
  <2>2. ~BuildStarted => NothingScanned
    BY <1>10 DEF FactoryInv, FactorySerialRowsOK
  <2>3. CASE row.security = db.tasks[t].security /\ row.files = db.tasks[t].files
    <3>1. \A u \in DOMAIN db'.tasks : db'.tasks[u].security # "none" /\ F!Flawed(u)' => db'.tasks[u].security = "FAIL"
      BY <1>1, <1>3, <2>1, <2>3 DEF F!Flawed
    <3>2. NothingScanned => NothingScanned'
      BY <1>1, <1>9, <2>3 DEF NothingScanned
    <3> QED BY <1>8, <2>2, <3>1, <3>2 DEF FactorySerialRowsOK
  <2>4. CASE NothingScanned /\ row.security = "none"
    BY <1>9, <2>4 DEF FactorySerialRowsOK, NothingScanned
  <2>5. CASE BuildStarted /\ ((\E f \in row.files : memory[f] = "flawed") => row.security = "FAIL")
    <3>1. \A u \in DOMAIN db'.tasks : db'.tasks[u].security # "none" /\ F!Flawed(u)' => db'.tasks[u].security = "FAIL"
      BY <1>1, <1>3, <2>1, <2>5 DEF F!Flawed
    <3> QED BY <1>8, <2>5, <3>1 DEF FactorySerialRowsOK
  <2> QED BY <1>10, <2>3, <2>4, <2>5
<1> QED BY <1>3, <1>4, <1>5, <1>8, <1>9, <1>10

LEMMA NextTaskFacts ==
  ASSUME FactoryTypes, NEW call \in FactoryCall, NEW other \in FactoryCall, other.arch = call.arch, other.i = call.i, other.at = call.at,
         TaskPair(call.arch), MAX_TASK_ATTEMPTS \in Nat \ {0}, NEW after
  PROVE  LET next == F!NextTask(other, after)
         IN  \/ next = after /\ call.i = 2
             \/ /\ next \in FactoryCall /\ next.at = call.at /\ next.arch = call.arch /\ next.i = 2 /\ call.i = 1
<1>1. Cardinality(F!TasksOf(call.arch)) = 2 /\ call.i \in {1, 2}
  BY TaskFacts DEF FactoryCall
<1>2. CASE call.i = 2
  BY <1>1, <1>2, FactoryCounts DEF F!NextTask
<1>3. CASE call.i = 1
  <2>1. F!NextTask(other, after) = [other EXCEPT !.i = 2, !.n = 1]
    BY <1>1, <1>3, FactoryCounts DEF F!NextTask
  <2>2. 1 \in Attempts
    BY DEF Attempts
  <2> QED BY <1>3, <2>1, <2>2 DEF FactoryCall
<1> QED BY <1>1, <1>2, <1>3

(* A review of a task, found or not: the next task, or the next review.    *)
AfterReview(call) ==
  CASE call.at = "review" -> F!SetTo(call, "TESTING")
    [] call.at = "qa"     -> [call EXCEPT !.at = "integrate", !.i = 1]
    [] call.at = "secure" -> [call EXCEPT !.at = "estimate", !.i = 1]

LEMMA ReviewInv ==
  ASSUME F!FactoryConstants, FactoryInv, NEW c \in Calls, calls[c].at \in {"review", "qa", "secure"},
         NEW row \in EngineeringTask, NEW t, t = F!TheTask(calls[c]),
         row.arch = db.tasks[t].arch, row.status = db.tasks[t].status, row.files = db.tasks[t].files, row.tested = db.tasks[t].tested,
         row.security = db.tasks[t].security \/ (calls[c].at = "secure" /\ (F!Flawed(t) => row.security = "FAIL")),
         db' = [db EXCEPT !.tasks = [db.tasks EXCEPT ![t] = row]], UNCHANGED <<memory, history>>,
         use' \in F!Use, use'.load = use.load,
         F!GoTo(c, F!NextTask(calls[c], AfterReview(calls[c])))
  PROVE  FactoryInv'
<1>0. PICK call \in FactoryCall : call = calls[c]
  BY DEF FactoryInv, FactoryTypes
<1> DEFINE a == call.arch
<1>1. FactoryCallOK(call) /\ (use.load = 1 => FactorySerialCallOK(call)) /\ FactoryTypes
  BY <1>0 DEF FactoryInv
<1>2. FactoryPlace(call) = call.at /\ call.at \in {"review", "qa", "secure"}
  BY <1>0 DEF FactoryPlace
<1>3. /\ Unreported(a) /\ a \in DOMAIN db.archs /\ db.archs[a].ux /\ TaskPair(a) /\ t \in F!TasksOf(a) /\ t \in DOMAIN db.tasks /\ db.tasks[t].arch = a
      /\ Implemented(a) /\ (call.at = "secure" => Tested(a))
  BY <1>0, <1>1, <1>2, AtTask DEF Reviewing, Scanned, FactoryCallOK, Unreported
<1>4. use.load = 1 =>
           \/ row.security = db.tasks[t].security /\ row.files = db.tasks[t].files
           \/ BuildStarted /\ ((\E f \in row.files : memory[f] = "flawed") => row.security = "FAIL")
  BY <1>0, <1>1 DEF FactorySerialCallOK, Scanned, F!Flawed
<1>5. /\ db' \in FactoryTables /\ db'.archs = db.archs /\ F!TasksOf(a)' = F!TasksOf(a)
      /\ db'.tasks[t] = row /\ \A u \in F!TasksOf(a) : u # t => db'.tasks[u] = db.tasks[u]
      /\ FactoryGrown /\ FactoryRowsOK' /\ Unreported(a)' /\ BuildStarted' = BuildStarted
      /\ \A b \in DOMAIN db.archs : b # a => ArchStays(b)
      /\ use.load = 1 => FactorySerialRowsOK'
      /\ NothingScanned /\ row.security = "none" => NothingScanned'
  BY <1>3, <1>4, TaskWritten
<1>6. Implemented(a)' /\ (Tested(a) => Tested(a)')
  BY <1>3, <1>5 DEF Implemented, Tested
<1>7. PICK next \in FactoryCall :
        /\ F!GoTo(c, next) /\ next.arch = a
        /\ \/ next.at = call.at
           \/ call.at = "review" /\ next.at = "status" /\ next.to = "TESTING" /\ FactoryPlace(next) \in {"qa", "status"}
           \/ call.at = "qa" /\ next.at = "integrate"
           \/ call.at = "secure" /\ next.at = "estimate"
  <2> DEFINE after == AfterReview(call)
             to == F!NextTask(call, after)
  <2>1. \/ to = after
        \/ to \in FactoryCall /\ to.at = call.at /\ to.arch = call.arch
    BY <1>1, <1>3, NextTaskFacts DEF F!FactoryConstants
  <2>2. "TESTING" \in ProductStatus /\ F!Stage["TESTING"] = "qa"
    BY FactoryStageFacts DEF ProductStatus, F!PRODUCT_STATUS_TRANSITIONS
  <2>3. /\ after \in FactoryCall /\ after.arch = a
        /\ \/ call.at = "review" /\ after.at = "status" /\ after.to = "TESTING" /\ FactoryPlace(after) \in {"qa", "status"}
           \/ call.at = "qa" /\ after.at = "integrate"
           \/ call.at = "secure" /\ after.at = "estimate"
    <3>1. CASE call.at = "review"
      BY <2>2, <3>1, SetToFacts DEF AfterReview
    <3>2. CASE call.at = "qa"
      BY <3>2 DEF AfterReview, FactoryCall
    <3>3. CASE call.at = "secure"
      BY <3>3 DEF AfterReview, FactoryCall
    <3> QED BY <1>2, <3>1, <3>2, <3>3
  <2>4. F!GoTo(c, to)
    BY <1>0
  <2> HIDE DEF after, to
  <2> QED BY <2>1, <2>3, <2>4
<1>8. "TESTING" \in ProductStatus \ EarlyStatuses
  BY DEF ProductStatus, F!PRODUCT_STATUS_TRANSITIONS, EarlyStatuses
<1>9. /\ FactoryPlace(next)' = FactoryPlace(next)
      /\ next.at # "status" => FactoryPlace(next) = next.at
  BY <1>2, <1>7 DEF FactoryPlace
<1>10. FactoryCallOK(next)'
  BY <1>2, <1>3, <1>5, <1>6, <1>7, <1>8, <1>9 DEF FactoryCallOK, Unreported, Later, Engineering, Reviewing, Scanned
<1>11. ASSUME use.load = 1 PROVE FactorySerialCallOK(next)'
  <2>1. CASE call.at = "secure"
    <3>1. BuildStarted
      BY <1>1, <1>11, <2>1 DEF FactorySerialCallOK, Scanned
    <3> QED BY <1>5, <1>7, <1>9, <2>1, <3>1 DEF FactorySerialCallOK, Scanned, Before, Engineering
  <2>2. CASE call.at # "secure"
    <3>1. NothingScanned
      BY <1>1, <1>2, <1>11, <2>2 DEF FactorySerialCallOK, Before
    <3>2. NothingScanned'
      BY <1>0, <1>3, <1>5, <2>2, <3>1 DEF NothingScanned
    <3> QED BY <1>2, <1>7, <1>9, <2>2, <3>2 DEF FactorySerialCallOK, Scanned
  <2> QED BY <2>1, <2>2
<1> QED BY <1>0, <1>2, <1>5, <1>7, <1>10, <1>11, FactoryWrite

LEMMA AttemptedInv ==
  ASSUME F!FactoryConstants, FactoryInv, NEW c \in Calls, calls[c].at \in {"engineering", "typecheck"}, F!Attempted(c, F!TheTask(calls[c])),
         UNCHANGED <<memory, history>>, use' \in F!Use, use'.load = use.load
  PROVE  FactoryInv'
<1>0. PICK call \in FactoryCall : call = calls[c]
  BY DEF FactoryInv, FactoryTypes
<1>t. PICK t : t = F!TheTask(call)
  OBVIOUS
<1> DEFINE a == call.arch
           again == [call EXCEPT !.at = "engineer", !.n = @ + 1, !.files = {}]
           failed == F!SetTo(call, "FAILED")
           row == [db.tasks[t] EXCEPT !.status = "FAILED", !.attempts = @ + 1]
<1>1. FactoryCallOK(call) /\ (use.load = 1 => FactorySerialCallOK(call)) /\ db \in FactoryTables
  BY <1>0 DEF FactoryInv, FactoryTypes
<1>2. FactoryPlace(call) = call.at /\ call.at \in {"engineering", "typecheck"}
  BY <1>0 DEF FactoryPlace
<1>3. /\ Unreported(a) /\ a \in DOMAIN db.archs /\ db.archs[a].ux /\ t \in F!TasksOf(a) /\ t \in DOMAIN db.tasks /\ db.tasks[t].arch = a
      /\ db.tasks[t] \in EngineeringTask /\ TaskPair(a) /\ Tasked(call) /\ (use.load = 1 => NothingScanned)
  BY <1>1, <1>2, <1>t, AtTask DEF Engineering, FactoryCallOK, Unreported, FactorySerialCallOK, Before
<1>4. db.tasks[t].status = "IN_PROGRESS" /\ db.tasks[t].attempts < MAX_TASK_ATTEMPTS
  BY <1>2, <1>3, <1>t DEF Tasked
<1>5. PICK n \in Attempts : n = db.tasks[t].attempts + 1
  BY <1>3, <1>4 DEF EngineeringTask, Attempts, F!FactoryConstants
<1>6. row = [db.tasks[t] EXCEPT !.status = "FAILED", !.attempts = n]
  BY <1>5
<1>7. row \in EngineeringTask /\ row.arch = a /\ row.status = "FAILED" /\ row.attempts = n
      /\ row.security = db.tasks[t].security /\ row.files = db.tasks[t].files
  BY <1>3, <1>6 DEF EngineeringTask, F!ENGINEERING_TASK_STATUS_TRANSITIONS
<1>8. db' = [db EXCEPT !.tasks = [db.tasks EXCEPT ![t] = row]]
  <2>1. db' = [db EXCEPT !.tasks[t].status = "FAILED", !.tasks[t].attempts = n]
    BY <1>0, <1>t, <1>5 DEF F!Attempted
  <2> DEFINE mid == [db EXCEPT !.tasks = [db.tasks EXCEPT ![t] = [db.tasks[t] EXCEPT !.status = "FAILED"]]]
  <2>2. db' = [mid EXCEPT !.tasks = [mid.tasks EXCEPT ![t] = [mid.tasks[t] EXCEPT !.attempts = n]]]
    BY <2>1
  <2>3. db.tasks \in Seq(EngineeringTask)
    BY <1>1 DEF FactoryTables
  <2>4. mid.tasks = [db.tasks EXCEPT ![t] = [db.tasks[t] EXCEPT !.status = "FAILED"]]
    BY <1>1 DEF FactoryTables
  <2>5. mid.tasks[t] = [db.tasks[t] EXCEPT !.status = "FAILED"]
    BY <1>3, <2>3, <2>4
  <2>6. [mid.tasks[t] EXCEPT !.attempts = n] = row
    BY <1>3, <1>6, <2>5 DEF EngineeringTask
  <2>7. [mid.tasks EXCEPT ![t] = row] = [db.tasks EXCEPT ![t] = row]
    BY <1>3, <2>3, <2>4
  <2>8. db' = [mid EXCEPT !.tasks = [db.tasks EXCEPT ![t] = row]]
    BY <2>2, <2>6, <2>7
  <2> QED BY <2>8
<1>9. \/ call.n < MAX_TASK_ATTEMPTS /\ n < MAX_TASK_ATTEMPTS /\ F!GoTo(c, again)
      \/ F!GoTo(c, failed)
  BY <1>0, <1>t, <1>5 DEF F!Attempted
<1> HIDE DEF row
<1>10. /\ db' \in FactoryTables /\ db'.archs = db.archs /\ F!TasksOf(a)' = F!TasksOf(a)
       /\ db'.tasks[t] = row /\ \A u \in F!TasksOf(a) : u # t => db'.tasks[u] = db.tasks[u]
       /\ FactoryGrown /\ FactoryRowsOK' /\ Unreported(a)' /\ BuildStarted' = BuildStarted
       /\ \A b \in DOMAIN db.archs : b # a => ArchStays(b)
       /\ use.load = 1 => FactorySerialRowsOK'
       /\ NothingScanned /\ row.security = "none" => NothingScanned'
  BY <1>3, <1>7, <1>8, TaskWritten
<1>11. use.load = 1 => NothingScanned'
  BY <1>3, <1>7, <1>10 DEF NothingScanned
<1>12. CASE call.n < MAX_TASK_ATTEMPTS /\ n < MAX_TASK_ATTEMPTS /\ F!GoTo(c, again)
  <2>1. PICK k \in Attempts : k = call.n + 1
    BY <1>12 DEF FactoryCall, Attempts, F!FactoryConstants
  <2>2. again = [call EXCEPT !.at = "engineer", !.n = k, !.files = {}]
    BY <2>1
  <2>3. again \in FactoryCall /\ again.at = "engineer" /\ again.arch = a /\ again.i = call.i
    BY <2>2 DEF FactoryCall
  <2> HIDE DEF again
  <2>4. FactoryPlace(again)' = "engineer"
    BY <2>3 DEF FactoryPlace
  <2>5. Tasked(again)'
    <3>1. call.i = 2 => \A u \in F!TasksOf(a) : u + 1 \in F!TasksOf(a) => u # t
      <4>1. ASSUME call.i = 2, NEW u \in F!TasksOf(a), u + 1 \in F!TasksOf(a) PROVE u # t
        <5>1. PICK s \in DOMAIN db.tasks : s + 1 = t /\ F!TasksOf(a) = {s, s + 1}
          BY <1>1, <1>3, <1>t, <4>1, TaskFacts DEF FactoryInv
        <5>2. s \in Nat
          BY FactoryRows DEF FactoryInv
        <5> QED BY <4>1, <5>1, <5>2
      <4> QED BY <4>1
    <3>2. \A u \in F!TasksOf(a) : db'.tasks[u].status # "COMPLETED" => db'.tasks[u].attempts < MAX_TASK_ATTEMPTS
      BY <1>3, <1>7, <1>10, <1>12 DEF Tasked
    <3> QED BY <1>3, <1>10, <2>3, <3>1, <3>2 DEF Tasked
  <2>6. FactoryCallOK(again)' /\ (use.load = 1 => FactorySerialCallOK(again)')
    BY <1>3, <1>10, <1>11, <2>3, <2>4, <2>5 DEF FactoryCallOK, FactorySerialCallOK, Unreported, Later, Engineering, Reviewing, Scanned
  <2> QED BY <1>0, <1>2, <1>10, <1>12, <2>3, <2>6, FactoryWrite
<1>13. CASE F!GoTo(c, failed)
  <2>1. "FAILED" \in ProductStatus \ EarlyStatuses /\ "FAILED" \notin DOMAIN F!Stage
    BY FactoryStageFacts DEF ProductStatus, F!PRODUCT_STATUS_TRANSITIONS, EarlyStatuses
  <2>2. failed \in FactoryCall /\ failed.at = "status" /\ failed.to = "FAILED" /\ failed.arch = a /\ FactoryPlace(failed) = "status"
    BY <2>1, SetToFacts
  <2> HIDE DEF failed
  <2>3. FactoryPlace(failed)' = "status"
    BY <2>2 DEF FactoryPlace
  <2>4. FactoryCallOK(failed)' /\ FactorySerialCallOK(failed)'
    BY <1>3, <1>10, <2>1, <2>2, <2>3 DEF FactoryCallOK, FactorySerialCallOK, Later, Engineering, Reviewing, Scanned, Before
  <2> QED BY <1>0, <1>2, <1>10, <1>13, <2>2, <2>4, FactoryWrite
<1> QED BY <1>9, <1>12, <1>13

LEMMA EngineeringAgentStartInv ==
  ASSUME F!FactoryConstants, FactoryInv, NEW c \in Calls, F!EngineeringAgentStart(c)
  PROVE  FactoryInv'
<1>0. PICK call \in FactoryCall : call = calls[c]
  BY DEF FactoryInv, FactoryTypes
<1>t. PICK t : t = F!TheTask(call)
  OBVIOUS
<1> DEFINE a == call.arch
           next == [call EXCEPT !.at = "engineering"]
           row == [db.tasks[t] EXCEPT !.status = "IN_PROGRESS"]
<1>1. FactoryCallOK(call) /\ (use.load = 1 => FactorySerialCallOK(call)) /\ db \in FactoryTables /\ use \in F!Use
  BY <1>0 DEF FactoryInv, FactoryTypes
<1>2. call.at = "engineer" /\ FactoryPlace(call) = "engineer" /\ UNCHANGED <<use, memory, history>>
  BY <1>0 DEF F!EngineeringAgentStart, FactoryPlace
<1>3. \/ F!Return(c) /\ UNCHANGED db
      \/ /\ "IN_PROGRESS" \in F!ENGINEERING_TASK_STATUS_TRANSITIONS[db.tasks[t].status]
         /\ db' = [db EXCEPT !.tasks[t].status = "IN_PROGRESS"] /\ F!GoTo(c, next)
  BY <1>0, <1>t DEF F!EngineeringAgentStart
<1>4. CASE F!Return(c) /\ UNCHANGED db
  BY <1>0, <1>1, <1>2, <1>4, FactoryEnds
<1>5. CASE /\ "IN_PROGRESS" \in F!ENGINEERING_TASK_STATUS_TRANSITIONS[db.tasks[t].status]
           /\ db' = [db EXCEPT !.tasks[t].status = "IN_PROGRESS"] /\ F!GoTo(c, next)
  <2>1. /\ Unreported(a) /\ a \in DOMAIN db.archs /\ db.archs[a].ux /\ t \in F!TasksOf(a) /\ t \in DOMAIN db.tasks /\ db.tasks[t].arch = a
        /\ db.tasks[t] \in EngineeringTask /\ TaskPair(a) /\ Tasked(call) /\ (use.load = 1 => NothingScanned)
    BY <1>1, <1>2, <1>t, AtTask DEF Engineering, FactoryCallOK, Unreported, FactorySerialCallOK, Before
  <2>2. db.tasks[t].status # "COMPLETED"
    BY <1>5 DEF F!ENGINEERING_TASK_STATUS_TRANSITIONS
  <2>3. row \in EngineeringTask /\ row.arch = a /\ row.status = "IN_PROGRESS" /\ row.attempts = db.tasks[t].attempts
        /\ row.security = db.tasks[t].security /\ row.files = db.tasks[t].files
    BY <2>1 DEF EngineeringTask, F!ENGINEERING_TASK_STATUS_TRANSITIONS
  <2>4. db' = [db EXCEPT !.tasks = [db.tasks EXCEPT ![t] = row]]
    BY <1>5
  <2> HIDE DEF row
  <2>5. /\ db' \in FactoryTables /\ db'.archs = db.archs /\ F!TasksOf(a)' = F!TasksOf(a)
        /\ db'.tasks[t] = row /\ \A u \in F!TasksOf(a) : u # t => db'.tasks[u] = db.tasks[u]
        /\ FactoryGrown /\ FactoryRowsOK' /\ Unreported(a)' /\ BuildStarted' = BuildStarted
        /\ \A b \in DOMAIN db.archs : b # a => ArchStays(b)
        /\ use.load = 1 => FactorySerialRowsOK'
        /\ NothingScanned /\ row.security = "none" => NothingScanned'
    BY <1>2, <2>1, <2>3, <2>4, TaskWritten
  <2>6. use.load = 1 => NothingScanned'
    BY <2>1, <2>3, <2>5 DEF NothingScanned
  <2>7. next \in FactoryCall /\ next.at = "engineering" /\ next.arch = a /\ next.i = call.i
    BY DEF FactoryCall
  <2> HIDE DEF next
  <2>8. FactoryPlace(next)' = "engineering"
    BY <2>7 DEF FactoryPlace
  <2>9. Tasked(next)'
    <3>1. call.i = 2 => \A u \in F!TasksOf(a) : u + 1 \in F!TasksOf(a) => u # t
      <4>1. ASSUME call.i = 2, NEW u \in F!TasksOf(a), u + 1 \in F!TasksOf(a) PROVE u # t
        <5>1. PICK s \in DOMAIN db.tasks : s + 1 = t /\ F!TasksOf(a) = {s, s + 1}
          BY <1>t, <2>1, <4>1, TaskFacts DEF FactoryInv
        <5>2. s \in Nat
          BY FactoryRows DEF FactoryInv
        <5> QED BY <4>1, <5>1, <5>2
      <4> QED BY <4>1
    <3>2. \A u \in F!TasksOf(a) : db'.tasks[u].status # "COMPLETED" => db'.tasks[u].attempts < MAX_TASK_ATTEMPTS
      BY <2>1, <2>2, <2>3, <2>5 DEF Tasked
    <3>3. F!TheTask(next)' = t
      BY <1>t, <2>5, <2>7 DEF F!TheTask
    <3> QED BY <2>1, <2>3, <2>5, <2>7, <3>1, <3>2, <3>3 DEF Tasked
  <2>10. FactoryCallOK(next)' /\ (use.load = 1 => FactorySerialCallOK(next)')
    BY <2>1, <2>5, <2>6, <2>7, <2>8, <2>9 DEF FactoryCallOK, FactorySerialCallOK, Unreported, Later, Engineering, Reviewing, Scanned
  <2> QED BY <1>0, <1>1, <1>2, <1>5, <2>5, <2>7, <2>10, FactoryWrite
<1> QED BY <1>3, <1>4, <1>5

LEMMA EngineeringAgentWriteInv ==
  ASSUME F!FactoryConstants, FactoryInv, NEW c \in Calls, NEW answer, F!EngineeringAgentWrite(c, answer)
  PROVE  FactoryInv'
<1>0. PICK call \in FactoryCall : call = calls[c]
  BY DEF FactoryInv, FactoryTypes
<1>t. PICK t : t = F!TheTask(call)
  OBVIOUS
<1> DEFINE files == answer.files \cup IF answer.mount THEN {"index"} ELSE {}
           next == [call EXCEPT !.at = "typecheck", !.files = files]
<1>1. FactoryCallOK(call) /\ (use.load = 1 => FactorySerialCallOK(call)) /\ use \in F!Use
  BY <1>0 DEF FactoryInv, FactoryTypes
<1>2. call.at = "engineering" /\ FactoryPlace(call) = "engineering" /\ UNCHANGED <<use, history>>
  BY <1>0 DEF F!EngineeringAgentWrite, FactoryPlace
<1>3. \/ F!validateEngineeringOutput(db.tasks[t], answer) /\ F!GoTo(c, next) /\ UNCHANGED db
      \/ F!Attempted(c, t) /\ UNCHANGED memory
  BY <1>0, <1>t DEF F!EngineeringAgentWrite
<1>4. CASE F!validateEngineeringOutput(db.tasks[t], answer) /\ F!GoTo(c, next) /\ UNCHANGED db
  <2>1. db.tasks[t] \in EngineeringTask /\ Tasked(call) /\ (use.load = 1 => NothingScanned)
    BY <1>1, <1>2, <1>t, AtTask DEF Engineering, FactoryCallOK, FactorySerialCallOK, Before
  <2>2. files \subseteq WorkspaceFile
    <3>1. answer.files \subseteq WorkspaceFile
      BY <1>4, <2>1 DEF F!validateEngineeringOutput, EngineeringTask
    <3> QED BY <3>1 DEF WorkspaceFile
  <2> HIDE DEF files
  <2>3. next \in FactoryCall /\ next.at = "typecheck" /\ next.arch = call.arch /\ next.i = call.i
    BY <2>2 DEF FactoryCall
  <2> HIDE DEF next
  <2>4. FactoryPlace(next) = "typecheck"
    BY <2>3 DEF FactoryPlace
  <2>5. F!TheTask(next) = F!TheTask(call)
    BY <2>3 DEF F!TheTask
  <2>6. FactoryCallOK(next)
    BY <1>1, <1>2, <2>1, <2>3, <2>4, <2>5 DEF FactoryCallOK, Tasked, Later, Engineering, Reviewing, Scanned
  <2>7. use.load = 1 => FactorySerialCallOK(next) /\ NothingScanned
    BY <2>1, <2>3 DEF FactorySerialCallOK, Scanned
  <2> QED BY <1>0, <1>1, <1>2, <1>4, <2>3, <2>6, <2>7, FactoryPassOn
<1>5. CASE F!Attempted(c, t) /\ UNCHANGED memory
  BY <1>0, <1>1, <1>2, <1>5, <1>t, AttemptedInv
<1> QED BY <1>3, <1>4, <1>5

LEMMA EngineeringAgentTypecheckInv ==
  ASSUME F!FactoryConstants, FactoryInv, NEW c \in Calls, F!EngineeringAgentTypecheck(c)
  PROVE  FactoryInv'
<1>0. PICK call \in FactoryCall : call = calls[c]
  BY DEF FactoryInv, FactoryTypes
<1>t. PICK t : t = F!TheTask(call)
  OBVIOUS
<1> DEFINE a == call.arch
           next == [call EXCEPT !.at = "complete", !.files = {}]
           row == [db.tasks[t] EXCEPT !.files = call.files]
<1>1. FactoryCallOK(call) /\ (use.load = 1 => FactorySerialCallOK(call)) /\ db \in FactoryTables /\ use \in F!Use /\ FactoryTypes
  BY <1>0 DEF FactoryInv, FactoryTypes
<1>2. call.at = "typecheck" /\ FactoryPlace(call) = "typecheck" /\ UNCHANGED <<use, memory, history>>
  BY <1>0 DEF F!EngineeringAgentTypecheck, FactoryPlace
<1>3. \/ F!Attempted(c, t)
      \/ db' = [db EXCEPT !.tasks[t].files = call.files] /\ F!GoTo(c, next)
  BY <1>0, <1>t DEF F!EngineeringAgentTypecheck
<1>4. CASE F!Attempted(c, t)
  BY <1>0, <1>1, <1>2, <1>4, <1>t, AttemptedInv
<1>5. CASE db' = [db EXCEPT !.tasks[t].files = call.files] /\ F!GoTo(c, next)
  <2>1. /\ Unreported(a) /\ a \in DOMAIN db.archs /\ db.archs[a].ux /\ t \in F!TasksOf(a) /\ t \in DOMAIN db.tasks /\ db.tasks[t].arch = a
        /\ db.tasks[t] \in EngineeringTask /\ TaskPair(a) /\ Tasked(call) /\ (use.load = 1 => NothingScanned)
    BY <1>1, <1>2, <1>t, AtTask DEF Engineering, FactoryCallOK, Unreported, FactorySerialCallOK, Before
  <2>2. row \in EngineeringTask /\ row.arch = a /\ row.status = db.tasks[t].status /\ row.attempts = db.tasks[t].attempts
        /\ row.security = db.tasks[t].security
    BY <2>1 DEF EngineeringTask, FactoryCall
  <2>3. db' = [db EXCEPT !.tasks = [db.tasks EXCEPT ![t] = row]]
    BY <1>5
  <2> HIDE DEF row
  <2>4. use.load = 1 => NothingScanned /\ row.security = "none"
    BY <2>1, <2>2 DEF NothingScanned
  <2>5. /\ db' \in FactoryTables /\ db'.archs = db.archs /\ F!TasksOf(a)' = F!TasksOf(a)
        /\ db'.tasks[t] = row /\ \A u \in F!TasksOf(a) : u # t => db'.tasks[u] = db.tasks[u]
        /\ FactoryGrown /\ FactoryRowsOK' /\ Unreported(a)' /\ BuildStarted' = BuildStarted
        /\ \A b \in DOMAIN db.archs : b # a => ArchStays(b)
        /\ use.load = 1 => FactorySerialRowsOK'
        /\ NothingScanned /\ row.security = "none" => NothingScanned'
    BY <1>2, <2>1, <2>2, <2>3, <2>4, TaskWritten
  <2>6. use.load = 1 => NothingScanned'
    BY <2>4, <2>5
  <2>7. next \in FactoryCall /\ next.at = "complete" /\ next.arch = a /\ next.i = call.i
    BY DEF FactoryCall
  <2> HIDE DEF next
  <2>8. FactoryPlace(next)' = "complete"
    BY <2>7 DEF FactoryPlace
  <2>9. \A u \in F!TasksOf(a) : db'.tasks[u].status = db.tasks[u].status /\ db'.tasks[u].attempts = db.tasks[u].attempts
    BY <2>2, <2>5
  <2>10. Tasked(next)'
    <3>1. F!TheTask(next)' = F!TheTask(call)
      BY <2>5, <2>7 DEF F!TheTask
    <3> QED BY <1>2, <2>1, <2>5, <2>7, <2>9, <3>1 DEF Tasked
  <2>11. FactoryCallOK(next)' /\ (use.load = 1 => FactorySerialCallOK(next)')
    BY <2>1, <2>5, <2>6, <2>7, <2>8, <2>10 DEF FactoryCallOK, FactorySerialCallOK, Unreported, Later, Engineering, Reviewing, Scanned
  <2> QED BY <1>0, <1>1, <1>2, <1>5, <2>5, <2>7, <2>11, FactoryWrite
<1> QED BY <1>3, <1>4, <1>5

LEMMA EngineeringAgentCompleteInv ==
  ASSUME F!FactoryConstants, FactoryInv, NEW c \in Calls, F!EngineeringAgentComplete(c)
  PROVE  FactoryInv'
<1>0. PICK call \in FactoryCall : call = calls[c]
  BY DEF FactoryInv, FactoryTypes
<1>t. PICK t : t = F!TheTask(call)
  OBVIOUS
<1> DEFINE a == call.arch
           other == [call EXCEPT !.at = "engineer"]
           after == F!SetTo(call, "REVIEWING")
           to == F!NextTask(other, after)
           row == [db.tasks[t] EXCEPT !.status = "COMPLETED"]
<1>1. FactoryCallOK(call) /\ (use.load = 1 => FactorySerialCallOK(call)) /\ db \in FactoryTables /\ use \in F!Use /\ FactoryTypes
  BY <1>0 DEF FactoryInv, FactoryTypes
<1>2. call.at = "complete" /\ FactoryPlace(call) = "complete" /\ UNCHANGED <<use, memory, history>>
  BY <1>0 DEF F!EngineeringAgentComplete, FactoryPlace
<1>3. db' = [db EXCEPT !.tasks[t].status = "COMPLETED"] /\ F!GoTo(c, to)
  BY <1>0, <1>t DEF F!EngineeringAgentComplete
<1>4. /\ Unreported(a) /\ a \in DOMAIN db.archs /\ db.archs[a].ux /\ t \in F!TasksOf(a) /\ t \in DOMAIN db.tasks /\ db.tasks[t].arch = a
      /\ db.tasks[t] \in EngineeringTask /\ TaskPair(a) /\ Tasked(call) /\ (use.load = 1 => NothingScanned)
  BY <1>1, <1>2, <1>t, AtTask DEF Engineering, FactoryCallOK, Unreported, FactorySerialCallOK, Before
<1>5. row \in EngineeringTask /\ row.arch = a /\ row.status = "COMPLETED" /\ row.security = db.tasks[t].security
  BY <1>4 DEF EngineeringTask, FactoryCall, F!ENGINEERING_TASK_STATUS_TRANSITIONS
<1>6. db' = [db EXCEPT !.tasks = [db.tasks EXCEPT ![t] = row]]
  BY <1>3
<1> HIDE DEF row
<1>7. use.load = 1 => NothingScanned /\ row.security = "none"
  BY <1>4, <1>5 DEF NothingScanned
<1>8. /\ db' \in FactoryTables /\ db'.archs = db.archs /\ F!TasksOf(a)' = F!TasksOf(a)
      /\ db'.tasks[t] = row /\ \A u \in F!TasksOf(a) : u # t => db'.tasks[u] = db.tasks[u]
      /\ FactoryGrown /\ FactoryRowsOK' /\ Unreported(a)' /\ BuildStarted' = BuildStarted
      /\ \A b \in DOMAIN db.archs : b # a => ArchStays(b)
      /\ use.load = 1 => FactorySerialRowsOK'
      /\ NothingScanned /\ row.security = "none" => NothingScanned'
  BY <1>2, <1>4, <1>5, <1>6, <1>7, TaskWritten
<1>9. use.load = 1 => NothingScanned'
  BY <1>7, <1>8
<1>10. other \in FactoryCall /\ other.arch = a /\ other.i = call.i /\ other.at = "engineer"
  BY DEF FactoryCall
<1>11. "REVIEWING" \in ProductStatus \ EarlyStatuses /\ F!Stage["REVIEWING"] = "review"
  BY FactoryStageFacts DEF ProductStatus, F!PRODUCT_STATUS_TRANSITIONS, EarlyStatuses
<1>12. PICK next \in FactoryCall :
        /\ F!GoTo(c, next) /\ next.arch = a
        /\ \/ next.at = "engineer" /\ call.i = 1 /\ next.i = 2
           \/ next.at = "status" /\ next.to = "REVIEWING" /\ FactoryPlace(next) \in {"review", "status"} /\ call.i = 2
  <2>1. after \in FactoryCall /\ after.at = "status" /\ after.to = "REVIEWING" /\ after.arch = a /\ FactoryPlace(after) \in {"review", "status"}
    BY <1>10, <1>11, SetToFacts
  <2> HIDE DEF other, after
  <2>2. \/ to = after /\ other.i = 2
        \/ to \in FactoryCall /\ to.at = "engineer" /\ to.arch = a /\ to.i = 2 /\ other.i = 1
    BY <1>1, <1>4, <1>10, NextTaskFacts DEF F!FactoryConstants
  <2> HIDE DEF to
  <2> QED BY <1>3, <1>10, <2>1, <2>2
<1>13. /\ FactoryPlace(next)' = FactoryPlace(next)
       /\ next.at = "engineer" => FactoryPlace(next) = "engineer"
  BY DEF FactoryPlace
<1>14. CASE next.at = "engineer" /\ call.i = 1 /\ next.i = 2
  <2>1. F!TasksOf(a) = {t, t + 1}
    BY <1>1, <1>t, <1>4, <1>14, TaskFacts
  <2>2. t \in Nat
    BY <1>4, FactoryRows DEF FactoryInv
  <2>3. \A u \in F!TasksOf(a) : u + 1 \in F!TasksOf(a) => u = t
    BY <2>1, <2>2
  <2>4. \A u \in F!TasksOf(a) : db'.tasks[u].status # "COMPLETED" => db'.tasks[u].attempts < MAX_TASK_ATTEMPTS
    BY <1>4, <1>5, <1>8 DEF Tasked
  <2>5. Tasked(next)'
    BY <1>4, <1>5, <1>8, <1>12, <1>14, <2>3, <2>4 DEF Tasked
  <2>6. FactoryCallOK(next)' /\ (use.load = 1 => FactorySerialCallOK(next)')
    BY <1>4, <1>8, <1>9, <1>12, <1>13, <1>14, <2>5 DEF FactoryCallOK, FactorySerialCallOK, Unreported, Later, Engineering, Reviewing, Scanned
  <2> QED BY <1>0, <1>1, <1>2, <1>8, <1>12, <2>6, FactoryWrite
<1>15. CASE next.at = "status" /\ next.to = "REVIEWING" /\ FactoryPlace(next) \in {"review", "status"} /\ call.i = 2
  <2>1. PICK s \in DOMAIN db.tasks : s + 1 = t /\ F!TasksOf(a) = {s, s + 1}
    BY <1>1, <1>t, <1>4, <1>15, TaskFacts
  <2>2. s \in Nat
    BY FactoryRows DEF FactoryInv
  <2>3. db.tasks[s].status = "COMPLETED"
    BY <1>15, <2>1, <1>4 DEF Tasked
  <2>4. Implemented(a)'
    BY <1>4, <1>5, <1>8, <2>1, <2>2, <2>3 DEF Implemented
  <2>5. FactoryCallOK(next)' /\ (use.load = 1 => FactorySerialCallOK(next)')
    BY <1>4, <1>8, <1>9, <1>11, <1>12, <1>13, <1>15, <2>4 DEF FactoryCallOK, FactorySerialCallOK, Unreported, Later, Engineering, Reviewing, Scanned
  <2> QED BY <1>0, <1>1, <1>2, <1>8, <1>12, <2>5, FactoryWrite
<1> QED BY <1>12, <1>14, <1>15

LEMMA RunCodeReviewInv ==
  ASSUME F!FactoryConstants, FactoryInv, NEW c \in Calls, NEW blockers, F!RunCodeReview(c, blockers)
  PROVE  FactoryInv'
<1>0. PICK call \in FactoryCall : call = calls[c]
  BY DEF FactoryInv, FactoryTypes
<1>t. PICK t : t = F!TheTask(call)
  OBVIOUS
<1> DEFINE v == IF F!hasBlockingFinding(t, blockers) THEN "BLOCKING" ELSE "clean"
           row == [db.tasks[t] EXCEPT !.codeReview = v]
<1>1. FactoryCallOK(call) /\ use \in F!Use /\ call.at = "review" /\ FactoryPlace(call) = "review" /\ UNCHANGED <<use, memory, history>>
  BY <1>0 DEF FactoryInv, FactoryTypes, F!RunCodeReview, FactoryPlace
<1>2. \/ F!Return(c) /\ UNCHANGED db
      \/ db' = [db EXCEPT !.tasks[t].codeReview = v] /\ F!GoTo(c, F!NextTask(call, AfterReview(call)))
  BY <1>0, <1>1, <1>t DEF F!RunCodeReview, AfterReview
<1>3. db.tasks[t] \in EngineeringTask
  BY <1>1, <1>t, AtTask DEF Reviewing
<1>4. v \in {"BLOCKING", "clean"}
  OBVIOUS
<1> HIDE DEF v
<1>5. row \in EngineeringTask /\ row.arch = db.tasks[t].arch /\ row.status = db.tasks[t].status /\ row.files = db.tasks[t].files
      /\ row.tested = db.tasks[t].tested /\ row.security = db.tasks[t].security
  BY <1>3, <1>4 DEF EngineeringTask
<1>6. CASE db' = [db EXCEPT !.tasks[t].codeReview = v] /\ F!GoTo(c, F!NextTask(call, AfterReview(call)))
  <2>1. db' = [db EXCEPT !.tasks = [db.tasks EXCEPT ![t] = row]]
    BY <1>6
  <2> HIDE DEF row
  <2> QED BY <1>0, <1>1, <1>5, <1>6, <1>t, <2>1, ReviewInv
<1> QED BY <1>0, <1>1, <1>2, <1>6, FactoryEnds

LEMMA RunQaInv ==
  ASSUME F!FactoryConstants, FactoryInv, NEW c \in Calls, NEW verdict \in {"PASS", "PASS_WITH_GAPS", "FAIL"}, F!RunQa(c, verdict)
  PROVE  FactoryInv'
<1>0. PICK call \in FactoryCall : call = calls[c]
  BY DEF FactoryInv, FactoryTypes
<1>t. PICK t : t = F!TheTask(call)
  OBVIOUS
<1> DEFINE row == [db.tasks[t] EXCEPT !.qa = verdict]
<1>1. FactoryCallOK(call) /\ use \in F!Use /\ call.at = "qa" /\ FactoryPlace(call) = "qa" /\ UNCHANGED <<use, memory, history>>
  BY <1>0 DEF FactoryInv, FactoryTypes, F!RunQa, FactoryPlace
<1>2. \/ F!Return(c) /\ UNCHANGED db
      \/ db' = [db EXCEPT !.tasks[t].qa = verdict] /\ F!GoTo(c, F!NextTask(call, AfterReview(call)))
  BY <1>0, <1>1, <1>t DEF F!RunQa, AfterReview
<1>3. db.tasks[t] \in EngineeringTask
  BY <1>1, <1>t, AtTask DEF Reviewing
<1>4. row \in EngineeringTask /\ row.arch = db.tasks[t].arch /\ row.status = db.tasks[t].status /\ row.files = db.tasks[t].files
      /\ row.tested = db.tasks[t].tested /\ row.security = db.tasks[t].security
  BY <1>3 DEF EngineeringTask
<1>5. CASE db' = [db EXCEPT !.tasks[t].qa = verdict] /\ F!GoTo(c, F!NextTask(call, AfterReview(call)))
  <2>1. db' = [db EXCEPT !.tasks = [db.tasks EXCEPT ![t] = row]]
    BY <1>5
  <2> HIDE DEF row
  <2> QED BY <1>0, <1>1, <1>4, <1>5, <1>t, <2>1, ReviewInv
<1> QED BY <1>0, <1>1, <1>2, <1>5, FactoryEnds

LEMMA RunSecurityReviewInv ==
  ASSUME F!FactoryConstants, FactoryInv, NEW c \in Calls, NEW verdict \in {"PASS", "PASS_WITH_WARNINGS", "FAIL"}, F!RunSecurityReview(c, verdict)
  PROVE  FactoryInv'
<1>0. PICK call \in FactoryCall : call = calls[c]
  BY DEF FactoryInv, FactoryTypes
<1>t. PICK t : t = F!TheTask(call)
  OBVIOUS
<1> DEFINE v == IF F!Flawed(t) THEN "FAIL" ELSE verdict
           row == [db.tasks[t] EXCEPT !.security = v]
<1>1. FactoryCallOK(call) /\ use \in F!Use /\ call.at = "secure" /\ FactoryPlace(call) = "secure" /\ UNCHANGED <<use, memory, history>>
  BY <1>0 DEF FactoryInv, FactoryTypes, F!RunSecurityReview, FactoryPlace
<1>2. \/ F!Return(c) /\ UNCHANGED db
      \/ db' = [db EXCEPT !.tasks[t].security = v] /\ F!GoTo(c, F!NextTask(call, AfterReview(call)))
  BY <1>0, <1>1, <1>t DEF F!RunSecurityReview, AfterReview
<1>3. db.tasks[t] \in EngineeringTask
  BY <1>1, <1>t, AtTask DEF Reviewing, Scanned
<1>4. v \in {"PASS", "PASS_WITH_WARNINGS", "FAIL"} /\ (F!Flawed(t) => v = "FAIL")
  OBVIOUS
<1> HIDE DEF v
<1>5. row \in EngineeringTask /\ row.arch = db.tasks[t].arch /\ row.status = db.tasks[t].status /\ row.files = db.tasks[t].files
      /\ row.tested = db.tasks[t].tested /\ row.security = v
  BY <1>3, <1>4 DEF EngineeringTask
<1>6. CASE db' = [db EXCEPT !.tasks[t].security = v] /\ F!GoTo(c, F!NextTask(call, AfterReview(call)))
  <2>1. db' = [db EXCEPT !.tasks = [db.tasks EXCEPT ![t] = row]]
    BY <1>6
  <2> HIDE DEF row
  <2> QED BY <1>0, <1>1, <1>4, <1>5, <1>6, <1>t, <2>1, ReviewInv
<1> QED BY <1>0, <1>1, <1>2, <1>6, FactoryEnds

(* Every task of the architecture records whether the tests passed.        *)
LEMMA IntegrationInv ==
  ASSUME F!FactoryConstants, FactoryInv, NEW c \in Calls, calls[c].at = "integrate", NEW result \in {"passed", "failed"},
         db' = [db EXCEPT !.tasks = [t \in DOMAIN db.tasks |->
                  IF db.tasks[t].arch = calls[c].arch THEN [db.tasks[t] EXCEPT !.tested = result] ELSE db.tasks[t]]],
         F!GoTo(c, F!SetTo(calls[c], "SECURITY_REVIEW")), UNCHANGED <<memory, history>>, use' \in F!Use, use'.load = use.load
  PROVE  FactoryInv'
<1>0. PICK call \in FactoryCall : call = calls[c]
  BY DEF FactoryInv, FactoryTypes
<1> DEFINE a == call.arch
           Row(t) == IF db.tasks[t].arch = a THEN [db.tasks[t] EXCEPT !.tested = result] ELSE db.tasks[t]
           next == F!SetTo(call, "SECURITY_REVIEW")
<1>1. FactoryCallOK(call) /\ (use.load = 1 => FactorySerialCallOK(call)) /\ db \in FactoryTables /\ call.at = "integrate" /\ FactoryPlace(call) = "integrate"
  BY <1>0 DEF FactoryInv, FactoryTypes, FactoryPlace
<1>2. Unreported(a) /\ a \in DOMAIN db.archs /\ db.archs[a].ux /\ TaskPair(a) /\ Implemented(a) /\ (use.load = 1 => NothingScanned)
  BY <1>1, AtTask DEF Reviewing, FactoryCallOK, Unreported, FactorySerialCallOK, Before
<1>3. db.tasks \in Seq(EngineeringTask) /\ db'.tasks = [t \in DOMAIN db.tasks |-> Row(t)]
  BY <1>0, <1>1 DEF FactoryTables
<1>4. ASSUME NEW t \in DOMAIN db.tasks
      PROVE  /\ Row(t) \in EngineeringTask /\ Row(t).arch = db.tasks[t].arch /\ Row(t).status = db.tasks[t].status
             /\ Row(t).security = db.tasks[t].security /\ Row(t).files = db.tasks[t].files
             /\ db.tasks[t].arch = a => Row(t).tested # "none"
             /\ db.tasks[t].arch # a => Row(t) = db.tasks[t]
  <2>1. db.tasks[t] \in EngineeringTask
    BY <1>3
  <2>2. CASE db.tasks[t].arch = a
    BY <2>1, <2>2 DEF EngineeringTask
  <2>3. CASE db.tasks[t].arch # a
    BY <2>1, <2>3
  <2> QED BY <2>2, <2>3
<1>5. /\ DOMAIN db'.tasks = DOMAIN db.tasks
      /\ \A t \in DOMAIN db.tasks :
           /\ db'.tasks[t] \in EngineeringTask /\ db'.tasks[t].arch = db.tasks[t].arch /\ db'.tasks[t].status = db.tasks[t].status
           /\ db'.tasks[t].security = db.tasks[t].security /\ db'.tasks[t].files = db.tasks[t].files
           /\ db.tasks[t].arch = a => db'.tasks[t].tested # "none"
           /\ db.tasks[t].arch # a => db'.tasks[t] = db.tasks[t]
  <2>1. \A t \in DOMAIN db.tasks : db'.tasks[t] = Row(t)
    BY <1>3
  <2> HIDE DEF Row
  <2>2. DOMAIN db'.tasks = DOMAIN db.tasks
    BY <1>3
  <2> QED BY <1>4, <2>1, <2>2
<1>6. db'.tasks \in Seq(EngineeringTask)
  <2>1. PICK n \in Nat : n = Len(db.tasks) /\ DOMAIN db.tasks = 1 .. n
    BY <1>3
  <2>2. db'.tasks = [t \in 1 .. n |-> Row(t)] /\ \A t \in 1 .. n : Row(t) \in EngineeringTask
    BY <1>3, <1>4, <2>1
  <2> HIDE DEF Row
  <2> QED BY <2>1, <2>2
<1> HIDE DEF Row
<1>7. /\ db' \in FactoryTables /\ db'.product = db.product /\ db'.specs = db.specs /\ db'.archs = db.archs
      /\ db'.recs = db.recs /\ db'.chairs = db.chairs /\ db'.memos = db.memos
  BY <1>0, <1>1, <1>6 DEF FactoryTables
<1>8. F!TasksOf(a)' = F!TasksOf(a)
  BY <1>5 DEF F!TasksOf
<1>9. TaskPair(a)'
  BY <1>2, <1>5, <1>8 DEF TaskPair
<1>10. \A t \in DOMAIN db'.tasks :
         IF t \in DOMAIN db.tasks /\ db.tasks[t].arch # a THEN db'.tasks[t] = db.tasks[t] ELSE db'.tasks[t].arch = a
  BY <1>5
<1>11. /\ FactoryGrown /\ FactoryRowsOK' /\ Unreported(a)' /\ BuildStarted' = BuildStarted
       /\ \A b \in DOMAIN db.archs : b # a => ArchStays(b)
  BY <1>2, <1>5, <1>7, <1>9, <1>10, ArchWritten
<1>12. use.load = 1 => NothingScanned' /\ FactorySerialRowsOK'
  BY <1>2, <1>5, <1>7 DEF NothingScanned, FactorySerialRowsOK
<1>13. Implemented(a)' /\ Tested(a)'
  <2>1. Implemented(a)'
    BY <1>2, <1>5, <1>8 DEF Implemented, F!TasksOf
  <2> QED BY <1>2, <1>5, <1>8, <2>1 DEF Tested, F!TasksOf
<1>14. "SECURITY_REVIEW" \in ProductStatus \ EarlyStatuses /\ F!Stage["SECURITY_REVIEW"] = "secure"
  BY FactoryStageFacts DEF ProductStatus, F!PRODUCT_STATUS_TRANSITIONS, EarlyStatuses
<1>15. /\ next \in FactoryCall /\ next.at = "status" /\ next.to = "SECURITY_REVIEW" /\ next.arch = a
       /\ FactoryPlace(next) \in {"secure", "status"}
  BY <1>14, SetToFacts
<1> HIDE DEF next
<1>16. FactoryPlace(next)' = FactoryPlace(next)
  BY DEF FactoryPlace
<1>17. FactoryCallOK(next)' /\ (use.load = 1 => FactorySerialCallOK(next)')
  BY <1>2, <1>7, <1>11, <1>12, <1>13, <1>14, <1>15, <1>16 DEF FactoryCallOK, FactorySerialCallOK, Unreported, Later, Engineering, Reviewing, Scanned
<1>18. F!GoTo(c, next)
  BY <1>0 DEF next
<1> QED BY <1>0, <1>1, <1>7, <1>11, <1>12, <1>15, <1>17, <1>18, FactoryWrite

LEMMA RunFailsInv ==
  ASSUME F!FactoryConstants, FactoryInv, NEW c \in Calls, F!RunFails(c)
  PROVE  FactoryInv'
<1>0. PICK call \in FactoryCall : call = calls[c]
  BY DEF FactoryInv, FactoryTypes
<1>t. PICK t : t = F!TheTask(call)
  OBVIOUS
<1>1. use' \in F!Use /\ use'.load = use.load /\ UNCHANGED <<memory, history>> /\ call.at \in F!Runs
  BY <1>0, FaultFacts DEF F!RunFails, FactoryInv
<1>2. CASE call.at \in {"specify", "design", "ux", "recommend"}
  <2>1. F!GoTo(c, F!SetTo(call, "FAILED")) /\ UNCHANGED db
    BY <1>0, <1>2 DEF F!RunFails
  <2> QED BY <1>0, <1>1, <1>2, <2>1, FactoryEnds
<1>3. CASE call.at \in {"engineering", "typecheck"}
  <2>1. F!Attempted(c, F!TheTask(call))
    BY <1>0, <1>3 DEF F!RunFails
  <2> QED BY <1>0, <1>1, <1>3, <2>1, AttemptedInv
<1>4. CASE call.at \in {"review", "qa", "secure"}
  <2>1. F!GoTo(c, F!NextTask(call, AfterReview(call))) /\ UNCHANGED db
    BY <1>0, <1>4 DEF F!RunFails, AfterReview
  <2>2. FactoryCallOK(call) /\ FactoryPlace(call) = call.at
    BY <1>0, <1>4 DEF FactoryInv, FactoryPlace
  <2>3. db.tasks[t] \in EngineeringTask /\ t \in DOMAIN db.tasks
    BY <1>4, <1>t, <2>2, AtTask DEF Reviewing, Scanned
  <2>4. PICK row \in EngineeringTask : row = db.tasks[t]
    BY <2>3
  <2>5. db' = [db EXCEPT !.tasks = [db.tasks EXCEPT ![t] = row]]
    <3>1. db \in FactoryTables /\ db.tasks \in Seq(EngineeringTask)
      BY DEF FactoryInv, FactoryTypes, FactoryTables
    <3>2. [db.tasks EXCEPT ![t] = row] = db.tasks
      BY <2>3, <2>4, <3>1
    <3> QED BY <2>1, <3>1, <3>2 DEF FactoryTables
  <2> QED BY <1>0, <1>1, <1>4, <1>t, <2>1, <2>4, <2>5, ReviewInv
<1>5. CASE call.at = "integrate"
  <2>1. /\ db' = [db EXCEPT !.tasks = [u \in DOMAIN db.tasks |->
                   IF db.tasks[u].arch = calls[c].arch THEN [db.tasks[u] EXCEPT !.tested = "failed"] ELSE db.tasks[u]]]
        /\ F!GoTo(c, F!SetTo(calls[c], "SECURITY_REVIEW"))
    BY <1>0, <1>5 DEF F!RunFails
  <2> QED BY <1>0, <1>1, <1>5, <2>1, IntegrationInv
<1> QED BY <1>1, <1>2, <1>3, <1>4, <1>5 DEF F!Runs

LEMMA RunIntegrationTestInv ==
  ASSUME F!FactoryConstants, FactoryInv, NEW c \in Calls, NEW passed \in BOOLEAN, F!RunIntegrationTest(c, passed)
  PROVE  FactoryInv'
<1>1. PICK result \in {"passed", "failed"} : result = IF passed THEN "passed" ELSE "failed"
  OBVIOUS
<1>2. /\ calls[c].at = "integrate" /\ F!GoTo(c, F!SetTo(calls[c], "SECURITY_REVIEW")) /\ UNCHANGED <<use, memory, history>>
      /\ db' = [db EXCEPT !.tasks = [t \in DOMAIN db.tasks |->
                  IF db.tasks[t].arch = calls[c].arch THEN [db.tasks[t] EXCEPT !.tested = result] ELSE db.tasks[t]]]
  BY <1>1 DEF F!RunIntegrationTest
<1>3. use \in F!Use
  BY DEF FactoryInv, FactoryTypes
<1> QED BY <1>2, <1>3, IntegrationInv

-----------------------------------------------------------------------------
(* The memo and the decision on it.                                        *)

LEMMA OutcomeFacts ==
  ASSUME FactoryTypes
  PROVE  /\ F!Outcome \in Counts
         /\ \A t \in DOMAIN db.tasks :
              /\ db.tasks[t].codeReview = "BLOCKING" => F!Outcome.blocking > 0
              /\ db.tasks[t].qa = "FAIL" => F!Outcome.qa > 0
              /\ db.tasks[t].security = "FAIL" => F!Outcome.security > 0
<1> DEFINE Having(column, value) == {t \in DOMAIN db.tasks : db.tasks[t][column] = value}
<1>1. db.tasks \in Seq(EngineeringTask) /\ Len(db.tasks) \in Nat /\ DOMAIN db.tasks = 1 .. Len(db.tasks)
  BY DEF FactoryTypes, FactoryTables
<1>2. IsFiniteSet(DOMAIN db.tasks)
  <2>1. PICK n \in Nat : n = Len(db.tasks)
    BY <1>1
  <2>2. IsFiniteSet(1 .. n)
    BY FS_Interval
  <2> QED BY <1>1, <2>1, <2>2
<1>3. ASSUME NEW column, NEW value
      PROVE  /\ Cardinality(Having(column, value)) \in Nat
             /\ \A t \in DOMAIN db.tasks : db.tasks[t][column] = value => Cardinality(Having(column, value)) > 0
  <2>1. IsFiniteSet(Having(column, value))
    BY <1>2, FS_Subset
  <2>2. Cardinality(Having(column, value)) \in Nat
    BY <2>1, FS_CardinalityType
  <2>3. Cardinality(Having(column, value)) = 0 => Having(column, value) = {}
    BY <2>1, FS_EmptySet
  <2> QED BY <2>2, <2>3
<1>4. F!Outcome = [tasks |-> Len(db.tasks), completed |-> Cardinality(Having("status", "COMPLETED")),
                 blocking |-> Cardinality(Having("codeReview", "BLOCKING")),
                 qa |-> Cardinality(Having("qa", "FAIL")), security |-> Cardinality(Having("security", "FAIL"))]
  BY FactoryCounts DEF F!Outcome
<1> HIDE DEF Having
<1>5. F!Outcome \in Counts
  BY <1>1, <1>3, <1>4 DEF Counts
<1>6. /\ F!Outcome.blocking = Cardinality(Having("codeReview", "BLOCKING"))
      /\ F!Outcome.qa = Cardinality(Having("qa", "FAIL"))
      /\ F!Outcome.security = Cardinality(Having("security", "FAIL"))
  BY <1>4
<1> QED BY <1>3, <1>5, <1>6

LEMMA CompileMemoInv ==
  ASSUME F!FactoryConstants, FactoryInv, NEW c \in Calls, F!CompileMemo(c)
  PROVE  FactoryInv'
<1>0. PICK call \in FactoryCall : call = calls[c]
  BY DEF FactoryInv, FactoryTypes
<1>n. PICK counts \in Counts : counts = F!Outcome
  BY OutcomeFacts DEF FactoryInv
<1> DEFINE a == call.arch
           row == [arch |-> a, rec |-> call.rec, chair |-> call.chair, counts |-> counts, human |-> "none"]
           next == F!SetTo(call, "HUMAN_REVIEW")
<1>1. FactoryCallOK(call) /\ (use.load = 1 => FactorySerialCallOK(call)) /\ db \in FactoryTables /\ use \in F!Use
  BY <1>0 DEF FactoryInv, FactoryTypes
<1>2. /\ call.at = "memo" /\ FactoryPlace(call) = "memo" /\ UNCHANGED <<use, memory, history>>
      /\ db' = [db EXCEPT !.memos = Append(@, row)] /\ F!GoTo(c, next)
  BY <1>0, <1>n DEF F!CompileMemo, F!NewProductReviewMemo, FactoryPlace
<1>3. /\ Unreported(a) /\ a \in DOMAIN db.archs /\ db.archs[a].ux /\ Implemented(a) /\ Tested(a)
      /\ call.rec \in DOMAIN db.recs /\ call.chair \in DOMAIN db.chairs /\ (use.load = 1 => BuildStarted)
  BY <1>1, <1>2 DEF FactoryCallOK, Unreported, Later, Reviewing, Scanned, FactorySerialCallOK
<1>4. /\ row \in ReviewMemo /\ row.arch = a /\ row.rec = call.rec /\ row.chair = call.chair /\ row.counts = counts
  BY DEF ReviewMemo, FactoryCall
<1> HIDE DEF row
<1>5. db.memos \in Seq(ReviewMemo) /\ db'.memos = Append(db.memos, row)
  BY <1>1, <1>2 DEF FactoryTables
<1>6. PICK n \in Nat : /\ n = Len(db.memos) /\ DOMAIN db.memos = 1 .. n /\ DOMAIN db'.memos = 1 .. (n + 1) /\ db'.memos \in Seq(ReviewMemo)
                       /\ db'.memos[n + 1] = row /\ \A m \in 1 .. n : db'.memos[m] = db.memos[m]
  BY <1>4, <1>5
<1>7. /\ db' \in FactoryTables /\ db'.product = db.product /\ db'.specs = db.specs /\ db'.archs = db.archs /\ db'.tasks = db.tasks
      /\ db'.recs = db.recs /\ db'.chairs = db.chairs
  BY <1>1, <1>2, <1>6 DEF FactoryTables
<1>8. DOMAIN db.memos \subseteq DOMAIN db'.memos /\ \A m \in DOMAIN db'.memos : m \in DOMAIN db.memos \/ m = n + 1
  BY <1>6
<1>9. FactoryGrown
  BY <1>2, <1>7, <1>8 DEF FactoryGrown, AnApproval
<1>10. \A b : F!TasksOf(b)' = F!TasksOf(b)
  BY <1>7 DEF F!TasksOf
<1>11. \A b \in DOMAIN db.archs : b # a => ArchStays(b)
  BY <1>4, <1>6, <1>7, <1>8, <1>10 DEF ArchStays
<1>12. \A m \in DOMAIN db'.memos : MemoOK(db.memos[m])'
  <2>1. SUFFICES ASSUME NEW m \in DOMAIN db'.memos PROVE MemoOK(db.memos[m])'
    OBVIOUS
  <2>2. CASE m \in DOMAIN db.memos
    <3>1. PICK memo : memo = db.memos[m]
      OBVIOUS
    <3>2. MemoOK(memo) /\ memo.arch \in DOMAIN db.archs /\ memo.arch # a
      BY <1>3, <2>2, <3>1 DEF FactoryInv, FactoryRowsOK, MemoOK, Unreported
    <3>3. MemoOK(memo)'
      BY <1>9, <1>11, <3>2, MemoStays
    <3>4. db'.memos[m] = memo
      BY <1>6, <2>2, <3>1
    <3> QED BY <3>3, <3>4
  <2>3. CASE m = n + 1
    <3>1. PICK memo : memo = row
      OBVIOUS
    <3>2. \A t \in F!TasksOf(a) :
            /\ db.tasks[t].codeReview = "BLOCKING" => counts.blocking > 0
            /\ db.tasks[t].qa = "FAIL" => counts.qa > 0
            /\ db.tasks[t].security = "FAIL" => counts.security > 0
      BY <1>n, OutcomeFacts DEF FactoryInv, F!TasksOf
    <3>3. MemoOK(memo)'
      BY <1>3, <1>4, <1>7, <1>10, <3>1, <3>2 DEF MemoOK, Implemented, Tested
    <3>4. db'.memos[m] = memo
      BY <1>6, <2>3, <3>1
    <3> QED BY <3>3, <3>4
  <2> QED BY <1>8, <2>2, <2>3
<1>13. FactoryRowsOK'
  <2>1. \A b : TaskPair(b)' <=> TaskPair(b)
    BY <1>7, <1>10 DEF TaskPair
  <2> QED BY <1>2, <1>7, <1>8, <1>10, <1>12, <2>1 DEF FactoryInv, FactoryRowsOK, AnApproval
<1>14. BuildStarted' = BuildStarted
  BY <1>7 DEF BuildStarted
<1>15. use.load = 1 => FactorySerialRowsOK'
  BY <1>2, <1>3, <1>7, <1>14 DEF FactoryInv, FactorySerialRowsOK, F!Flawed
<1>16. "HUMAN_REVIEW" \in ProductStatus \ EarlyStatuses /\ "HUMAN_REVIEW" \notin DOMAIN F!Stage
  BY FactoryStageFacts DEF ProductStatus, F!PRODUCT_STATUS_TRANSITIONS, EarlyStatuses
<1>17. /\ next \in FactoryCall /\ next.at = "status" /\ next.to = "HUMAN_REVIEW" /\ next.arch = a /\ FactoryPlace(next) = "status"
  BY <1>16, SetToFacts
<1> HIDE DEF next
<1>18. FactoryPlace(next)' = FactoryPlace(next)
  BY DEF FactoryPlace
<1>19. FactoryCallOK(next)' /\ FactorySerialCallOK(next)'
  BY <1>3, <1>7, <1>16, <1>17, <1>18 DEF FactoryCallOK, FactorySerialCallOK, Later, Engineering, Reviewing, Scanned, Before
<1> QED BY <1>0, <1>1, <1>2, <1>7, <1>9, <1>11, <1>13, <1>15, <1>17, <1>19, FactoryWrite

LEMMA VerdictFacts ==
  /\ DOMAIN F!DecisionStatus = {"APPROVE", "REJECT", "REQUEST_CHANGES", "DEFER"}
  /\ \A v \in DOMAIN F!DecisionStatus :
       /\ F!DecisionStatus[v] # "none" => F!DecisionStatus[v] \in ProductStatus \ EarlyStatuses
       /\ F!DecisionStatus[v] = "READY_FOR_DEPLOYMENT" => v = "APPROVE"
<1>1. /\ DOMAIN F!DecisionStatus = {"APPROVE", "REJECT", "REQUEST_CHANGES", "DEFER"}
      /\ F!DecisionStatus["APPROVE"] = "READY_FOR_DEPLOYMENT" /\ F!DecisionStatus["REJECT"] = "REJECTED"
      /\ F!DecisionStatus["REQUEST_CHANGES"] = "BUILDING" /\ F!DecisionStatus["DEFER"] = "none"
  BY DEF F!DecisionStatus
<1>2. {"READY_FOR_DEPLOYMENT", "REJECTED", "BUILDING"} \subseteq ProductStatus \ EarlyStatuses
  BY DEF ProductStatus, F!PRODUCT_STATUS_TRANSITIONS, EarlyStatuses
<1> QED BY <1>1, <1>2

LEMMA HumanDecisionWriteInv ==
  ASSUME F!FactoryConstants, FactoryInv, NEW c \in Calls, F!DecisionWrite(c)
  PROVE  FactoryInv'
<1>0. PICK call \in FactoryCall : call = calls[c]
  BY DEF FactoryInv, FactoryTypes
<1> DEFINE r == call.rec
           row == [db.memos[r] EXCEPT !.human = call.to]
           moved == F!SetTo(call, F!DecisionStatus[call.to])
           next == [moved EXCEPT !.n = 0, !.rec = 0]
<1>1. FactoryCallOK(call) /\ db \in FactoryTables /\ use \in F!Use
  BY <1>0 DEF FactoryInv, FactoryTypes
<1>2. /\ call.at = "decide" /\ UNCHANGED <<use, memory>> /\ db' = [db EXCEPT !.memos[r].human = call.to]
      /\ history' = history \cup {[memo |-> r, verdict |-> call.to]}
  BY <1>0 DEF F!DecisionWrite
<1>3. \/ F!GoTo(c, F!Idle)
      \/ F!DecisionStatus[call.to] # "none" /\ F!GoTo(c, next)
  BY <1>0 DEF F!DecisionWrite, F!Return
<1>4. r \in DOMAIN db.memos /\ call.to \in DOMAIN F!DecisionStatus
  BY <1>1, <1>2 DEF FactoryCallOK
<1>5. row \in ReviewMemo /\ row.arch = db.memos[r].arch /\ row.rec = db.memos[r].rec /\ row.chair = db.memos[r].chair
      /\ row.counts = db.memos[r].counts
  BY <1>4, FactoryRows DEF FactoryInv, ReviewMemo
<1>6. db.memos \in Seq(ReviewMemo) /\ db'.memos = [db.memos EXCEPT ![r] = row]
  BY <1>1, <1>2 DEF FactoryTables
<1> HIDE DEF row
<1>7. /\ db'.memos \in Seq(ReviewMemo) /\ DOMAIN db'.memos = DOMAIN db.memos /\ db'.memos[r] = row
      /\ \A m \in DOMAIN db.memos : m # r => db'.memos[m] = db.memos[m]
  BY <1>4, <1>5, <1>6
<1>8. /\ db' \in FactoryTables /\ db'.product = db.product /\ db'.specs = db.specs /\ db'.archs = db.archs /\ db'.tasks = db.tasks
      /\ db'.recs = db.recs /\ db'.chairs = db.chairs
  BY <1>1, <1>2, <1>7 DEF FactoryTables
<1>9. (AnApproval => AnApproval') /\ (call.to = "APPROVE" => AnApproval')
  <2>1. PICK v : v = [memo |-> r, verdict |-> call.to]
    OBVIOUS
  <2>2. v.verdict = call.to /\ history' = history \cup {v}
    BY <1>2, <2>1
  <2> HIDE DEF r, moved, next
  <2> QED BY <2>2 DEF AnApproval
<1>10. FactoryGrown
  BY <1>7, <1>8, <1>9 DEF FactoryGrown
<1>11. \A b : F!TasksOf(b)' = F!TasksOf(b)
  BY <1>8 DEF F!TasksOf
<1>12. \A b \in DOMAIN db.archs : ArchStays(b)
  BY <1>4, <1>5, <1>7, <1>8, <1>11 DEF ArchStays
<1>13. \A m \in DOMAIN db'.memos : MemoOK(db.memos[m])'
  <2>1. SUFFICES ASSUME NEW m \in DOMAIN db.memos PROVE MemoOK(db.memos[m])'
    BY <1>7
  <2>2. PICK old : old = db.memos[m]
    OBVIOUS
  <2>3. PICK new : new = db'.memos[m]
    OBVIOUS
  <2>4. MemoOK(old)'
    BY <1>10, <1>12, <2>2, MemoStays DEF FactoryInv, FactoryRowsOK, MemoOK
  <2>5. new.arch = old.arch /\ new.rec = old.rec /\ new.chair = old.chair /\ new.counts = old.counts
    BY <1>5, <1>7, <2>2, <2>3
  <2>6. MemoOK(new)'
    BY <2>4, <2>5 DEF MemoOK, Implemented, Tested
  <2> QED BY <2>3, <2>6
<1>14. FactoryRowsOK'
  <2>1. \A b : TaskPair(b)' <=> TaskPair(b)
    BY <1>8, <1>11 DEF TaskPair
  <2>2. \A v \in history' : v.memo \in DOMAIN db'.memos
    BY <1>2, <1>4, <1>7 DEF FactoryInv, FactoryRowsOK
  <2> QED BY <1>8, <1>9, <1>11, <1>13, <2>1, <2>2 DEF FactoryInv, FactoryRowsOK
<1>15. use.load = 1 => FactorySerialRowsOK'
  <2>1. ~NothingScanned
    BY <1>4, <1>6 DEF NothingScanned
  <2> QED BY <1>2, <1>8, <2>1 DEF FactoryInv, FactorySerialRowsOK, BuildStarted, F!Flawed
<1>16. CASE F!GoTo(c, F!Idle)
  <2>1. FactoryCallOK(F!Idle)' /\ FactorySerialCallOK(F!Idle)'
    BY FactoryIdle DEF FactoryCallOK, FactorySerialCallOK, Later, Engineering, Reviewing, Scanned, Before, FactoryPlace
  <2> QED BY <1>0, <1>1, <1>2, <1>8, <1>10, <1>12, <1>14, <1>15, <1>16, <2>1, FactoryIdle, FactoryWrite
<1>17. CASE F!DecisionStatus[call.to] # "none" /\ F!GoTo(c, next)
  <2>1. PICK s \in ProductStatus \ EarlyStatuses : s = F!DecisionStatus[call.to] /\ (s = "READY_FOR_DEPLOYMENT" => call.to = "APPROVE")
    BY <1>4, <1>17, VerdictFacts
  <2>2. moved \in FactoryCall /\ moved.at = "status" /\ moved.to = s /\ moved.arch = call.arch
    BY <2>1, SetToFacts
  <2>3. 0 \in Attempts
    BY DEF Attempts, F!FactoryConstants
  <2> HIDE DEF moved
  <2>4. next \in FactoryCall /\ next.at = "status" /\ next.to = s /\ next.arch = call.arch /\ next.n = 0
    BY <2>2, <2>3 DEF FactoryCall
  <2> HIDE DEF next
  <2>5. FactoryPlace(next)' = "status"
    BY <2>4 DEF FactoryPlace
  <2>6. call.arch \in {0} \cup DOMAIN db'.archs
    BY <1>1, <1>8 DEF FactoryCallOK
  <2>7. FactoryCallOK(next)' /\ FactorySerialCallOK(next)'
    BY <1>9, <2>1, <2>4, <2>5, <2>6 DEF FactoryCallOK, FactorySerialCallOK, Later, Engineering, Reviewing, Scanned, Before
  <2> QED BY <1>0, <1>1, <1>2, <1>8, <1>10, <1>12, <1>14, <1>15, <1>17, <2>4, <2>7, FactoryWrite
<1> QED BY <1>3, <1>16, <1>17

LEMMA FactoryRestartInv ==
  ASSUME F!FactoryConstants, FactoryInv, F!Restart
  PROVE  FactoryInv'
<1>1. use' \in F!Use /\ use'.load = use.load
  BY DEF FactoryInv, FactoryTypes, F!Restart, F!Use
<1>2. calls' = [c \in Calls |-> F!Idle] /\ UNCHANGED <<db, memory, history>>
  BY DEF F!Restart
<1>3. FactoryTypes'
  BY <1>1, <1>2, FactoryIdle DEF FactoryInv, FactoryTypes
<1>4. FactoryCallOK(F!Idle)' /\ FactorySerialCallOK(F!Idle)'
  BY FactoryIdle DEF FactoryCallOK, FactorySerialCallOK, Later, Engineering, Reviewing, Scanned, Before, FactoryPlace
<1>5. \A c \in Calls : calls'[c] = F!Idle
  BY <1>2
<1>6. (\A c \in Calls : FactoryCallOK(calls[c])' /\ FactorySerialCallOK(calls[c])') /\ Unshared' /\ OneInFlight'
  BY <1>4, <1>5, FactoryIdle DEF Unshared, OneInFlight
<1>7. FactoryRowsOK' = FactoryRowsOK
  BY <1>2 DEF FactoryRowsOK, MemoOK, Implemented, Tested, F!TasksOf, TaskPair, AnApproval
<1>8. FactorySerialRowsOK' = FactorySerialRowsOK
  BY <1>2 DEF FactorySerialRowsOK, BuildStarted, NothingScanned, F!Flawed
<1> QED BY <1>1, <1>3, <1>6, <1>7, <1>8 DEF FactoryInv

LEMMA FactoryInitInv ==
  ASSUME F!FactoryConstants, F!FactoryInit
  PROVE  FactoryInv
<1>1. use \in F!Use /\ calls = [c \in Calls |-> F!Idle] /\ history = {}
  BY DEF F!FactoryInit, F!FactoryConstants
<1>2. /\ db.specs = <<>> /\ db.archs = <<>> /\ db.tasks = <<>> /\ db.recs = <<>> /\ db.chairs = <<>> /\ db.memos = <<>>
      /\ db.product.status = "none" /\ db \in FactoryTables
  BY DEF F!FactoryInit, FactoryTables, Product, ProductStatus, F!PRODUCT_STATUS_TRANSITIONS
<1>3. FactoryTypes
  BY <1>1, <1>2, FactoryIdle DEF FactoryTypes
<1>4. \A c \in Calls : calls[c] = F!Idle
  BY <1>1
<1>5. (\A c \in Calls : FactoryCallOK(calls[c]) /\ FactorySerialCallOK(calls[c])) /\ Unshared /\ OneInFlight
  BY <1>4, FactoryIdle DEF Unshared, OneInFlight
<1>6. FactoryRowsOK
  BY <1>1, <1>2 DEF FactoryRowsOK
<1>7. FactorySerialRowsOK
  BY <1>2 DEF FactorySerialRowsOK, NothingScanned
<1> QED BY <1>3, <1>5, <1>6, <1>7 DEF FactoryInv

(* What the runs may answer.                                               *)
LEMMA AnswerFacts ==
  /\ F!ArchitectAnswers \subseteq Nat /\ F!ProductReviews \subseteq Review
  /\ \A t : F!QaAnswers(t) \subseteq {"PASS", "PASS_WITH_GAPS", "FAIL"} /\ F!SecurityAnswers(t) \subseteq {"PASS", "PASS_WITH_WARNINGS", "FAIL"}
  /\ \A answer \in F!BuildAnswers : answer.action \in {"STOP", "CUT_SCOPE", "REQUEST_HUMAN_REVIEW", "BUILD"}
<1>1. F!ArchitectAnswers \subseteq Nat
  BY DEF F!ArchitectAnswers
<1>2. F!ProductReviews \subseteq Review
  <2>1. F!DevProductChairmanFixture(F!Outcome) \in Review
    BY DEF F!DevProductChairmanFixture, Review
  <2> QED BY <2>1 DEF F!ProductReviews, Review
<1>3. ASSUME NEW t PROVE F!QaAnswers(t) \subseteq {"PASS", "PASS_WITH_GAPS", "FAIL"}
  BY DEF F!QaAnswers, F!DevQaFixture
<1>4. ASSUME NEW t PROVE F!SecurityAnswers(t) \subseteq {"PASS", "PASS_WITH_WARNINGS", "FAIL"}
  BY DEF F!SecurityAnswers
<1>5. ASSUME NEW answer \in F!BuildAnswers PROVE answer.action \in {"STOP", "CUT_SCOPE", "REQUEST_HUMAN_REVIEW", "BUILD"}
  <2>1. F!DevProductBuildFixture(F!Outcome) \in {"STOP", "CUT_SCOPE", "REQUEST_HUMAN_REVIEW", "BUILD"}
    BY DEF F!DevProductBuildFixture
  <2> QED BY <2>1 DEF F!BuildAnswers
<1> QED BY <1>1, <1>2, <1>3, <1>4, <1>5

LEMMA FactoryNextInv ==
  ASSUME F!FactoryConstants, FactoryInv, [F!FactoryNext]_(F!vars)
  PROVE  FactoryInv'
<1>1. ASSUME NEW c \in Calls,
             \/ F!CreateProduct(c) \/ F!Approve(c) \/ F!ApproveWrite(c) \/ F!Provision(c) \/ F!Scaffold(c) \/ F!SetEstimates(c)
             \/ F!StatusRead(c) \/ F!StatusWrite(c) \/ F!Build(c) \/ F!StartRefused(c)
      PROVE  FactoryInv'
  BY <1>1, ProductSteps, StatusSteps, BuildInv, StartRefusedInv
<1>2. ASSUME NEW c \in Calls,
             \/ \E answer \in F!StrategistAnswers : F!RunProductStrategist(c, answer)
             \/ \E entities \in F!ArchitectAnswers : F!RunMvpArchitect(c, entities)
             \/ F!RunUxAgent(c) \/ F!DecomposeFromArchitecture(c)
      PROVE  FactoryInv'
  BY <1>2, AnswerFacts, RunProductStrategistInv, RunMvpArchitectInv, RunUxAgentInv, DecomposeFromArchitectureInv
<1>3. ASSUME NEW c \in Calls,
             \/ F!EngineeringAgentStart(c) \/ F!EngineeringAgentTypecheck(c) \/ F!EngineeringAgentComplete(c)
             \/ \E answer \in F!EngineeringAnswers(db.tasks[F!TheTask(calls[c])]) : F!EngineeringAgentWrite(c, answer)
      PROVE  FactoryInv'
  BY <1>3, EngineeringAgentStartInv, EngineeringAgentWriteInv, EngineeringAgentTypecheckInv, EngineeringAgentCompleteInv
<1>4. ASSUME NEW c \in Calls,
             \/ \E blockers \in F!CodeReviewAnswers(F!TheTask(calls[c])) : F!RunCodeReview(c, blockers)
             \/ \E verdict \in F!QaAnswers(F!TheTask(calls[c])) : F!RunQa(c, verdict)
             \/ \E verdict \in F!SecurityAnswers(F!TheTask(calls[c])) : F!RunSecurityReview(c, verdict)
             \/ \E passed \in BOOLEAN : F!RunIntegrationTest(c, passed)
             \/ F!RunFails(c)
      PROVE  FactoryInv'
  <2>1. \A verdict \in F!QaAnswers(F!TheTask(calls[c])) : F!RunQa(c, verdict) => FactoryInv'
    BY AnswerFacts, RunQaInv
  <2>2. \A verdict \in F!SecurityAnswers(F!TheTask(calls[c])) : F!RunSecurityReview(c, verdict) => FactoryInv'
    BY AnswerFacts, RunSecurityReviewInv
  <2>3. \A blockers \in F!CodeReviewAnswers(F!TheTask(calls[c])) : F!RunCodeReview(c, blockers) => FactoryInv'
    BY RunCodeReviewInv
  <2> QED BY <1>4, <2>1, <2>2, <2>3, RunIntegrationTestInv, RunFailsInv
<1>5. ASSUME NEW c \in Calls,
             \/ \E answer \in F!BuildAnswers : F!recommendProductBuildAction(c, answer)
             \/ \E decision \in F!ProductReviews : F!reviewProduct(c, decision)
             \/ F!CompileMemo(c)
             \/ \E m \in DOMAIN db.memos, verdict \in DOMAIN F!DecisionStatus : F!RecordHumanDecision(c, m, verdict)
             \/ F!DecisionWrite(c)
      PROVE  FactoryInv'
  <2>1. \A answer \in F!BuildAnswers : F!recommendProductBuildAction(c, answer) => FactoryInv'
    BY AnswerFacts, recommendProductBuildActionInv
  <2>2. \A decision \in F!ProductReviews : F!reviewProduct(c, decision) => FactoryInv'
    BY AnswerFacts, reviewProductInv
  <2> QED BY <1>5, <2>1, <2>2, CompileMemoInv, RecordHumanDecisionInv, HumanDecisionWriteInv
<1>6. ASSUME UNCHANGED F!vars PROVE FactoryInv'
  <2>1. UNCHANGED <<use, db, calls, memory, history>>
    BY <1>6 DEF F!vars
  <2>2. FactoryTypes' /\ Unshared' /\ FactoryRowsOK' /\ (use'.load = 1 => OneInFlight' /\ FactorySerialRowsOK')
    BY <2>1 DEF FactoryInv, FactoryTypes, Unshared, FactoryRowsOK, MemoOK, Implemented, Tested, F!TasksOf, TaskPair, AnApproval, OneInFlight,
                FactorySerialRowsOK, BuildStarted, NothingScanned, F!Flawed
  <2>3. ASSUME NEW c \in Calls PROVE FactoryCallOK(calls[c])' /\ (use.load = 1 => FactorySerialCallOK(calls[c])')
    <3>1. FactoryCallOK(calls[c])' <=> FactoryCallOK(calls[c])
      BY <2>1 DEF FactoryCallOK, FactoryPlace, Unreported, Tasked, Implemented, Tested, F!TasksOf, F!TheTask, AnApproval
    <3>2. FactorySerialCallOK(calls[c])' <=> FactorySerialCallOK(calls[c])
      BY <2>1 DEF FactorySerialCallOK, FactoryPlace, NothingScanned, BuildStarted
    <3> QED BY <3>1, <3>2 DEF FactoryInv
  <2> QED BY <2>1, <2>2, <2>3 DEF FactoryInv
<1>7. CASE F!FactoryNext
  BY <1>1, <1>2, <1>3, <1>4, <1>5, <1>7, FactoryRestartInv DEF F!FactoryNext
<1> QED BY <1>6, <1>7

LEMMA FactoryInvImplies ==
  ASSUME FactoryInv
  PROVE  F!ReadyProductsWereBuilt /\ F!KnownProblemsReachTheHuman
<1>1. ASSUME db.product.status = "READY_FOR_DEPLOYMENT" PROVE F!ReadyProductsWereBuilt
  <2>1. PICK v \in history : v.verdict = "APPROVE"
    BY <1>1 DEF FactoryInv, FactoryRowsOK, AnApproval
  <2>2. PICK m \in ReviewMemo : m = db.memos[v.memo] /\ MemoOK(m)
    BY FactoryRows DEF FactoryInv, FactoryRowsOK
  <2>3. PICK arch \in Architecture : arch = db.archs[m.arch] /\ arch.ux
    BY <2>2, FactoryRows DEF FactoryInv, MemoOK
  <2>4. arch.spec \in DOMAIN db.specs
    BY <2>2, <2>3 DEF FactoryInv, FactoryRowsOK, MemoOK
  <2>5. db.specs[arch.spec].grounds # {} /\ db.specs[arch.spec].grounds \subseteq F!ClaimsOfOpportunity
    BY <2>4, FactoryRows DEF FactoryInv, FactoryRowsOK, Thesis
  <2>6. m.rec \in DOMAIN db.recs /\ m.chair \in DOMAIN db.chairs /\ Implemented(m.arch) /\ Tested(m.arch)
    BY <2>2 DEF MemoOK
  <2>7. db.recs[m.rec].cited \subseteq F!ClaimsOfOpportunity
    BY <2>6, FactoryRows DEF FactoryInv, Recommendation
  <2> QED BY <2>1, <2>2, <2>3, <2>5, <2>6, <2>7 DEF F!ReadyProductsWereBuilt, Implemented, Tested
<1>2. ASSUME NEW m \in DOMAIN db.memos, NEW t \in F!TasksOf(db.memos[m].arch)
      PROVE  /\ use.load = 1 /\ db.tasks[t].security # "none" /\ F!Flawed(t) => db.memos[m].counts.security > 0
             /\ db.tasks[t].codeReview = "BLOCKING" => db.memos[m].counts.blocking > 0
             /\ db.tasks[t].qa = "FAIL" => db.memos[m].counts.qa > 0
  <2>1. MemoOK(db.memos[m]) /\ t \in DOMAIN db.tasks
    BY <1>2 DEF FactoryInv, FactoryRowsOK, F!TasksOf
  <2>2. use.load = 1 /\ db.tasks[t].security # "none" /\ F!Flawed(t) => db.tasks[t].security = "FAIL"
    BY <2>1 DEF FactoryInv, FactorySerialRowsOK
  <2> QED BY <1>2, <2>1, <2>2 DEF MemoOK
<1> QED BY <1>1, <1>2 DEF F!ReadyProductsWereBuilt, F!KnownProblemsReachTheHuman

-----------------------------------------------------------------------------
LEMMA OutreachCounts == \A S : (O!IsFiniteSet(S) <=> IsFiniteSet(S)) /\ O!Cardinality(S) = Cardinality(S)
BY DEF O!IsFiniteSet, IsFiniteSet, O!Cardinality, Cardinality

(* What the outreach leaves on record: the rows and the calls.             *)
ContactPlaces ==
  {"idle", "prospect", "prospectWrite", "discover", "experiment", "draft", "attach", "apply", "applyWrite", "contact", "contactWrite",
   "send", "provider", "delivery", "respond", "analyze", "analyzed"}
OutreachExperimentStatus == {"none", "PENDING_APPROVAL", "ACTIVE", "COMPLETED", "STOPPED", "CANCELLED"}
ContactTargets == Sources \cup OutreachExperimentStatus \cup {"APPROVED_TO_CONTACT", "REJECTED", "SENT", "FAILED"}
OutreachCall ==
  [at : ContactPlaces, p : Nat, x : Nat, m : Nat, a : Nat, r : Nat, to : ContactTargets, todo : Seq(O!ProspectStatus), auto : BOOLEAN]
ProspectRow == [status : O!ProspectStatus, source : Sources]
MessageStatus == {"DRAFT", "AWAITING_HUMAN_APPROVAL", "APPROVED_TO_CONTACT", "REJECTED", "CONTACTED", "CANCELLED"}
MessageRow ==
  [status : MessageStatus, prospect : Nat, experiment : Nat, approval : Nat, contacted : BOOLEAN]
RequestRow == [message : Nat, status : {"PENDING", "APPROVED", "REJECTED"}, lapsed : BOOLEAN]
ResponseRow == [message : Nat, status : {"RECEIVED", "ANALYZED"}, evidence : Nat]
SendAttempts == {"SENT", "FAILED"}
OutreachTables ==
  [prospects : Seq(ProspectRow), experiments : [Experiments -> OutreachExperimentStatus], messages : Seq(MessageRow), today : SUBSET Nat,
   approvals : Seq(RequestRow), deliveries : [Messages -> Seq(SendAttempts)], responses : Seq(ResponseRow), halted : BOOLEAN]

ContactTypes ==
  /\ use.load \in Nat \ {0} /\ use.restarts \in Nat /\ use.crashes \in Nat /\ use.crashes <= use.restarts
  /\ use.rows \in Nat /\ 1 .. use.rows \subseteq Messages /\ use.auto \in BOOLEAN
  /\ DOMAIN use = {"ops", "load", "crashes", "restarts", "rows", "auto", "found"}
  /\ db \in OutreachTables
  /\ calls \in [Calls -> OutreachCall]
  /\ memory \in [provider : [Messages -> {"unknown"} \cup SendAttempts], window : Nat]
  /\ history.times \in [Messages -> Nat]

(* What a record rests on.                                                 *)
Contacted(p) == \E m \in DOMAIN db.messages : db.messages[m].prospect = p /\ db.messages[m].contacted
Responded(p) == \E r \in DOMAIN db.responses : db.messages[db.responses[r].message].prospect = p
Backed(p, status) ==
  /\ status \in {"CONTACTED", "RESPONDED"} => Contacted(p)
  /\ status = "RESPONDED" => Responded(p)
Allowed(m) == \E a \in DOMAIN db.approvals : db.approvals[a].message = m /\ db.approvals[a].status = "APPROVED"

AboutMessage == {"attach", "applyWrite", "contact", "contactWrite", "send", "provider", "delivery", "respond"}

ContactCallOK(call) ==
  /\ call.at \in {"prospect", "prospectWrite"} =>
       /\ call.p \in DOMAIN db.prospects /\ call.todo # <<>>
       /\ \A i \in DOMAIN call.todo :
            /\ Backed(call.p, call.todo[i])
            /\ call.todo[i] = "APPROVED_TO_CONTACT" /\ call.auto => call.m \in DOMAIN db.messages
            /\ call.todo[i] = "RESPONDED" /\ call.auto => call.r \in DOMAIN db.responses
  /\ call.at = "discover" => call.to \in Sources
  /\ call.at \in {"experiment", "draft"} => call.x \in Experiments
  /\ call.at = "experiment" => call.to \in {"ACTIVE", "COMPLETED", "STOPPED", "CANCELLED"}
  /\ call.at = "draft" => call.p \in DOMAIN db.prospects
  /\ call.at \in AboutMessage => call.m \in DOMAIN db.messages
  /\ call.at \in {"attach", "apply"} => call.a \in DOMAIN db.approvals
  /\ call.at = "applyWrite" => call.to \in {"APPROVED_TO_CONTACT", "REJECTED"}
  /\ call.at = "contactWrite" => Allowed(call.m)
  /\ call.at = "delivery" => call.to \in SendAttempts
  /\ call.at = "respond" => db.messages[call.m].contacted
  /\ call.at \in {"analyze", "analyzed"} => call.r \in DOMAIN db.responses

ContactRowsOK ==
  /\ \A p \in DOMAIN db.prospects : Backed(p, db.prospects[p].status)
  /\ \A m \in DOMAIN db.messages :
       /\ db.messages[m].prospect \in DOMAIN db.prospects /\ db.messages[m].experiment \in Experiments
       /\ db.messages[m].approval \in {0} \cup DOMAIN db.approvals
       /\ db.messages[m].status = "CONTACTED" => db.messages[m].contacted
       /\ db.messages[m].contacted => Allowed(m)
  /\ \A a \in DOMAIN db.approvals : db.approvals[a].message \in DOMAIN db.messages
  /\ \A r \in DOMAIN db.responses : db.responses[r].message \in DOMAIN db.messages /\ db.messages[db.responses[r].message].contacted
  /\ Len(db.messages) <= use.rows
  /\ db.today \subseteq DOMAIN db.messages

(* How often a message goes out, and how many attempts are stored.         *)
BusyCalls == {c \in Calls : calls[c].at # "idle"}
Sending(m) == {c \in Calls : calls[c].at \in {"provider", "delivery"} /\ calls[c].m = m}
AttemptsOK == \A m \in Messages : Len(db.deliveries[m]) + Cardinality(Sending(m)) <= MaxSendAttempts + use.load - 1
TimesOK ==
  \A m \in Messages :
    /\ history.times[m] <= 1 + (use.restarts - use.crashes)
    /\ memory.provider[m] = "unknown" => history.times[m] <= use.restarts - use.crashes

(* Of calls made one after the other.                                      *)
Drafted(x) == {m \in db.today : db.messages[m].experiment = x}
SentOnce(m) == \A i, j \in DOMAIN db.deliveries[m] : db.deliveries[m][i] = "SENT" /\ db.deliveries[m][j] = "SENT" => i = j
Unsent(m) == \A i \in DOMAIN db.deliveries[m] : db.deliveries[m][i] # "SENT"
ContactSerialRowsOK ==
  /\ \A m \in Messages : SentOnce(m)
  /\ \A x \in Experiments : Cardinality(Drafted(x)) <= MaxMessagesPerExperiment
  /\ \A p, q \in DOMAIN db.prospects : db.prospects[p].source = db.prospects[q].source => p = q
ContactSerialCallOK(call) ==
  /\ call.at \in {"provider", "delivery"} => Unsent(call.m)
  /\ call.at = "draft" => Cardinality(Drafted(call.x)) < MaxMessagesPerExperiment
  /\ call.at = "discover" => ~O!Known(call.to)

ContactsInv ==
  /\ ContactTypes
  /\ \A c \in Calls : ContactCallOK(calls[c])
  /\ ContactRowsOK
  /\ Cardinality(BusyCalls) <= use.load
  /\ AttemptsOK
  /\ TimesOK
  /\ use.load = 1 => ContactSerialRowsOK /\ \A c \in Calls : ContactSerialCallOK(calls[c])

-----------------------------------------------------------------------------
LEMMA ContactsIdle == O!Idle \in OutreachCall /\ O!Idle.at = "idle" /\ O!Idle.m = 0 /\ O!Idle.todo = <<>> /\ ~O!Idle.auto
<1>1. <<>> \in Seq(O!ProspectStatus)
  OBVIOUS
<1> QED BY <1>1 DEF O!Idle, OutreachCall, ContactPlaces, ContactTargets, OutreachExperimentStatus

LEMMA ContactTableFacts ==
  ASSUME ContactTypes
  PROVE  /\ db.prospects \in Seq(ProspectRow) /\ db.messages \in Seq(MessageRow) /\ db.approvals \in Seq(RequestRow)
         /\ db.responses \in Seq(ResponseRow) /\ db.deliveries \in [Messages -> Seq(SendAttempts)] /\ db.experiments \in [Experiments -> OutreachExperimentStatus]
         /\ db.today \subseteq Nat /\ db.halted \in BOOLEAN
         /\ DOMAIN db = {"prospects", "experiments", "messages", "today", "approvals", "deliveries", "responses", "halted"}
BY DEF ContactTypes, OutreachTables

LEMMA ContactRowFacts ==
  ASSUME ContactTypes
  PROVE  /\ \A p \in DOMAIN db.prospects : p \in Nat \ {0} /\ db.prospects[p] \in ProspectRow
         /\ \A m \in DOMAIN db.messages : m \in Nat \ {0} /\ db.messages[m] \in MessageRow
         /\ \A a \in DOMAIN db.approvals : a \in Nat \ {0} /\ db.approvals[a] \in RequestRow
         /\ \A r \in DOMAIN db.responses : r \in Nat \ {0} /\ db.responses[r] \in ResponseRow
BY ContactTableFacts

LEMMA TodoFacts ==
  ASSUME NEW S, NEW todo \in Seq(S), todo # <<>>
  PROVE  /\ 1 \in DOMAIN todo /\ Head(todo) = todo[1] /\ Head(todo) \in S
         /\ Tail(todo) \in Seq(S) /\ \A i \in DOMAIN Tail(todo) : i + 1 \in DOMAIN todo /\ Tail(todo)[i] = todo[i + 1]
<1>1. PICK n \in Nat : n = Len(todo)
  OBVIOUS
<1>2. n > 0 /\ DOMAIN todo = 1 .. n
  BY <1>1
<1>3. Tail(todo) \in Seq(S) /\ Len(Tail(todo)) = n - 1
  BY <1>1, <1>2
<1>4. DOMAIN Tail(todo) = 1 .. n - 1
  BY <1>3, <1>2
<1>5. \A i \in 1 .. n - 1 : Tail(todo)[i] = todo[i + 1]
  BY <1>1, <1>2
<1> QED BY <1>1, <1>2, <1>3, <1>4, <1>5

-----------------------------------------------------------------------------
(* What was recorded stays on record.                                      *)
RecordsStay ==
  /\ DOMAIN db.prospects \subseteq DOMAIN db'.prospects
  /\ \A m \in DOMAIN db.messages :
       /\ m \in DOMAIN db'.messages /\ db'.messages[m].prospect = db.messages[m].prospect
       /\ db.messages[m].contacted => db'.messages[m].contacted
  /\ \A a \in DOMAIN db.approvals :
       /\ a \in DOMAIN db'.approvals /\ db'.approvals[a].message = db.approvals[a].message
       /\ db.approvals[a].status = "APPROVED" => db'.approvals[a].status = "APPROVED"
  /\ \A r \in DOMAIN db.responses : r \in DOMAIN db'.responses /\ db'.responses[r].message = db.responses[r].message

LEMMA BackingStays ==
  ASSUME ContactRowsOK, RecordsStay
  PROVE  /\ \A p : Contacted(p) => Contacted(p)'
         /\ \A p : Responded(p) => Responded(p)'
         /\ \A m : Allowed(m) => Allowed(m)'
         /\ \A p, status : Backed(p, status) => Backed(p, status)'
<1>1. \A p : Contacted(p) => Contacted(p)'
  BY DEF RecordsStay, Contacted
<1>2. \A p : Responded(p) => Responded(p)'
  BY DEF RecordsStay, Responded, ContactRowsOK
<1>3. \A m : Allowed(m) => Allowed(m)'
  BY DEF RecordsStay, Allowed
<1> QED BY <1>1, <1>2, <1>3 DEF Backed

(* A step that writes none of these tables leaves them as they should be.  *)
LEMMA ContactRowsStay ==
  ASSUME ContactRowsOK, use'.rows = use.rows, db'.prospects = db.prospects, db'.messages = db.messages,
         db'.approvals = db.approvals, db'.responses = db.responses, db'.today \subseteq DOMAIN db.messages
  PROVE  ContactRowsOK'
<1>1. \A p, status : Backed(p, status) => Backed(p, status)'
  BY DEF Backed, Contacted, Responded
<1>2. \A m : Allowed(m) => Allowed(m)'
  BY DEF Allowed
<1> QED BY <1>1, <1>2 DEF ContactRowsOK

LEMMA ContactCallStays ==
  ASSUME ContactRowsOK, RecordsStay, NEW call, ContactCallOK(call)
  PROVE  ContactCallOK(call)'
<1>1. \A i : Backed(call.p, call.todo[i]) => Backed(call.p, call.todo[i])'
  BY BackingStays
<1>2. Allowed(call.m) => Allowed(call.m)'
  BY BackingStays
<1> QED BY <1>1, <1>2 DEF ContactCallOK, RecordsStay, AboutMessage

LEMMA Alone ==
  ASSUME O!OutreachConstants, Cardinality(BusyCalls) <= 1, NEW c \in Calls, NEW d \in Calls, calls[c].at # "idle", calls[d].at # "idle"
  PROVE  c = d
<1> SUFFICES ASSUME c # d PROVE FALSE
  OBVIOUS
<1>1. IsFiniteSet(BusyCalls)
  BY OutreachCounts, FS_Subset DEF BusyCalls, O!OutreachConstants
<1>2. {c, d} \subseteq BusyCalls
  BY DEF BusyCalls
<1>3. Cardinality({c, d}) <= Cardinality(BusyCalls)
  BY <1>1, <1>2, FS_Subset
<1>4. Cardinality({c, d}) = 2
  <2>1. IsFiniteSet({c}) /\ Cardinality({c}) = 1
    BY FS_Singleton
  <2>2. Cardinality({c} \cup {d}) = Cardinality({c}) + 1
    BY <2>1, FS_AddElement
  <2>3. {c} \cup {d} = {c, d}
    OBVIOUS
  <2> QED BY <2>1, <2>2, <2>3
<1>5. Cardinality(BusyCalls) \in Nat
  BY <1>1, FS_CardinalityType
<1> QED BY <1>3, <1>4, <1>5

(* A call that works, or that may begin.                                   *)
Working(c) == calls[c].at # "idle" \/ Cardinality(BusyCalls) < use.load

LEMMA OthersIdle ==
  ASSUME O!OutreachConstants, ContactsInv, NEW c \in Calls, Working(c), use.load = 1
  PROVE  \A d \in Calls \ {c} : calls[d].at = "idle"
<1>1. CASE calls[c].at # "idle"
  BY <1>1, Alone DEF ContactsInv
<1>2. CASE Cardinality(BusyCalls) < 1
  <2>1. IsFiniteSet(BusyCalls)
    BY OutreachCounts, FS_Subset DEF BusyCalls, O!OutreachConstants
  <2>2. Cardinality(BusyCalls) = 0
    BY <1>2, <2>1, FS_CardinalityType
  <2>3. BusyCalls = {}
    BY <2>1, <2>2, FS_EmptySet
  <2> QED BY <2>3 DEF BusyCalls
<1> QED BY <1>1, <1>2 DEF Working

(* A call goes on: what is about it and about the others.                  *)
LEMMA ContactCallStep ==
  ASSUME O!OutreachConstants, ContactsInv, NEW c \in Calls, NEW next \in OutreachCall, O!GoTo(c, next), UNCHANGED use,
         db' \in OutreachTables, RecordsStay, Working(c), next.at # "idle" => ContactCallOK(next)'
  PROVE  /\ calls' \in [Calls -> OutreachCall] /\ calls'[c] = next /\ \A d \in Calls \ {c} : calls'[d] = calls[d]
         /\ \A d \in Calls : ContactCallOK(calls[d])'
         /\ Cardinality(BusyCalls)' <= use.load'
         /\ use.load = 1 => \A d \in Calls \ {c} : calls'[d].at = "idle"
<1>1. calls' \in [Calls -> OutreachCall] /\ calls'[c] = next /\ \A d \in Calls \ {c} : calls'[d] = calls[d]
  BY DEF O!GoTo, ContactsInv, ContactTypes
<1>2. ASSUME NEW d \in Calls PROVE ContactCallOK(calls[d])'
  <2>1. CASE d # c
    <3>1. PICK other : other = calls[d]
      OBVIOUS
    <3>2. ContactCallOK(other)'
      BY <3>1, ContactCallStays DEF ContactsInv
    <3> QED BY <1>1, <2>1, <3>1, <3>2 DEF ContactCallOK
  <2>2. CASE d = c /\ next.at # "idle"
    BY <1>1, <2>2 DEF ContactCallOK
  <2>3. CASE d = c /\ next.at = "idle"
    BY <1>1, <2>3 DEF ContactCallOK, AboutMessage
  <2> QED BY <2>1, <2>2, <2>3
<1>3. Cardinality(BusyCalls)' <= use.load'
  <2>1. IsFiniteSet(BusyCalls) /\ Cardinality(BusyCalls) \in Nat /\ use.load \in Nat /\ Cardinality(BusyCalls) <= use.load
    BY OutreachCounts, FS_Subset, FS_CardinalityType DEF BusyCalls, O!OutreachConstants, ContactsInv, ContactTypes
  <2>2. BusyCalls' \subseteq BusyCalls \cup {c}
    BY <1>1 DEF BusyCalls
  <2>3. IsFiniteSet(BusyCalls \cup {c}) /\ (c \notin BusyCalls => Cardinality(BusyCalls \cup {c}) = Cardinality(BusyCalls) + 1)
    BY <2>1, FS_AddElement
  <2>4. Cardinality(BusyCalls') <= Cardinality(BusyCalls \cup {c}) /\ Cardinality(BusyCalls') \in Nat
    BY <2>2, <2>3, FS_Subset, FS_CardinalityType
  <2>5. CASE c \in BusyCalls
    <3>1. BusyCalls \cup {c} = BusyCalls
      BY <2>5
    <3> QED BY <2>1, <2>4, <3>1
  <2>6. CASE c \notin BusyCalls
    <3>1. Cardinality(BusyCalls) < use.load
      BY <2>6 DEF BusyCalls, Working
    <3> QED BY <2>1, <2>3, <2>4, <2>6, <3>1
  <2> QED BY <2>5, <2>6
<1> QED BY <1>1, <1>2, <1>3, OthersIdle

LEMMA SendingFacts == ASSUME O!OutreachConstants, NEW m PROVE IsFiniteSet(Sending(m)) /\ Cardinality(Sending(m)) \in Nat
BY OutreachCounts, FS_Subset, FS_CardinalityType DEF Sending, O!OutreachConstants

LEMMA AttemptsStay ==
  ASSUME O!OutreachConstants, ContactsInv, db'.deliveries = db.deliveries, UNCHANGED use,
         \A d \in Calls : calls'[d].at \in {"provider", "delivery"} => calls[d].at \in {"provider", "delivery"} /\ calls[d].m = calls'[d].m
  PROVE  AttemptsOK'
<1>1. ASSUME NEW m \in Messages PROVE Len(db'.deliveries[m]) + Cardinality(Sending(m)') <= MaxSendAttempts + use'.load - 1
  <2>1. Sending(m)' \subseteq Sending(m)
    BY DEF Sending
  <2>2. Cardinality(Sending(m)') <= Cardinality(Sending(m)) /\ Cardinality(Sending(m)') \in Nat /\ Cardinality(Sending(m)) \in Nat
    BY <2>1, SendingFacts, FS_Subset, FS_CardinalityType
  <2>3. db.deliveries[m] \in Seq(SendAttempts)
    BY ContactTableFacts DEF ContactsInv
  <2>4. PICK n \in Nat : n = Len(db.deliveries[m])
    BY <2>3
  <2>5. n + Cardinality(Sending(m)) <= MaxSendAttempts + use.load - 1
    BY <2>4 DEF ContactsInv, AttemptsOK
  <2>6. MaxSendAttempts \in Nat /\ use.load \in Nat
    BY DEF O!OutreachConstants, ContactsInv, ContactTypes
  <2>7. Len(db'.deliveries[m]) = n /\ use'.load = use.load
    BY <2>4
  <2>8. n + Cardinality(Sending(m)') <= MaxSendAttempts + use.load - 1
    BY <2>2, <2>5, <2>6
  <2> QED BY <2>7, <2>8
<1> QED BY <1>1 DEF AttemptsOK

(* A call goes on.                                                         *)
LEMMA ContactsMoveOn ==
  ASSUME O!OutreachConstants, ContactsInv, NEW c \in Calls, NEW next \in OutreachCall, O!GoTo(c, next), UNCHANGED use,
         db' \in OutreachTables, memory' \in [provider : [Messages -> {"unknown"} \cup SendAttempts], window : Nat],
         history'.times \in [Messages -> Nat], RecordsStay, Working(c), next.at # "idle" => ContactCallOK(next)',
         ContactRowsOK', AttemptsOK', TimesOK', use.load = 1 => ContactSerialRowsOK' /\ ContactSerialCallOK(next)'
  PROVE  ContactsInv'
<1>1. /\ calls' \in [Calls -> OutreachCall] /\ calls'[c] = next /\ \A d \in Calls \ {c} : calls'[d] = calls[d]
      /\ \A d \in Calls : ContactCallOK(calls[d])'
      /\ Cardinality(BusyCalls)' <= use.load'
      /\ use.load = 1 => \A d \in Calls \ {c} : calls'[d].at = "idle"
  BY ContactCallStep
<1>2. ContactTypes'
  BY <1>1 DEF ContactsInv, ContactTypes
<1>3. ASSUME use.load = 1, NEW d \in Calls PROVE ContactSerialCallOK(calls[d])'
  <2>1. CASE d = c
    BY <1>1, <1>3, <2>1 DEF ContactSerialCallOK
  <2>2. CASE d # c
    BY <1>1, <1>3, <2>2 DEF ContactSerialCallOK
  <2> QED BY <2>1, <2>2
<1> QED BY <1>1, <1>2, <1>3 DEF ContactsInv

(* A call goes on, and neither the provider nor the attempts hear of it.   *)
LEMMA ContactsGoOn ==
  ASSUME O!OutreachConstants, ContactsInv, NEW c \in Calls, NEW next \in OutreachCall, O!GoTo(c, next), UNCHANGED <<use, history>>,
         db' \in OutreachTables, RecordsStay, Working(c), next.at # "idle" => ContactCallOK(next)',
         next.at \in {"provider", "delivery"} => calls[c].at \in {"provider", "delivery"} /\ calls[c].m = next.m,
         db'.deliveries = db.deliveries, memory' = memory,
         ContactRowsOK', use.load = 1 => ContactSerialRowsOK' /\ ContactSerialCallOK(next)'
  PROVE  ContactsInv'
<1>1. calls'[c] = next /\ \A d \in Calls \ {c} : calls'[d] = calls[d]
  BY ContactCallStep
<1>2. AttemptsOK'
  BY <1>1, AttemptsStay
<1>3. TimesOK'
  BY DEF ContactsInv, TimesOK
<1>4. memory' \in [provider : [Messages -> {"unknown"} \cup SendAttempts], window : Nat] /\ history'.times \in [Messages -> Nat]
  BY DEF ContactsInv, ContactTypes
<1> QED BY <1>2, <1>3, <1>4, ContactsMoveOn

(* A call reads.                                                           *)
LEMMA ContactsRead ==
  ASSUME O!OutreachConstants, ContactsInv, NEW c \in Calls, NEW next \in OutreachCall, O!GoTo(c, next), UNCHANGED <<use, db, memory, history>>,
         Working(c), next.at # "idle" => ContactCallOK(next), next.at \notin {"provider", "delivery"},
         use.load = 1 => ContactSerialCallOK(next)
  PROVE  ContactsInv'
<1>1. RecordsStay
  BY DEF RecordsStay
<1>2. db' \in OutreachTables /\ db'.deliveries = db.deliveries
  BY DEF ContactsInv, ContactTypes
<1>3. ContactRowsOK'
  BY ContactRowsStay DEF ContactsInv, ContactRowsOK
<1>4. next.at # "idle" => ContactCallOK(next)'
  BY <1>1, ContactCallStays DEF ContactsInv
<1>5. use.load = 1 => ContactSerialRowsOK' /\ ContactSerialCallOK(next)'
  BY DEF ContactsInv, ContactSerialRowsOK, ContactSerialCallOK, SentOnce, Unsent, Drafted, O!Known
<1> QED BY <1>1, <1>2, <1>3, <1>4, <1>5, ContactsGoOn

LEMMA ContactsReturn ==
  ASSUME O!OutreachConstants, ContactsInv, NEW c \in Calls, O!Return(c), UNCHANGED <<use, db, memory, history>>, Working(c)
  PROVE  ContactsInv'
<1>1. O!GoTo(c, O!Idle)
  BY DEF O!Return
<1> QED BY <1>1, ContactsIdle, ContactsRead DEF ContactSerialCallOK

LEMMA MayWork == ASSUME NEW c \in Calls, NEW op, O!May(op, c) PROVE Working(c)
BY OutreachCounts DEF O!May, Working, BusyCalls

(* Requests that only begin.                                               *)
LEMMA ContactBeginnings ==
  ASSUME O!OutreachConstants, ContactsInv, NEW c \in Calls,
         \/ \E s \in Sources : O!Discover(c, s) \/ O!Import(c, s)
         \/ \E p \in DOMAIN db.prospects, answer \in O!QualificationAnswers : O!Qualify(c, p, answer)
         \/ \E p \in DOMAIN db.prospects : O!MarkDoNotContact(c, p)
         \/ \E x \in Experiments : O!ApproveExperiment(c, x)
         \/ \E x \in Experiments, to \in {"ACTIVE", "COMPLETED", "STOPPED", "CANCELLED"} : O!SetExperimentStatus(c, x, to)
         \/ \E x \in Experiments, p \in DOMAIN db.prospects : O!Draft(c, x, p)
         \/ \E m \in DOMAIN db.messages : O!MarkContacted(c, m) \/ O!Send(c, m) \/ O!RecordResponse(c, m)
         \/ \E a \in DOMAIN db.approvals : O!ApplyDecision(c, a)
         \/ \E r \in DOMAIN db.responses : O!Analyze(c, r)
  PROVE  ContactsInv'
<1> DEFINE Done == ContactsInv'
<1>0. /\ \A p \in DOMAIN db.prospects : p \in Nat
      /\ \A m \in DOMAIN db.messages : m \in Nat
      /\ \A a \in DOMAIN db.approvals : a \in Nat
      /\ \A r \in DOMAIN db.responses : r \in Nat
      /\ Experiments \subseteq Nat
  BY ContactRowFacts DEF ContactsInv, O!OutreachConstants
<1>1. ASSUME NEW next \in OutreachCall, O!GoTo(c, next), UNCHANGED <<use, db, memory, history>>, NEW op, O!May(op, c),
             ContactCallOK(next), next.at \notin {"provider", "delivery"}, use.load = 1 => ContactSerialCallOK(next)
      PROVE  Done
  BY <1>1, MayWork, ContactsRead
<1> HIDE DEF Done
<1>2. ASSUME NEW s \in Sources, O!Discover(c, s) \/ O!Import(c, s) PROVE Done
  <2> DEFINE next == [O!Idle EXCEPT !.at = "discover", !.to = s]
  <2>1. next \in OutreachCall /\ next.at = "discover" /\ next.to = s
    BY ContactsIdle DEF O!Idle, OutreachCall, ContactPlaces, ContactTargets, OutreachExperimentStatus
  <2>2. O!GoTo(c, next) /\ UNCHANGED <<use, db, memory, history>> /\ ~O!Known(s) /\ \E op : O!May(op, c)
    BY <1>2 DEF O!Discover, O!Import
  <2> HIDE DEF next
  <2>3. ContactCallOK(next) /\ ContactSerialCallOK(next)
    BY <2>1, <2>2 DEF ContactCallOK, ContactSerialCallOK, AboutMessage
  <2> QED BY <1>1, <2>1, <2>2, <2>3
<1>3. ASSUME NEW p \in DOMAIN db.prospects, NEW status \in {"QUALIFIED", "REJECTED", "DO_NOT_CONTACT"}, NEW op, O!May(op, c),
             O!GoTo(c, O!ToProspect(O!Idle, p, <<status>>)), UNCHANGED <<use, db, memory, history>>
      PROVE  Done
  <2> DEFINE next == O!ToProspect(O!Idle, p, <<status>>)
  <2>1. <<status>> \in Seq(O!ProspectStatus) /\ DOMAIN <<status>> = {1} /\ <<status>>[1] = status
    BY DEF O!ProspectStatus
  <2>2. next \in OutreachCall /\ next.at = "prospect" /\ next.p = p /\ next.todo = <<status>> /\ ~next.auto
    BY <1>0, <2>1, ContactsIdle DEF O!Idle, OutreachCall, ContactPlaces, O!ToProspect
  <2>3. O!GoTo(c, next)
    BY <1>3
  <2> HIDE DEF next
  <2>4. ContactCallOK(next) /\ ContactSerialCallOK(next)
    BY <2>1, <2>2 DEF ContactCallOK, ContactSerialCallOK, AboutMessage, Backed
  <2> QED BY <1>1, <1>3, <2>2, <2>3, <2>4
<1>4. ASSUME NEW p \in DOMAIN db.prospects, NEW answer \in O!QualificationAnswers, O!Qualify(c, p, answer) PROVE Done
  BY <1>3, <1>4 DEF O!Qualify, O!statusForQualification
<1>5. ASSUME NEW p \in DOMAIN db.prospects, O!MarkDoNotContact(c, p) PROVE Done
  BY <1>3, <1>5 DEF O!MarkDoNotContact
<1>6. ASSUME NEW x \in Experiments, NEW to \in {"ACTIVE", "COMPLETED", "STOPPED", "CANCELLED"}, NEW op, O!May(op, c),
             O!GoTo(c, [O!Idle EXCEPT !.at = "experiment", !.x = x, !.to = to]), UNCHANGED <<use, db, memory, history>>
      PROVE  Done
  <2> DEFINE next == [O!Idle EXCEPT !.at = "experiment", !.x = x, !.to = to]
  <2>1. next \in OutreachCall /\ next.at = "experiment" /\ next.to = to /\ next.x = x
    BY <1>0, ContactsIdle DEF O!Idle, OutreachCall, ContactPlaces, ContactTargets, OutreachExperimentStatus
  <2>2. O!GoTo(c, next)
    BY <1>6
  <2> HIDE DEF next
  <2>3. ContactCallOK(next) /\ ContactSerialCallOK(next)
    BY <1>6, <2>1 DEF ContactCallOK, ContactSerialCallOK, AboutMessage
  <2> QED BY <1>1, <1>6, <2>1, <2>2, <2>3
<1>7. ASSUME NEW x \in Experiments, O!ApproveExperiment(c, x) PROVE Done
  BY <1>6, <1>7 DEF O!ApproveExperiment
<1>8. ASSUME NEW x \in Experiments, NEW to \in {"ACTIVE", "COMPLETED", "STOPPED", "CANCELLED"}, O!SetExperimentStatus(c, x, to) PROVE Done
  BY <1>6, <1>8 DEF O!SetExperimentStatus
<1>9. ASSUME NEW x \in Experiments, NEW p \in DOMAIN db.prospects, O!Draft(c, x, p) PROVE Done
  <2> DEFINE next == [O!Idle EXCEPT !.at = "draft", !.x = x, !.p = p]
  <2>1. next \in OutreachCall /\ next.at = "draft" /\ next.x = x /\ next.p = p
    BY <1>0, ContactsIdle DEF O!Idle, OutreachCall, ContactPlaces, ContactTargets, OutreachExperimentStatus
  <2>2. O!GoTo(c, next) /\ UNCHANGED <<use, db, memory, history>> /\ O!May("draft", c) /\ Cardinality(Drafted(x)) < MaxMessagesPerExperiment
    BY OutreachCounts, <1>9 DEF O!Draft, Drafted
  <2> HIDE DEF next
  <2>3. ContactCallOK(next) /\ ContactSerialCallOK(next)
    BY <2>1, <2>2 DEF ContactCallOK, ContactSerialCallOK, AboutMessage
  <2> QED BY <1>1, <2>1, <2>2, <2>3
<1>10. ASSUME NEW m \in DOMAIN db.messages, NEW at \in {"contact", "send", "respond"}, NEW op, O!May(op, c),
              O!GoTo(c, [O!Idle EXCEPT !.at = at, !.m = m]), UNCHANGED <<use, db, memory, history>>, at = "respond" => db.messages[m].contacted
       PROVE  Done
  <2> DEFINE next == [O!Idle EXCEPT !.at = at, !.m = m]
  <2>1. next \in OutreachCall /\ next.at = at /\ next.m = m
    BY <1>0, ContactsIdle DEF O!Idle, OutreachCall, ContactPlaces, ContactTargets, OutreachExperimentStatus
  <2>2. O!GoTo(c, next)
    BY <1>10
  <2> HIDE DEF next
  <2>3. ContactCallOK(next) /\ ContactSerialCallOK(next)
    BY <1>10, <2>1 DEF ContactCallOK, ContactSerialCallOK, AboutMessage
  <2> QED BY <1>1, <1>10, <2>1, <2>2, <2>3
<1>11. ASSUME NEW m \in DOMAIN db.messages, O!MarkContacted(c, m) \/ O!Send(c, m) \/ O!RecordResponse(c, m) PROVE Done
  <2>1. db.messages[m].status = "CONTACTED" => db.messages[m].contacted
    BY DEF ContactsInv, ContactRowsOK
  <2> QED BY <1>10, <1>11, <2>1 DEF O!MarkContacted, O!Send, O!RecordResponse
<1>12. ASSUME NEW a \in DOMAIN db.approvals, O!ApplyDecision(c, a) PROVE Done
  <2> DEFINE next == [O!Idle EXCEPT !.at = "apply", !.a = a]
  <2>1. next \in OutreachCall /\ next.at = "apply" /\ next.a = a
    BY <1>0, ContactsIdle DEF O!Idle, OutreachCall, ContactPlaces, ContactTargets, OutreachExperimentStatus
  <2>2. O!GoTo(c, next) /\ UNCHANGED <<use, db, memory, history>> /\ O!May("apply", c)
    BY <1>12 DEF O!ApplyDecision
  <2> HIDE DEF next
  <2>3. ContactCallOK(next) /\ ContactSerialCallOK(next)
    BY <2>1 DEF ContactCallOK, ContactSerialCallOK, AboutMessage
  <2> QED BY <1>1, <2>1, <2>2, <2>3
<1>13. ASSUME NEW r \in DOMAIN db.responses, O!Analyze(c, r) PROVE Done
  <2> DEFINE next == [O!Idle EXCEPT !.at = "analyze", !.r = r]
  <2>1. next \in OutreachCall /\ next.at = "analyze" /\ next.r = r
    BY <1>0, ContactsIdle DEF O!Idle, OutreachCall, ContactPlaces, ContactTargets, OutreachExperimentStatus
  <2>2. O!GoTo(c, next) /\ UNCHANGED <<use, db, memory, history>> /\ O!May("analyze", c)
    BY <1>13 DEF O!Analyze
  <2> HIDE DEF next
  <2>3. ContactCallOK(next) /\ ContactSerialCallOK(next)
    BY <2>1 DEF ContactCallOK, ContactSerialCallOK, AboutMessage
  <2> QED BY <1>1, <2>1, <2>2, <2>3
<1> QED BY <1>2, <1>4, <1>5, <1>7, <1>8, <1>9, <1>11, <1>12, <1>13 DEF Done

-----------------------------------------------------------------------------
(* What a step leaves when it writes one table.                            *)
ContactsKept ==
  /\ db' \in OutreachTables /\ RecordsStay /\ ContactRowsOK'
  /\ use.load = 1 => ContactSerialRowsOK'

LEMMA ProspectsWritten ==
  ASSUME ContactsInv, NEW rows \in Seq(ProspectRow), db' = [db EXCEPT !.prospects = rows], UNCHANGED use,
         DOMAIN db.prospects \subseteq DOMAIN rows, \A p \in DOMAIN rows : Backed(p, rows[p].status),
         use.load = 1 => \A p, q \in DOMAIN rows : rows[p].source = rows[q].source => p = q
  PROVE  ContactsKept /\ db'.deliveries = db.deliveries /\ db'.prospects = rows
<1>1. /\ db' \in OutreachTables
      /\ db'.prospects = rows /\ db'.experiments = db.experiments /\ db'.messages = db.messages /\ db'.today = db.today
      /\ db'.approvals = db.approvals /\ db'.deliveries = db.deliveries /\ db'.responses = db.responses
  BY DEF ContactsInv, ContactTypes, OutreachTables
<1>2. RecordsStay
  BY <1>1 DEF RecordsStay
<1>3. ContactRowsOK'
  <2>1. \A q, status : Backed(q, status) => Backed(q, status)'
    BY <1>2, BackingStays DEF ContactsInv
  <2>2. \A m : Allowed(m) => Allowed(m)'
    BY <1>2, BackingStays DEF ContactsInv
  <2> QED BY <1>1, <2>1, <2>2 DEF ContactsInv, ContactRowsOK
<1>4. use.load = 1 => ContactSerialRowsOK'
  BY <1>1 DEF ContactsInv, ContactSerialRowsOK, SentOnce, Drafted
<1> QED BY <1>1, <1>2, <1>3, <1>4 DEF ContactsKept

LEMMA MessageRowWritten ==
  ASSUME ContactsInv, NEW m \in DOMAIN db.messages, NEW row \in MessageRow, db' = [db EXCEPT !.messages = [@ EXCEPT ![m] = row]], UNCHANGED use,
         row.prospect = db.messages[m].prospect, row.experiment = db.messages[m].experiment,
         row.approval \in {0} \cup DOMAIN db.approvals,
         db.messages[m].contacted => row.contacted, row.status = "CONTACTED" => row.contacted, row.contacted => Allowed(m)
  PROVE  ContactsKept /\ db'.deliveries = db.deliveries /\ DOMAIN db'.messages = DOMAIN db.messages /\ db'.messages[m] = row
<1>0. db.messages \in Seq(MessageRow)
  BY ContactTableFacts DEF ContactsInv
<1>a. [db.messages EXCEPT ![m] = row] \in Seq(MessageRow)
  BY <1>0
<1>1. PICK rows \in Seq(MessageRow) : rows = [db.messages EXCEPT ![m] = row]
  BY <1>a, Zenon
<1>2. /\ DOMAIN rows = DOMAIN db.messages /\ Len(rows) = Len(db.messages) /\ rows[m] = row
      /\ \A n \in DOMAIN db.messages \ {m} : rows[n] = db.messages[n]
  BY <1>0, <1>1
<1>3. db' = [db EXCEPT !.messages = rows]
  BY <1>1, ContactTableFacts DEF ContactsInv
<1>4. /\ db' \in OutreachTables
      /\ db'.prospects = db.prospects /\ db'.experiments = db.experiments /\ db'.messages = rows /\ db'.today = db.today
      /\ db'.approvals = db.approvals /\ db'.deliveries = db.deliveries /\ db'.responses = db.responses
  BY <1>3 DEF ContactsInv, ContactTypes, OutreachTables
<1>5. RecordsStay
  BY <1>2, <1>4 DEF RecordsStay
<1>6. ContactRowsOK'
  <2>1. \A p \in DOMAIN db.prospects : Backed(p, db.prospects[p].status)'
    <3>1. \A p, status : Backed(p, status) => Backed(p, status)'
      BY <1>5, BackingStays DEF ContactsInv
    <3>2. \A p \in DOMAIN db.prospects : Backed(p, db.prospects[p].status)
      BY DEF ContactsInv, ContactRowsOK
    <3> QED BY <1>4, <3>1, <3>2 DEF Backed
  <2>2. ASSUME NEW n \in DOMAIN rows
        PROVE  /\ rows[n].prospect \in DOMAIN db.prospects /\ rows[n].experiment \in Experiments
               /\ rows[n].approval \in {0} \cup DOMAIN db.approvals
               /\ rows[n].status = "CONTACTED" => rows[n].contacted
               /\ rows[n].contacted => Allowed(n)
    <3>1. CASE n = m
      BY <1>2, <3>1 DEF ContactsInv, ContactRowsOK
    <3>2. CASE n # m
      BY <1>2, <3>2 DEF ContactsInv, ContactRowsOK
    <3> QED BY <3>1, <3>2
  <2>3. \A n : Allowed(n) => Allowed(n)'
    BY <1>4 DEF Allowed
  <2>4. \A r \in DOMAIN db.responses : db.responses[r].message \in DOMAIN rows /\ rows[db.responses[r].message].contacted
    BY <1>2 DEF ContactsInv, ContactRowsOK
  <2>5. /\ \A a \in DOMAIN db.approvals : db.approvals[a].message \in DOMAIN rows
        /\ Len(rows) <= use.rows /\ db.today \subseteq DOMAIN rows
    BY <1>2 DEF ContactsInv, ContactRowsOK
  <2> QED BY <1>4, <2>1, <2>2, <2>3, <2>4, <2>5 DEF ContactRowsOK
<1>7. use.load = 1 => ContactSerialRowsOK'
  <2>1. \A x : Drafted(x)' = Drafted(x)
    <3>1. \A n \in db.today : rows[n].experiment = db.messages[n].experiment
      BY <1>2 DEF ContactsInv, ContactRowsOK
    <3> QED BY <1>4, <3>1 DEF Drafted
  <2> QED BY <1>4, <2>1 DEF ContactsInv, ContactSerialRowsOK, SentOnce
<1> QED BY <1>2, <1>4, <1>5, <1>6, <1>7 DEF ContactsKept

LEMMA RequestRowsWritten ==
  ASSUME ContactsInv, NEW rows \in Seq(RequestRow), db' = [db EXCEPT !.approvals = rows], UNCHANGED use,
         \A a \in DOMAIN db.approvals :
           /\ a \in DOMAIN rows /\ rows[a].message = db.approvals[a].message
           /\ db.approvals[a].status = "APPROVED" => rows[a].status = "APPROVED",
         \A a \in DOMAIN rows : rows[a].message \in DOMAIN db.messages
  PROVE  ContactsKept /\ db'.deliveries = db.deliveries /\ db'.approvals = rows
<1>1. /\ db' \in OutreachTables
      /\ db'.prospects = db.prospects /\ db'.experiments = db.experiments /\ db'.messages = db.messages /\ db'.today = db.today
      /\ db'.approvals = rows /\ db'.deliveries = db.deliveries /\ db'.responses = db.responses
  BY DEF ContactsInv, ContactTypes, OutreachTables
<1>2. RecordsStay
  BY <1>1 DEF RecordsStay
<1>3. ContactRowsOK'
  <2>1. \A n : Allowed(n) => Allowed(n)'
    BY <1>2, BackingStays DEF ContactsInv
  <2>2. \A p, status : Backed(p, status) => Backed(p, status)'
    BY <1>2, BackingStays DEF ContactsInv
  <2> QED BY <1>1, <2>1, <2>2 DEF ContactsInv, ContactRowsOK
<1>4. use.load = 1 => ContactSerialRowsOK'
  BY <1>1 DEF ContactsInv, ContactSerialRowsOK, SentOnce, Drafted
<1> QED BY <1>1, <1>2, <1>3, <1>4 DEF ContactsKept

LEMMA ResponseRowsWritten ==
  ASSUME ContactsInv, NEW rows \in Seq(ResponseRow), db' = [db EXCEPT !.responses = rows], UNCHANGED use,
         \A r \in DOMAIN db.responses : r \in DOMAIN rows /\ rows[r].message = db.responses[r].message,
         \A r \in DOMAIN rows : rows[r].message \in DOMAIN db.messages /\ db.messages[rows[r].message].contacted
  PROVE  ContactsKept /\ db'.deliveries = db.deliveries /\ db'.responses = rows
<1>1. /\ db' \in OutreachTables
      /\ db'.prospects = db.prospects /\ db'.experiments = db.experiments /\ db'.messages = db.messages /\ db'.today = db.today
      /\ db'.approvals = db.approvals /\ db'.deliveries = db.deliveries /\ db'.responses = rows
  BY DEF ContactsInv, ContactTypes, OutreachTables
<1>2. RecordsStay
  BY <1>1 DEF RecordsStay
<1>3. ContactRowsOK'
  <2>1. \A n : Allowed(n) => Allowed(n)'
    BY <1>2, BackingStays DEF ContactsInv
  <2>2. \A p, status : Backed(p, status) => Backed(p, status)'
    BY <1>2, BackingStays DEF ContactsInv
  <2> QED BY <1>1, <2>1, <2>2 DEF ContactsInv, ContactRowsOK
<1>4. use.load = 1 => ContactSerialRowsOK'
  BY <1>1 DEF ContactsInv, ContactSerialRowsOK, SentOnce, Drafted
<1> QED BY <1>1, <1>2, <1>3, <1>4 DEF ContactsKept

-----------------------------------------------------------------------------
(* The steps of a call that is on its way.                                 *)

LEMMA ContactsWrote ==
  ASSUME O!OutreachConstants, ContactsInv, NEW c \in Calls, NEW next \in OutreachCall, O!GoTo(c, next), UNCHANGED <<use, memory, history>>,
         ContactsKept, db'.deliveries = db.deliveries, Working(c), next.at # "idle" => ContactCallOK(next)',
         next.at \notin {"provider", "delivery", "draft", "experiment", "discover"}
  PROVE  ContactsInv'
<1>1. ContactSerialCallOK(next)'
  BY DEF ContactSerialCallOK
<1> QED BY <1>1, ContactsGoOn DEF ContactsKept

LEMMA ContactsWroteAndReturned ==
  ASSUME O!OutreachConstants, ContactsInv, NEW c \in Calls, O!Return(c), UNCHANGED <<use, memory, history>>,
         ContactsKept, db'.deliveries = db.deliveries, Working(c)
  PROVE  ContactsInv'
<1>1. O!GoTo(c, O!Idle)
  BY DEF O!Return
<1> QED BY <1>1, ContactsIdle, ContactsWrote

LEMMA SetStatusReadInv == ASSUME O!OutreachConstants, ContactsInv, NEW c \in Calls, O!SetStatusRead(c) PROVE ContactsInv'
<1>0. PICK call \in OutreachCall : call = calls[c] /\ ContactCallOK(call)
  BY DEF ContactsInv, ContactTypes
<1>1. call.at = "prospect" /\ Working(c) /\ UNCHANGED <<use, db, memory, history>>
  BY <1>0 DEF O!SetStatusRead, Working
<1>2. CASE O!Return(c)
  BY <1>1, <1>2, ContactsReturn
<1>3. CASE O!GoTo(c, [calls[c] EXCEPT !.at = "prospectWrite"])
  <2> DEFINE next == [call EXCEPT !.at = "prospectWrite"]
  <2>1. next \in OutreachCall /\ next.at = "prospectWrite" /\ next.p = call.p /\ next.todo = call.todo
        /\ next.m = call.m /\ next.r = call.r /\ next.auto = call.auto
    BY DEF OutreachCall, ContactPlaces
  <2>2. O!GoTo(c, next)
    BY <1>0, <1>3
  <2> HIDE DEF next
  <2>3. ContactCallOK(next) /\ ContactSerialCallOK(next)
    BY <1>0, <1>1, <2>1 DEF ContactCallOK, ContactSerialCallOK, AboutMessage
  <2> QED BY <1>1, <2>1, <2>2, <2>3, ContactsRead
<1> QED BY <1>2, <1>3 DEF O!SetStatusRead

LEMMA SetStatusWriteInv == ASSUME O!OutreachConstants, ContactsInv, NEW c \in Calls, O!SetStatusWrite(c) PROVE ContactsInv'
<1>0. PICK call \in OutreachCall : call = calls[c] /\ ContactCallOK(call)
  BY DEF ContactsInv, ContactTypes
<1>1. /\ call.at = "prospectWrite" /\ Working(c) /\ UNCHANGED <<use, memory, history>>
      /\ db' = [db EXCEPT !.prospects[call.p].status = Head(call.todo)]
  BY <1>0 DEF O!SetStatusWrite, Working
<1>2. /\ call.p \in DOMAIN db.prospects /\ call.todo # <<>> /\ call.todo \in Seq(O!ProspectStatus)
      /\ \A i \in DOMAIN call.todo :
            /\ Backed(call.p, call.todo[i])
            /\ call.todo[i] = "APPROVED_TO_CONTACT" /\ call.auto => call.m \in DOMAIN db.messages
            /\ call.todo[i] = "RESPONDED" /\ call.auto => call.r \in DOMAIN db.responses
  BY <1>0, <1>1 DEF ContactCallOK, OutreachCall
<1>3. PICK rest : rest = Tail(call.todo)
  OBVIOUS
<1>4. PICK status \in O!ProspectStatus : status = Head(call.todo)
  BY <1>2, TodoFacts
<1>5. /\ 1 \in DOMAIN call.todo /\ status = call.todo[1]
      /\ rest \in Seq(O!ProspectStatus) /\ \A i \in DOMAIN rest : i + 1 \in DOMAIN call.todo /\ rest[i] = call.todo[i + 1]
  BY <1>2, <1>3, <1>4, TodoFacts
<1>6. ContactsKept /\ db'.deliveries = db.deliveries
  <2>0. db.prospects \in Seq(ProspectRow)
    BY ContactTableFacts DEF ContactsInv
  <2>1. [db.prospects EXCEPT ![call.p].status = status] \in Seq(ProspectRow)
    <3>0. PICK old \in ProspectRow : old = db.prospects[call.p]
      BY <2>0, <1>2
    <3>1. PICK row : row = [old EXCEPT !.status = status]
      OBVIOUS
    <3>2. row \in ProspectRow
      BY <3>1 DEF ProspectRow
    <3>3. [db.prospects EXCEPT ![call.p] = row] \in Seq(ProspectRow)
      BY <2>0, <1>2, <3>2
    <3> QED BY <3>0, <3>1, <3>3
  <2>2. PICK rows \in Seq(ProspectRow) : rows = [db.prospects EXCEPT ![call.p].status = status]
    BY <2>1, Zenon
  <2>3. /\ DOMAIN rows = DOMAIN db.prospects
        /\ \A p \in DOMAIN db.prospects : rows[p].source = db.prospects[p].source
        /\ \A p \in DOMAIN db.prospects : rows[p].status = IF p = call.p THEN status ELSE db.prospects[p].status
    BY <2>0, <2>2, <1>2 DEF ProspectRow
  <2>4. db' = [db EXCEPT !.prospects = rows]
    BY <1>1, <1>4, <2>2, ContactTableFacts DEF ContactsInv
  <2>5. \A p \in DOMAIN rows : Backed(p, rows[p].status)
    BY <2>3, <1>2, <1>5 DEF ContactsInv, ContactRowsOK
  <2>6. use.load = 1 => \A p, q \in DOMAIN rows : rows[p].source = rows[q].source => p = q
    BY <2>3 DEF ContactsInv, ContactSerialRowsOK
  <2> QED BY <1>1, <2>3, <2>4, <2>5, <2>6, ProspectsWritten
<1>7. RecordsStay
  BY <1>6 DEF ContactsKept
<1>8. CASE rest # <<>> /\ O!GoTo(c, O!ToProspect(call, call.p, rest))
  <2> DEFINE next == O!ToProspect(call, call.p, rest)
  <2>1. next \in OutreachCall /\ next.at = "prospect" /\ next.p = call.p /\ next.todo = rest
        /\ next.m = call.m /\ next.r = call.r /\ next.auto = call.auto
    BY <1>5 DEF OutreachCall, ContactPlaces, O!ToProspect
  <2>2. O!GoTo(c, next)
    BY <1>8
  <2> HIDE DEF next
  <2>3. ContactCallOK(next)
    BY <1>2, <1>5, <1>8, <2>1 DEF ContactCallOK, AboutMessage
  <2>4. ContactCallOK(next)'
    BY <1>7, <2>3, ContactCallStays DEF ContactsInv
  <2> QED BY <1>1, <1>6, <2>1, <2>2, <2>4, ContactsWrote
<1>9. CASE call.auto /\ status = "APPROVED_TO_CONTACT" /\ O!GoTo(c, [call EXCEPT !.at = "send"])
  <2> DEFINE next == [call EXCEPT !.at = "send"]
  <2>1. next \in OutreachCall /\ next.at = "send" /\ next.m = call.m
    BY DEF OutreachCall, ContactPlaces
  <2>2. O!GoTo(c, next)
    BY <1>9
  <2> HIDE DEF next
  <2>3. ContactCallOK(next)
    BY <1>2, <1>5, <1>9, <2>1 DEF ContactCallOK, AboutMessage
  <2>4. ContactCallOK(next)'
    BY <1>7, <2>3, ContactCallStays DEF ContactsInv
  <2> QED BY <1>1, <1>6, <2>1, <2>2, <2>4, ContactsWrote
<1>10. CASE call.auto /\ status = "RESPONDED" /\ O!GoTo(c, [call EXCEPT !.at = "analyze"])
  <2> DEFINE next == [call EXCEPT !.at = "analyze"]
  <2>1. next \in OutreachCall /\ next.at = "analyze" /\ next.r = call.r
    BY DEF OutreachCall, ContactPlaces
  <2>2. O!GoTo(c, next)
    BY <1>10
  <2> HIDE DEF next
  <2>3. ContactCallOK(next)
    BY <1>2, <1>5, <1>10, <2>1 DEF ContactCallOK, AboutMessage
  <2>4. ContactCallOK(next)'
    BY <1>7, <2>3, ContactCallStays DEF ContactsInv
  <2> QED BY <1>1, <1>6, <2>1, <2>2, <2>4, ContactsWrote
<1>11. CASE O!Return(c)
  BY <1>1, <1>6, <1>11, ContactsWroteAndReturned
<1>12. \/ rest # <<>> /\ O!GoTo(c, O!ToProspect(call, call.p, rest))
       \/ call.auto /\ status = "APPROVED_TO_CONTACT" /\ O!GoTo(c, [call EXCEPT !.at = "send"])
       \/ call.auto /\ status = "RESPONDED" /\ O!GoTo(c, [call EXCEPT !.at = "analyze"])
       \/ O!Return(c)
  BY <1>0, <1>3, <1>4, Zenon DEF O!SetStatusWrite
<1> QED BY <1>8, <1>9, <1>10, <1>11, <1>12

LEMMA DiscoverCreateInv == ASSUME O!OutreachConstants, ContactsInv, NEW c \in Calls, O!DiscoverCreate(c) PROVE ContactsInv'
<1>0. PICK call \in OutreachCall : call = calls[c] /\ ContactCallOK(call)
  BY DEF ContactsInv, ContactTypes
<1>1. /\ call.at = "discover" /\ call.to \in Sources /\ Working(c) /\ UNCHANGED <<use, memory, history>> /\ O!Return(c)
      /\ db' = [db EXCEPT !.prospects = Append(@, O!NewProspect(call.to))]
  BY <1>0 DEF O!DiscoverCreate, Working, ContactCallOK
<1>2. PICK new \in ProspectRow : new = O!NewProspect(call.to) /\ new.status = "DISCOVERED" /\ new.source = call.to
  BY <1>1 DEF O!NewProspect, ProspectRow, O!ProspectStatus
<1>3. db.prospects \in Seq(ProspectRow)
  BY ContactTableFacts DEF ContactsInv
<1>4. PICK n \in Nat : n = Len(db.prospects)
  BY <1>3
<1>5. Append(db.prospects, new) \in Seq(ProspectRow)
  BY <1>3
<1>6. PICK rows \in Seq(ProspectRow) : rows = Append(db.prospects, new)
  BY <1>5, Zenon
<1>7. /\ DOMAIN db.prospects = 1 .. n /\ DOMAIN rows = 1 .. (n + 1) /\ rows[n + 1] = new
      /\ \A p \in 1 .. n : rows[p] = db.prospects[p]
  BY <1>3, <1>4, <1>6
<1>8. db' = [db EXCEPT !.prospects = rows]
  BY <1>1, <1>2, <1>6, Zenon
<1>9. \A p \in DOMAIN rows : Backed(p, rows[p].status)
  <2>1. ASSUME NEW p \in 1 .. n PROVE Backed(p, rows[p].status)
    BY <1>7 DEF ContactsInv, ContactRowsOK
  <2>2. Backed(n + 1, rows[n + 1].status)
    BY <1>2, <1>7 DEF Backed
  <2> QED BY <1>7, <2>1, <2>2
<1>10. use.load = 1 => \A p, q \in DOMAIN rows : rows[p].source = rows[q].source => p = q
  <2> SUFFICES ASSUME use.load = 1, NEW p \in DOMAIN rows, NEW q \in DOMAIN rows, rows[p].source = rows[q].source PROVE p = q
    OBVIOUS
  <2>1. \A o \in 1 .. n : db.prospects[o].source # call.to
    BY <1>0, <1>1, <1>7 DEF ContactsInv, ContactSerialCallOK, O!Known
  <2>2. \A o \in 1 .. n : rows[o].source # rows[n + 1].source
    BY <1>2, <1>7, <2>1
  <2>3. \A o, r \in 1 .. n : rows[o].source = rows[r].source => o = r
    BY <1>7 DEF ContactsInv, ContactSerialRowsOK
  <2> QED BY <1>7, <2>2, <2>3
<1>11. ContactsKept /\ db'.deliveries = db.deliveries
  <2>1. DOMAIN db.prospects \subseteq DOMAIN rows
    BY <1>7
  <2> QED BY <1>1, <1>8, <1>9, <1>10, <2>1, ProspectsWritten
<1> QED BY <1>1, <1>11, ContactsWroteAndReturned

(* A call goes on to set one status of a prospect.                         *)
LEMMA ToProspectGoesOn ==
  ASSUME NEW call \in OutreachCall, NEW p \in Nat, NEW status \in O!ProspectStatus,
         p \in DOMAIN db'.prospects, Backed(p, status)',
         status = "APPROVED_TO_CONTACT" /\ call.auto => call.m \in DOMAIN db'.messages,
         status = "RESPONDED" /\ call.auto => call.r \in DOMAIN db'.responses
  PROVE  \E next \in OutreachCall : next = O!ToProspect(call, p, <<status>>) /\ next.at = "prospect" /\ ContactCallOK(next)'
<1> DEFINE next == O!ToProspect(call, p, <<status>>)
<1>1. <<status>> \in Seq(O!ProspectStatus) /\ DOMAIN <<status>> = {1} /\ <<status>>[1] = status /\ <<status>> # <<>>
  OBVIOUS
<1>2. next \in OutreachCall /\ next.at = "prospect" /\ next.p = p /\ next.todo = <<status>>
      /\ next.m = call.m /\ next.r = call.r /\ next.auto = call.auto
  BY <1>1 DEF OutreachCall, ContactPlaces, O!ToProspect
<1>3. next = O!ToProspect(call, p, <<status>>)
  OBVIOUS
<1> HIDE DEF next
<1>4. ContactCallOK(next)'
  BY <1>1, <1>2 DEF ContactCallOK, AboutMessage
<1> QED BY <1>2, <1>3, <1>4

LEMMA OneMore ==
  ASSUME NEW S, IsFiniteSet(S), NEW x
  PROVE  IsFiniteSet(S \cup {x}) /\ Cardinality(S \cup {x}) \in Nat /\ Cardinality(S \cup {x}) <= Cardinality(S) + 1
<1>1. IsFiniteSet(S \cup {x}) /\ Cardinality(S) \in Nat
  BY FS_AddElement, FS_CardinalityType
<1>2. CASE x \in S
  <2>1. S \cup {x} = S
    BY <1>2
  <2> QED BY <1>1, <2>1
<1>3. CASE x \notin S
  BY <1>1, <1>3, FS_AddElement
<1> QED BY <1>2, <1>3

LEMMA ExperimentWriteInv == ASSUME O!OutreachConstants, ContactsInv, NEW c \in Calls, O!ExperimentWrite(c) PROVE ContactsInv'
<1>0. PICK call \in OutreachCall : call = calls[c] /\ ContactCallOK(call) /\ (use.load = 1 => ContactSerialCallOK(call))
  BY DEF ContactsInv, ContactTypes
<1>1. /\ call.at = "experiment" /\ Working(c) /\ UNCHANGED <<use, memory, history>> /\ O!Return(c)
      /\ db' = [db EXCEPT !.experiments[call.x] = call.to]
      /\ call.x \in Experiments /\ call.to \in {"ACTIVE", "COMPLETED", "STOPPED", "CANCELLED"}
  BY <1>0 DEF O!ExperimentWrite, Working, ContactCallOK
<1>2. [db.experiments EXCEPT ![call.x] = call.to] \in [Experiments -> OutreachExperimentStatus]
  BY <1>1, ContactTableFacts DEF ContactsInv, OutreachExperimentStatus
<1>3. PICK rows \in [Experiments -> OutreachExperimentStatus] : rows = [db.experiments EXCEPT ![call.x] = call.to]
  BY <1>2, Zenon
<1>4. db' = [db EXCEPT !.experiments = rows]
  BY <1>1, <1>3, ContactTableFacts DEF ContactsInv
<1>5. /\ db' \in OutreachTables
      /\ db'.prospects = db.prospects /\ db'.experiments = rows /\ db'.messages = db.messages /\ db'.today = db.today
      /\ db'.approvals = db.approvals /\ db'.deliveries = db.deliveries /\ db'.responses = db.responses
  BY <1>4 DEF ContactsInv, ContactTypes, OutreachTables
<1>6. RecordsStay
  BY <1>5 DEF RecordsStay
<1>7. ContactRowsOK'
  BY <1>1, <1>5, ContactRowsStay DEF ContactsInv, ContactRowsOK
<1>8. use.load = 1 => ContactSerialRowsOK'
  BY <1>5 DEF ContactsInv, ContactSerialRowsOK, SentOnce, Drafted
<1>9. ContactsKept /\ db'.deliveries = db.deliveries
  BY <1>5, <1>6, <1>7, <1>8 DEF ContactsKept
<1> QED BY <1>1, <1>9, ContactsWroteAndReturned

LEMMA DraftedFacts ==
  ASSUME ContactsInv, NEW x
  PROVE  IsFiniteSet(Drafted(x)) /\ Cardinality(Drafted(x)) \in Nat
<1>1. db.messages \in Seq(MessageRow)
  BY ContactTableFacts DEF ContactsInv
<1>2. PICK n \in Nat : DOMAIN db.messages = 1 .. n
  BY <1>1
<1>3. IsFiniteSet(1 .. n)
  BY FS_Interval
<1>4. Drafted(x) \subseteq 1 .. n
  BY <1>2 DEF Drafted, ContactsInv, ContactRowsOK
<1> QED BY <1>3, <1>4, FS_Subset, FS_CardinalityType

LEMMA DraftCreateInv == ASSUME O!OutreachConstants, ContactsInv, NEW c \in Calls, O!DraftCreate(c) PROVE ContactsInv'
<1>0. PICK call \in OutreachCall : call = calls[c] /\ ContactCallOK(call) /\ (use.load = 1 => ContactSerialCallOK(call))
  BY DEF ContactsInv, ContactTypes
<1>1. /\ call.at = "draft" /\ call.x \in Experiments /\ call.p \in DOMAIN db.prospects /\ Working(c) /\ UNCHANGED <<use, memory, history>>
      /\ Len(db.messages) < use.rows
      /\ db' = [db EXCEPT !.messages = Append(@, O!NewOutreachMessage(call.x, call.p)), !.today = @ \cup {Len(db.messages) + 1}]
      /\ O!GoTo(c, O!ToProspect(call, call.p, <<"APPROVED_FOR_DRAFT", "DRAFT_READY">>))
  BY <1>0 DEF O!DraftCreate, Working, ContactCallOK
<1>2. PICK new \in MessageRow : new = O!NewOutreachMessage(call.x, call.p) /\ new.experiment = call.x /\ new.prospect = call.p
                                /\ new.approval = 0 /\ ~new.contacted /\ new.status = "DRAFT"
  <2>1. call.x \in Nat /\ call.p \in Nat
    BY DEF OutreachCall
  <2> DEFINE row == O!NewOutreachMessage(call.x, call.p)
  <2>2. row \in MessageRow /\ row.experiment = call.x /\ row.prospect = call.p
        /\ row.approval = 0 /\ ~row.contacted /\ row.status = "DRAFT"
    BY <2>1 DEF O!NewOutreachMessage, MessageRow, MessageStatus
  <2> QED BY <2>2, Zenon
<1>3. db.messages \in Seq(MessageRow)
  BY ContactTableFacts DEF ContactsInv
<1>4. PICK n \in Nat : n = Len(db.messages)
  BY <1>3
<1>5. Append(db.messages, new) \in Seq(MessageRow)
  BY <1>3
<1>6. PICK rows \in Seq(MessageRow) : rows = Append(db.messages, new)
  BY <1>5, Zenon
<1>7. /\ DOMAIN db.messages = 1 .. n /\ DOMAIN rows = 1 .. (n + 1) /\ Len(rows) = n + 1 /\ rows[n + 1] = new
      /\ \A m \in 1 .. n : rows[m] = db.messages[m]
  BY <1>3, <1>4, <1>6
<1>8. db' = [db EXCEPT !.messages = rows, !.today = db.today \cup {n + 1}]
  BY <1>1, <1>2, <1>4, <1>6, Zenon
<1>9. db.today \cup {n + 1} \in SUBSET Nat
  BY ContactTableFacts DEF ContactsInv
<1>10. /\ db' \in OutreachTables
       /\ db'.prospects = db.prospects /\ db'.experiments = db.experiments /\ db'.messages = rows /\ db'.today = db.today \cup {n + 1}
       /\ db'.approvals = db.approvals /\ db'.deliveries = db.deliveries /\ db'.responses = db.responses
  BY <1>8, <1>9 DEF ContactsInv, ContactTypes, OutreachTables
<1>11. RecordsStay
  BY <1>7, <1>10 DEF RecordsStay
<1>12. ContactRowsOK'
  <2>1. \A p \in DOMAIN db.prospects : Backed(p, db.prospects[p].status)'
    <3>1. \A p, status : Backed(p, status) => Backed(p, status)'
      BY <1>11, BackingStays DEF ContactsInv
    <3>2. \A p \in DOMAIN db.prospects : Backed(p, db.prospects[p].status)
      BY DEF ContactsInv, ContactRowsOK
    <3> QED BY <1>10, <3>1, <3>2 DEF Backed
  <2>2. \A m : Allowed(m) => Allowed(m)'
    BY <1>11, BackingStays DEF ContactsInv
  <2>3. ASSUME NEW m \in DOMAIN rows
        PROVE  /\ rows[m].prospect \in DOMAIN db.prospects /\ rows[m].experiment \in Experiments
               /\ rows[m].approval \in {0} \cup DOMAIN db.approvals
               /\ rows[m].status = "CONTACTED" => rows[m].contacted
               /\ rows[m].contacted => Allowed(m)'
    <3>1. CASE m \in 1 .. n
      BY <1>7, <2>2, <3>1 DEF ContactsInv, ContactRowsOK
    <3>2. CASE m = n + 1
      BY <1>1, <1>2, <1>7, <3>2
    <3> QED BY <1>7, <3>1, <3>2
  <2>4. /\ \A a \in DOMAIN db.approvals : db.approvals[a].message \in DOMAIN rows
        /\ \A r \in DOMAIN db.responses : db.responses[r].message \in DOMAIN rows /\ rows[db.responses[r].message].contacted
    BY <1>7 DEF ContactsInv, ContactRowsOK
  <2>5. Len(rows) <= use'.rows
    BY <1>1, <1>4, <1>7 DEF ContactsInv, ContactTypes
  <2>6. db.today \cup {n + 1} \subseteq DOMAIN rows
    BY <1>7 DEF ContactsInv, ContactRowsOK
  <2> QED BY <1>10, <2>1, <2>3, <2>4, <2>5, <2>6 DEF ContactRowsOK
<1>13. ASSUME use.load = 1, NEW x \in Experiments PROVE Cardinality(Drafted(x)') <= MaxMessagesPerExperiment
  <2>1. IsFiniteSet(Drafted(x)) /\ Cardinality(Drafted(x)) \in Nat /\ Cardinality(Drafted(x)) <= MaxMessagesPerExperiment
        /\ MaxMessagesPerExperiment \in Nat
    BY OutreachCounts, <1>13, DraftedFacts DEF O!OutreachConstants, ContactsInv, ContactSerialRowsOK
  <2>2. \A m \in db.today : rows[m].experiment = db.messages[m].experiment
    BY <1>7 DEF ContactsInv, ContactRowsOK
  <2>3. CASE x = call.x
    <3>1. Cardinality(Drafted(x)) < MaxMessagesPerExperiment
      BY <1>0, <1>1, <1>13, <2>3 DEF ContactSerialCallOK
    <3>2. Drafted(x)' \subseteq Drafted(x) \cup {n + 1}
      BY <1>10, <2>2 DEF Drafted
    <3>3. IsFiniteSet(Drafted(x) \cup {n + 1}) /\ Cardinality(Drafted(x) \cup {n + 1}) \in Nat
          /\ Cardinality(Drafted(x) \cup {n + 1}) <= Cardinality(Drafted(x)) + 1
      BY <2>1, OneMore
    <3>4. Cardinality(Drafted(x)') <= Cardinality(Drafted(x) \cup {n + 1}) /\ Cardinality(Drafted(x)') \in Nat
      BY <3>2, <3>3, FS_Subset, FS_CardinalityType
    <3> QED BY <2>1, <3>1, <3>3, <3>4
  <2>4. CASE x # call.x
    <3>1. Drafted(x)' \subseteq Drafted(x)
      BY <1>2, <1>7, <1>10, <2>2, <2>4 DEF Drafted
    <3>2. Cardinality(Drafted(x)') <= Cardinality(Drafted(x)) /\ Cardinality(Drafted(x)') \in Nat
      BY <2>1, <3>1, FS_Subset, FS_CardinalityType
    <3> QED BY <2>1, <3>2
  <2> QED BY <2>3, <2>4
<1>14. use.load = 1 => ContactSerialRowsOK'
  BY <1>10, <1>13 DEF ContactsInv, ContactSerialRowsOK, SentOnce
<1>15. ContactsKept /\ db'.deliveries = db.deliveries
  BY <1>10, <1>11, <1>12, <1>14 DEF ContactsKept
<1> DEFINE todo == <<"APPROVED_FOR_DRAFT", "DRAFT_READY">>
           next == O!ToProspect(call, call.p, todo)
<1>16. todo \in Seq(O!ProspectStatus) /\ DOMAIN todo = {1, 2} /\ todo[1] = "APPROVED_FOR_DRAFT" /\ todo[2] = "DRAFT_READY" /\ todo # <<>>
  BY DEF O!ProspectStatus
<1> HIDE DEF todo
<1>17. next \in OutreachCall /\ next.at = "prospect" /\ next.p = call.p /\ next.todo = todo
  BY <1>16 DEF OutreachCall, ContactPlaces, O!ToProspect
<1>18. O!GoTo(c, next)
  BY <1>1 DEF todo
<1> HIDE DEF next
<1>19. ContactCallOK(next)'
  BY <1>1, <1>10, <1>16, <1>17 DEF ContactCallOK, AboutMessage, Backed
<1> QED BY <1>1, <1>15, <1>17, <1>18, <1>19, ContactsWrote

LEMMA ModelFailsInv == ASSUME O!OutreachConstants, ContactsInv, NEW c \in Calls, O!ModelFails(c) PROVE ContactsInv'
BY ContactsReturn DEF O!ModelFails, Working

LEMMA RequestApprovalInv ==
  ASSUME O!OutreachConstants, ContactsInv, NEW c \in Calls, NEW m \in DOMAIN db.messages, O!RequestApproval(c, m)
  PROVE  ContactsInv'
<1>1. Working(c) /\ UNCHANGED <<use, memory, history>>
      /\ db' = [db EXCEPT !.approvals = Append(@, O!NewApproval(m))]
      /\ O!GoTo(c, [O!Idle EXCEPT !.at = "attach", !.m = m, !.a = Len(db.approvals) + 1])
  BY MayWork DEF O!RequestApproval
<1>2. m \in Nat
  BY ContactRowFacts DEF ContactsInv
<1>3. PICK new \in RequestRow : new = O!NewApproval(m) /\ new.message = m /\ new.status = "PENDING"
  <2> DEFINE row == O!NewApproval(m)
  <2>1. row \in RequestRow /\ row.message = m /\ row.status = "PENDING"
    BY <1>2 DEF O!NewApproval, RequestRow
  <2> QED BY <2>1, Zenon
<1>4. db.approvals \in Seq(RequestRow)
  BY ContactTableFacts DEF ContactsInv
<1>5. PICK n \in Nat : n = Len(db.approvals)
  BY <1>4
<1>6. Append(db.approvals, new) \in Seq(RequestRow)
  BY <1>4
<1>7. PICK rows \in Seq(RequestRow) : rows = Append(db.approvals, new)
  BY <1>6, Zenon
<1>8. /\ DOMAIN db.approvals = 1 .. n /\ DOMAIN rows = 1 .. (n + 1) /\ rows[n + 1] = new
      /\ \A a \in 1 .. n : rows[a] = db.approvals[a]
  BY <1>4, <1>5, <1>7
<1>9. db' = [db EXCEPT !.approvals = rows]
  BY <1>1, <1>3, <1>7, Zenon
<1>10. ContactsKept /\ db'.deliveries = db.deliveries /\ db'.approvals = rows
  <2>1. \A a \in DOMAIN db.approvals :
           /\ a \in DOMAIN rows /\ rows[a].message = db.approvals[a].message
           /\ db.approvals[a].status = "APPROVED" => rows[a].status = "APPROVED"
    BY <1>8
  <2>2. ASSUME NEW a \in DOMAIN rows PROVE rows[a].message \in DOMAIN db.messages
    <3>1. CASE a \in 1 .. n
      BY <1>8, <3>1 DEF ContactsInv, ContactRowsOK
    <3>2. CASE a = n + 1
      BY <1>3, <1>8, <3>2
    <3> QED BY <1>8, <3>1, <3>2
  <2> QED BY <1>1, <1>9, <2>1, <2>2, RequestRowsWritten
<1>b. PICK a \in Nat : a = n + 1
  OBVIOUS
<1> DEFINE next == [O!Idle EXCEPT !.at = "attach", !.m = m, !.a = a]
<1>11. next \in OutreachCall /\ next.at = "attach" /\ next.m = m /\ next.a = a
  BY <1>2, ContactsIdle DEF O!Idle, OutreachCall, ContactPlaces, ContactTargets, OutreachExperimentStatus
<1>12. O!GoTo(c, next)
  BY <1>1, <1>5, <1>b
<1> HIDE DEF next
<1>13. m \in DOMAIN db'.messages
  BY <1>10 DEF ContactsKept, RecordsStay
<1>14. ContactCallOK(next)'
  BY <1>b, <1>8, <1>10, <1>11, <1>13 DEF ContactCallOK, AboutMessage
<1> QED BY <1>1, <1>10, <1>11, <1>12, <1>14, ContactsWrote

LEMMA AttachApprovalInv == ASSUME O!OutreachConstants, ContactsInv, NEW c \in Calls, O!AttachApproval(c) PROVE ContactsInv'
<1>0. PICK call \in OutreachCall : call = calls[c] /\ ContactCallOK(call)
  BY DEF ContactsInv, ContactTypes
<1>1. /\ call.at = "attach" /\ call.m \in DOMAIN db.messages /\ call.a \in DOMAIN db.approvals /\ Working(c) /\ UNCHANGED <<use, memory, history>>
      /\ db' = [db EXCEPT !.messages[call.m].status = "AWAITING_HUMAN_APPROVAL", !.messages[call.m].approval = call.a]
      /\ O!GoTo(c, O!ToProspect(call, db.messages[call.m].prospect, <<"AWAITING_HUMAN_APPROVAL">>))
  BY <1>0 DEF O!AttachApproval, Working, ContactCallOK, AboutMessage
<1>2. PICK old \in MessageRow : old = db.messages[call.m]
  BY <1>1, ContactRowFacts DEF ContactsInv
<1>3. PICK row \in MessageRow : row = [old EXCEPT !.status = "AWAITING_HUMAN_APPROVAL", !.approval = call.a]
  BY DEF MessageRow, MessageStatus, OutreachCall
<1>4. row.prospect = old.prospect /\ row.experiment = old.experiment /\ row.contacted = old.contacted
      /\ row.status = "AWAITING_HUMAN_APPROVAL" /\ row.approval = call.a
  BY <1>3 DEF MessageRow
<1>5. db' = [db EXCEPT !.messages = [@ EXCEPT ![call.m] = row]]
  BY <1>1, <1>2, <1>3, ContactTableFacts DEF ContactsInv
<1>6. ContactsKept /\ db'.deliveries = db.deliveries
  <2>1. old.contacted => Allowed(call.m)
    BY <1>1, <1>2 DEF ContactsInv, ContactRowsOK
  <2>2. /\ row.prospect = db.messages[call.m].prospect /\ row.experiment = db.messages[call.m].experiment
        /\ row.approval \in {0} \cup DOMAIN db.approvals
        /\ db.messages[call.m].contacted => row.contacted
        /\ row.status = "CONTACTED" => row.contacted
        /\ row.contacted => Allowed(call.m)
    BY <1>1, <1>2, <1>4, <2>1
  <2> QED BY <1>1, <1>5, <2>2, MessageRowWritten
<1>7. old.prospect \in Nat /\ old.prospect \in DOMAIN db'.prospects
  BY <1>1, <1>2, <1>6 DEF ContactsInv, ContactRowsOK, MessageRow, ContactsKept, RecordsStay
<1>8. PICK next \in OutreachCall : next = O!ToProspect(call, old.prospect, <<"AWAITING_HUMAN_APPROVAL">>) /\ next.at = "prospect" /\ ContactCallOK(next)'
  BY <1>7, ToProspectGoesOn DEF Backed, O!ProspectStatus
<1> QED BY <1>1, <1>2, <1>6, <1>8, ContactsWrote

LEMMA DecideInv ==
  ASSUME O!OutreachConstants, ContactsInv, NEW c \in Calls, NEW a \in DOMAIN db.approvals, NEW verdict \in {"APPROVED", "REJECTED"}, O!Decide(c, a, verdict)
  PROVE  ContactsInv'
<1>1. /\ Working(c) /\ UNCHANGED <<use, memory, history>> /\ db.approvals[a].status = "PENDING"
      /\ db' = [db EXCEPT !.approvals[a].status = verdict]
      /\ O!GoTo(c, [O!Idle EXCEPT !.at = "apply", !.a = a, !.auto = TRUE]) \/ O!Return(c)
  BY MayWork DEF O!Decide
<1>2. a \in Nat /\ db.approvals \in Seq(RequestRow)
  BY ContactTableFacts, ContactRowFacts DEF ContactsInv
<1>3. PICK old \in RequestRow : old = db.approvals[a]
  BY <1>2
<1>4. PICK row \in RequestRow : row = [old EXCEPT !.status = verdict]
  BY DEF RequestRow
<1>5. row.message = old.message
  BY <1>4 DEF RequestRow
<1>6. [db.approvals EXCEPT ![a] = row] \in Seq(RequestRow)
  BY <1>2
<1>7. PICK rows \in Seq(RequestRow) : rows = [db.approvals EXCEPT ![a] = row]
  BY <1>6, Zenon
<1>8. DOMAIN rows = DOMAIN db.approvals /\ rows[a] = row /\ \A b \in DOMAIN db.approvals \ {a} : rows[b] = db.approvals[b]
  BY <1>2, <1>7
<1>9. db' = [db EXCEPT !.approvals = rows]
  BY <1>1, <1>3, <1>4, <1>7, ContactTableFacts DEF ContactsInv
<1>10. ContactsKept /\ db'.deliveries = db.deliveries /\ db'.approvals = rows
  <2>1. \A b \in DOMAIN db.approvals :
           /\ b \in DOMAIN rows /\ rows[b].message = db.approvals[b].message
           /\ db.approvals[b].status = "APPROVED" => rows[b].status = "APPROVED"
    BY <1>1, <1>3, <1>5, <1>8
  <2>2. \A b \in DOMAIN rows : rows[b].message \in DOMAIN db.messages
    BY <1>8, <2>1 DEF ContactsInv, ContactRowsOK
  <2> QED BY <1>1, <1>9, <2>1, <2>2, RequestRowsWritten
<1>11. CASE O!Return(c)
  BY <1>1, <1>10, <1>11, ContactsWroteAndReturned
<1>12. CASE O!GoTo(c, [O!Idle EXCEPT !.at = "apply", !.a = a, !.auto = TRUE])
  <2> DEFINE next == [O!Idle EXCEPT !.at = "apply", !.a = a, !.auto = TRUE]
  <2>1. next \in OutreachCall /\ next.at = "apply" /\ next.a = a
    BY <1>2, ContactsIdle DEF O!Idle, OutreachCall, ContactPlaces, ContactTargets, OutreachExperimentStatus
  <2>2. O!GoTo(c, next)
    BY <1>12
  <2> HIDE DEF next
  <2>3. ContactCallOK(next)'
    BY <1>8, <1>10, <2>1 DEF ContactCallOK, AboutMessage
  <2> QED BY <1>1, <1>10, <2>1, <2>2, <2>3, ContactsWrote
<1> QED BY <1>1, <1>11, <1>12

LEMMA ApplyReadInv == ASSUME O!OutreachConstants, ContactsInv, NEW c \in Calls, O!ApplyRead(c) PROVE ContactsInv'
<1>0. PICK call \in OutreachCall : call = calls[c] /\ ContactCallOK(call)
  BY DEF ContactsInv, ContactTypes
<1>1. call.at = "apply" /\ call.a \in DOMAIN db.approvals /\ Working(c) /\ UNCHANGED <<use, db, memory, history>>
  BY <1>0 DEF O!ApplyRead, Working, ContactCallOK
<1>2. PICK m \in Nat : m = db.approvals[call.a].message /\ m \in DOMAIN db.messages
  BY <1>1, ContactRowFacts DEF ContactsInv, ContactRowsOK
<1>3. \/ O!GoTo(c, [call EXCEPT !.at = "send", !.m = m])
      \/ \E to \in {"APPROVED_TO_CONTACT", "REJECTED"} : O!GoTo(c, [call EXCEPT !.at = "applyWrite", !.m = m, !.to = to])
      \/ O!Return(c)
  BY <1>0, <1>2 DEF O!ApplyRead
<1>4. CASE O!GoTo(c, [call EXCEPT !.at = "send", !.m = m])
  <2> DEFINE next == [call EXCEPT !.at = "send", !.m = m]
  <2>1. next \in OutreachCall /\ next.at = "send" /\ next.m = m
    BY DEF OutreachCall, ContactPlaces
  <2>2. O!GoTo(c, next)
    BY <1>4
  <2> HIDE DEF next
  <2>3. ContactCallOK(next) /\ ContactSerialCallOK(next)
    BY <1>2, <2>1 DEF ContactCallOK, ContactSerialCallOK, AboutMessage
  <2> QED BY <1>1, <2>1, <2>2, <2>3, ContactsRead
<1>5. ASSUME NEW to \in {"APPROVED_TO_CONTACT", "REJECTED"}, O!GoTo(c, [call EXCEPT !.at = "applyWrite", !.m = m, !.to = to]) PROVE ContactsInv'
  <2> DEFINE next == [call EXCEPT !.at = "applyWrite", !.m = m, !.to = to]
  <2>1. next \in OutreachCall /\ next.at = "applyWrite" /\ next.m = m /\ next.to = to
    BY DEF OutreachCall, ContactPlaces, ContactTargets
  <2>2. O!GoTo(c, next)
    BY <1>5
  <2> HIDE DEF next
  <2>3. ContactCallOK(next) /\ ContactSerialCallOK(next)
    BY <1>2, <2>1 DEF ContactCallOK, ContactSerialCallOK, AboutMessage
  <2> QED BY <1>1, <2>1, <2>2, <2>3, ContactsRead
<1>6. CASE O!Return(c)
  BY <1>1, <1>6, ContactsReturn
<1> QED BY <1>3, <1>4, <1>5, <1>6

LEMMA ApplyWriteInv == ASSUME O!OutreachConstants, ContactsInv, NEW c \in Calls, O!ApplyWrite(c) PROVE ContactsInv'
<1>0. PICK call \in OutreachCall : call = calls[c] /\ ContactCallOK(call)
  BY DEF ContactsInv, ContactTypes
<1>1. /\ call.at = "applyWrite" /\ call.m \in DOMAIN db.messages /\ call.to \in {"APPROVED_TO_CONTACT", "REJECTED"}
      /\ Working(c) /\ UNCHANGED <<use, memory, history>>
      /\ db' = [db EXCEPT !.messages[call.m].status = call.to]
      /\ O!GoTo(c, O!ToProspect(call, db.messages[call.m].prospect, <<call.to>>))
  BY <1>0 DEF O!ApplyWrite, Working, ContactCallOK, AboutMessage
<1>2. PICK old \in MessageRow : old = db.messages[call.m]
  BY <1>1, ContactRowFacts DEF ContactsInv
<1>3. PICK row \in MessageRow : row = [old EXCEPT !.status = call.to]
  BY <1>1 DEF MessageRow, MessageStatus
<1>4. row.prospect = old.prospect /\ row.experiment = old.experiment /\ row.contacted = old.contacted
      /\ row.status = call.to /\ row.approval = old.approval
  BY <1>3 DEF MessageRow
<1>5. db' = [db EXCEPT !.messages = [@ EXCEPT ![call.m] = row]]
  BY <1>1, <1>2, <1>3, ContactTableFacts DEF ContactsInv
<1>6. ContactsKept /\ db'.deliveries = db.deliveries /\ DOMAIN db'.messages = DOMAIN db.messages
  <2>1. (old.contacted => Allowed(call.m)) /\ old.approval \in {0} \cup DOMAIN db.approvals
    BY <1>1, <1>2 DEF ContactsInv, ContactRowsOK
  <2>2. /\ row.prospect = db.messages[call.m].prospect /\ row.experiment = db.messages[call.m].experiment
        /\ row.approval \in {0} \cup DOMAIN db.approvals
        /\ db.messages[call.m].contacted => row.contacted
        /\ row.status = "CONTACTED" => row.contacted
        /\ row.contacted => Allowed(call.m)
    BY <1>1, <1>2, <1>4, <2>1
  <2> QED BY <1>1, <1>5, <2>2, MessageRowWritten
<1>7. old.prospect \in Nat /\ old.prospect \in DOMAIN db'.prospects
  BY <1>1, <1>2, <1>6 DEF ContactsInv, ContactRowsOK, MessageRow, ContactsKept, RecordsStay
<1>8. PICK next \in OutreachCall : next = O!ToProspect(call, old.prospect, <<call.to>>) /\ next.at = "prospect" /\ ContactCallOK(next)'
  <2>1. Backed(old.prospect, call.to)' /\ call.to \in O!ProspectStatus /\ call.to # "RESPONDED"
    BY <1>1 DEF Backed, O!ProspectStatus
  <2>2. call.m \in DOMAIN db'.messages
    BY <1>1, <1>6
  <2> QED BY <1>7, <2>1, <2>2, ToProspectGoesOn
<1> QED BY <1>1, <1>2, <1>6, <1>8, ContactsWrote

LEMMA ContactReadInv == ASSUME O!OutreachConstants, ContactsInv, NEW c \in Calls, O!ContactRead(c) PROVE ContactsInv'
<1>0. PICK call \in OutreachCall : call = calls[c] /\ ContactCallOK(call)
  BY DEF ContactsInv, ContactTypes
<1>1. call.at = "contact" /\ call.m \in DOMAIN db.messages /\ Working(c) /\ UNCHANGED <<use, db, memory, history>>
  BY <1>0 DEF O!ContactRead, Working, ContactCallOK, AboutMessage
<1>2. (O!BoundApproval(call.m) /\ O!GoTo(c, [call EXCEPT !.at = "contactWrite"])) \/ O!Return(c)
  BY <1>0 DEF O!ContactRead
<1>3. CASE O!BoundApproval(call.m) /\ O!GoTo(c, [call EXCEPT !.at = "contactWrite"])
  <2> DEFINE next == [call EXCEPT !.at = "contactWrite"]
  <2>1. next \in OutreachCall /\ next.at = "contactWrite" /\ next.m = call.m
    BY DEF OutreachCall, ContactPlaces
  <2>2. O!GoTo(c, next)
    BY <1>3
  <2> HIDE DEF next
  <2>3. Allowed(call.m)
    BY <1>1, <1>3 DEF O!BoundApproval, Allowed, ContactsInv, ContactRowsOK
  <2>4. ContactCallOK(next) /\ ContactSerialCallOK(next)
    BY <1>1, <2>1, <2>3 DEF ContactCallOK, ContactSerialCallOK, AboutMessage
  <2> QED BY <1>1, <2>1, <2>2, <2>4, ContactsRead
<1>4. CASE O!Return(c)
  BY <1>1, <1>4, ContactsReturn
<1> QED BY <1>2, <1>3, <1>4

LEMMA ContactWriteInv == ASSUME O!OutreachConstants, ContactsInv, NEW c \in Calls, O!ContactWrite(c) PROVE ContactsInv'
<1>0. PICK call \in OutreachCall : call = calls[c] /\ ContactCallOK(call)
  BY DEF ContactsInv, ContactTypes
<1>1. /\ call.at = "contactWrite" /\ call.m \in DOMAIN db.messages /\ Allowed(call.m) /\ Working(c) /\ UNCHANGED <<use, memory, history>>
      /\ db' = [db EXCEPT !.messages[call.m].status = "CONTACTED", !.messages[call.m].contacted = TRUE]
      /\ O!GoTo(c, O!ToProspect(call, db.messages[call.m].prospect, <<"CONTACTED">>))
  BY <1>0 DEF O!ContactWrite, Working, ContactCallOK, AboutMessage
<1>2. PICK old \in MessageRow : old = db.messages[call.m]
  BY <1>1, ContactRowFacts DEF ContactsInv
<1>3. PICK row \in MessageRow : row = [old EXCEPT !.status = "CONTACTED", !.contacted = TRUE]
  BY DEF MessageRow, MessageStatus
<1>4. row.prospect = old.prospect /\ row.experiment = old.experiment /\ row.contacted /\ row.approval = old.approval
  BY <1>3 DEF MessageRow
<1>5. db' = [db EXCEPT !.messages = [@ EXCEPT ![call.m] = row]]
  BY <1>1, <1>2, <1>3, ContactTableFacts DEF ContactsInv
<1>6. ContactsKept /\ db'.deliveries = db.deliveries /\ DOMAIN db'.messages = DOMAIN db.messages /\ db'.messages[call.m] = row
  <2>1. old.approval \in {0} \cup DOMAIN db.approvals
    BY <1>1, <1>2 DEF ContactsInv, ContactRowsOK
  <2>2. /\ row.prospect = db.messages[call.m].prospect /\ row.experiment = db.messages[call.m].experiment
        /\ row.approval \in {0} \cup DOMAIN db.approvals
        /\ db.messages[call.m].contacted => row.contacted
        /\ row.status = "CONTACTED" => row.contacted
        /\ row.contacted => Allowed(call.m)
    BY <1>1, <1>2, <1>4, <2>1
  <2> QED BY <1>1, <1>5, <2>2, MessageRowWritten
<1>7. old.prospect \in Nat /\ old.prospect \in DOMAIN db'.prospects
  BY <1>1, <1>2, <1>6 DEF ContactsInv, ContactRowsOK, MessageRow, ContactsKept, RecordsStay
<1>8. Contacted(old.prospect)'
  BY <1>1, <1>4, <1>6 DEF Contacted
<1>9. PICK next \in OutreachCall : next = O!ToProspect(call, old.prospect, <<"CONTACTED">>) /\ next.at = "prospect" /\ ContactCallOK(next)'
  BY <1>7, <1>8, ToProspectGoesOn DEF Backed, O!ProspectStatus
<1> QED BY <1>1, <1>2, <1>6, <1>9, ContactsWrote

LEMMA RecordCreateInv == ASSUME O!OutreachConstants, ContactsInv, NEW c \in Calls, O!RecordCreate(c) PROVE ContactsInv'
<1>0. PICK call \in OutreachCall : call = calls[c] /\ ContactCallOK(call)
  BY DEF ContactsInv, ContactTypes
<1>1. /\ call.at = "respond" /\ call.m \in DOMAIN db.messages /\ db.messages[call.m].contacted /\ Working(c) /\ UNCHANGED <<use, memory, history>>
      /\ db' = [db EXCEPT !.responses = Append(@, O!NewCustomerResponse(call.m))]
      /\ O!GoTo(c, O!ToProspect([call EXCEPT !.r = Len(db.responses) + 1, !.auto = use.auto], db.messages[call.m].prospect, <<"RESPONDED">>))
  BY <1>0 DEF O!RecordCreate, Working, ContactCallOK, AboutMessage
<1>2. PICK old \in MessageRow : old = db.messages[call.m]
  BY <1>1, ContactRowFacts DEF ContactsInv
<1>3. PICK new \in ResponseRow : new = O!NewCustomerResponse(call.m) /\ new.message = call.m
  <2> DEFINE row == O!NewCustomerResponse(call.m)
  <2>1. call.m \in Nat
    BY DEF OutreachCall
  <2>2. row \in ResponseRow /\ row.message = call.m
    BY <2>1 DEF O!NewCustomerResponse, ResponseRow
  <2> QED BY <2>2, Zenon
<1>4. db.responses \in Seq(ResponseRow)
  BY ContactTableFacts DEF ContactsInv
<1>5. PICK n \in Nat : n = Len(db.responses)
  BY <1>4
<1>6. Append(db.responses, new) \in Seq(ResponseRow)
  BY <1>4
<1>7. PICK rows \in Seq(ResponseRow) : rows = Append(db.responses, new)
  BY <1>6, Zenon
<1>8. /\ DOMAIN db.responses = 1 .. n /\ DOMAIN rows = 1 .. (n + 1) /\ rows[n + 1] = new
      /\ \A r \in 1 .. n : rows[r] = db.responses[r]
  BY <1>4, <1>5, <1>7
<1>9. db' = [db EXCEPT !.responses = rows]
  BY <1>1, <1>3, <1>7, Zenon
<1>10. ContactsKept /\ db'.deliveries = db.deliveries /\ db'.responses = rows
  <2>1. \A r \in DOMAIN db.responses : r \in DOMAIN rows /\ rows[r].message = db.responses[r].message
    BY <1>8
  <2>2. ASSUME NEW r \in DOMAIN rows PROVE rows[r].message \in DOMAIN db.messages /\ db.messages[rows[r].message].contacted
    <3>1. CASE r \in 1 .. n
      BY <1>8, <3>1 DEF ContactsInv, ContactRowsOK
    <3>2. CASE r = n + 1
      BY <1>1, <1>3, <1>8, <3>2
    <3> QED BY <1>8, <3>1, <3>2
  <2> QED BY <1>1, <1>9, <2>1, <2>2, ResponseRowsWritten
<1>11. PICK r \in Nat : r = n + 1 /\ r \in DOMAIN rows /\ rows[r].message = call.m
  BY <1>3, <1>8
<1>12. PICK going \in OutreachCall : going = [call EXCEPT !.r = r, !.auto = use.auto] /\ going.r = r
  <2> DEFINE next == [call EXCEPT !.r = r, !.auto = use.auto]
  <2>1. use.auto \in BOOLEAN
    BY DEF ContactsInv, ContactTypes
  <2>2. next \in OutreachCall /\ next.r = r
    BY <2>1 DEF OutreachCall
  <2> QED BY <2>2, Zenon
<1>13. db'.messages[call.m].prospect = old.prospect /\ call.m \in DOMAIN db'.messages /\ db'.messages[call.m].contacted
  BY <1>1, <1>2, <1>10 DEF ContactsKept, RecordsStay
<1>14. old.prospect \in Nat /\ old.prospect \in DOMAIN db'.prospects
  BY <1>1, <1>2, <1>10 DEF ContactsInv, ContactRowsOK, MessageRow, ContactsKept, RecordsStay
<1>15. Contacted(old.prospect)' /\ Responded(old.prospect)'
  BY <1>10, <1>11, <1>13 DEF Contacted, Responded
<1>16. PICK next \in OutreachCall : next = O!ToProspect(going, old.prospect, <<"RESPONDED">>) /\ next.at = "prospect" /\ ContactCallOK(next)'
  <2>1. Backed(old.prospect, "RESPONDED")' /\ "RESPONDED" \in O!ProspectStatus
    BY <1>15 DEF Backed, O!ProspectStatus
  <2>2. going.r \in DOMAIN db'.responses
    BY <1>10, <1>11, <1>12
  <2> QED BY <1>14, <2>1, <2>2, ToProspectGoesOn
<1>17. O!GoTo(c, next)
  BY <1>1, <1>2, <1>5, <1>11, <1>12, <1>16
<1> QED BY <1>1, <1>10, <1>16, <1>17, ContactsWrote

LEMMA ResponseRowWritten ==
  ASSUME ContactsInv, NEW r \in DOMAIN db.responses, NEW row \in ResponseRow, db' = [db EXCEPT !.responses = [@ EXCEPT ![r] = row]],
         row.message = db.responses[r].message, UNCHANGED use
  PROVE  ContactsKept /\ db'.deliveries = db.deliveries /\ DOMAIN db'.responses = DOMAIN db.responses
<1>1. db.responses \in Seq(ResponseRow)
  BY ContactTableFacts DEF ContactsInv
<1>2. [db.responses EXCEPT ![r] = row] \in Seq(ResponseRow)
  BY <1>1
<1>3. PICK rows \in Seq(ResponseRow) : rows = [db.responses EXCEPT ![r] = row]
  BY <1>2, Zenon
<1>4. DOMAIN rows = DOMAIN db.responses /\ \A q \in DOMAIN rows : rows[q].message = db.responses[q].message
  BY <1>1, <1>3
<1>5. db' = [db EXCEPT !.responses = rows]
  BY <1>3, ContactTableFacts DEF ContactsInv
<1>6. \A q \in DOMAIN rows : rows[q].message \in DOMAIN db.messages /\ db.messages[rows[q].message].contacted
  BY <1>4 DEF ContactsInv, ContactRowsOK
<1> QED BY <1>4, <1>5, <1>6, ResponseRowsWritten

LEMMA AnalyzeExtractInv ==
  ASSUME O!OutreachConstants, ContactsInv, NEW c \in Calls, NEW n \in O!Extractions, O!AnalyzeExtract(c, n)
  PROVE  ContactsInv'
<1>0. PICK call \in OutreachCall : call = calls[c] /\ ContactCallOK(call)
  BY DEF ContactsInv, ContactTypes
<1>1. /\ call.at = "analyze" /\ call.r \in DOMAIN db.responses /\ Working(c) /\ UNCHANGED <<use, memory, history>>
      /\ db' = [db EXCEPT !.responses = [@ EXCEPT ![call.r].evidence = db.responses[call.r].evidence + n]]
      /\ O!GoTo(c, [call EXCEPT !.at = "analyzed"])
  BY <1>0 DEF O!AnalyzeExtract, O!WithEvidence, Working, ContactCallOK
<1>2. PICK old \in ResponseRow : old = db.responses[call.r]
  BY <1>1, ContactRowFacts DEF ContactsInv
<1>3. PICK k \in Nat : k = old.evidence + n
  BY DEF ResponseRow, O!Extractions, O!OutreachConstants
<1>4. PICK row \in ResponseRow : row = [old EXCEPT !.evidence = k]
  BY DEF ResponseRow
<1>5. row.message = old.message
  BY <1>4 DEF ResponseRow
<1>6. db' = [db EXCEPT !.responses = [@ EXCEPT ![call.r] = row]]
  BY <1>1, <1>2, <1>3, <1>4, ContactTableFacts DEF ContactsInv
<1>7. ContactsKept /\ db'.deliveries = db.deliveries /\ DOMAIN db'.responses = DOMAIN db.responses
  BY <1>1, <1>2, <1>5, <1>6, ResponseRowWritten
<1> DEFINE next == [call EXCEPT !.at = "analyzed"]
<1>8. next \in OutreachCall /\ next.at = "analyzed" /\ next.r = call.r
  BY DEF OutreachCall, ContactPlaces
<1>9. O!GoTo(c, next)
  BY <1>1
<1> HIDE DEF next
<1>10. ContactCallOK(next)'
  BY <1>1, <1>7, <1>8 DEF ContactCallOK, AboutMessage
<1> QED BY <1>1, <1>7, <1>8, <1>9, <1>10, ContactsWrote

LEMMA AnalyzeMarkInv == ASSUME O!OutreachConstants, ContactsInv, NEW c \in Calls, O!AnalyzeMark(c) PROVE ContactsInv'
<1>0. PICK call \in OutreachCall : call = calls[c] /\ ContactCallOK(call)
  BY DEF ContactsInv, ContactTypes
<1>1. /\ call.r \in DOMAIN db.responses /\ Working(c) /\ UNCHANGED <<use, memory, history>> /\ O!Return(c)
      /\ db' = [db EXCEPT !.responses[call.r].status = "ANALYZED"]
  BY <1>0 DEF O!AnalyzeMark, Working, ContactCallOK
<1>2. PICK old \in ResponseRow : old = db.responses[call.r]
  BY <1>1, ContactRowFacts DEF ContactsInv
<1>3. PICK row \in ResponseRow : row = [old EXCEPT !.status = "ANALYZED"]
  BY DEF ResponseRow
<1>4. row.message = old.message
  BY <1>3 DEF ResponseRow
<1>5. db' = [db EXCEPT !.responses = [@ EXCEPT ![call.r] = row]]
  BY <1>1, <1>2, <1>3, ContactTableFacts DEF ContactsInv
<1>6. ContactsKept /\ db'.deliveries = db.deliveries
  BY <1>1, <1>2, <1>4, <1>5, ResponseRowWritten
<1> QED BY <1>1, <1>6, ContactsWroteAndReturned

-----------------------------------------------------------------------------
(* The send.                                                               *)
LEMMA MessageIsNamed == ASSUME ContactsInv, NEW m \in DOMAIN db.messages PROVE m \in Messages
<1>1. db.messages \in Seq(MessageRow) /\ use.rows \in Nat /\ Len(db.messages) <= use.rows /\ 1 .. use.rows \subseteq Messages
  BY ContactTableFacts DEF ContactsInv, ContactTypes, ContactRowsOK
<1>2. PICK n \in Nat : n = Len(db.messages) /\ DOMAIN db.messages = 1 .. n
  BY <1>1
<1> QED BY <1>1, <1>2

LEMMA NothingWritten ==
  ASSUME ContactsInv, UNCHANGED <<use, db>>
  PROVE  /\ db' \in OutreachTables /\ RecordsStay /\ ContactRowsOK' /\ (use.load = 1 => ContactSerialRowsOK')
         /\ \A m : Unsent(m)' = Unsent(m)
<1>1. db' \in OutreachTables /\ RecordsStay
  BY DEF ContactsInv, ContactTypes, RecordsStay
<1>2. ContactRowsOK'
  BY ContactRowsStay DEF ContactsInv, ContactRowsOK
<1>3. use.load = 1 => ContactSerialRowsOK'
  BY DEF ContactsInv, ContactSerialRowsOK, SentOnce, Drafted
<1> QED BY <1>1, <1>2, <1>3 DEF Unsent

LEMMA SendCheckInv == ASSUME O!OutreachConstants, ContactsInv, NEW c \in Calls, O!SendCheck(c) PROVE ContactsInv'
<1>0. PICK call \in OutreachCall : call = calls[c] /\ ContactCallOK(call)
  BY DEF ContactsInv, ContactTypes
<1>1. call.at = "send" /\ call.m \in DOMAIN db.messages /\ Working(c) /\ UNCHANGED <<use, db, history>>
  BY <1>0 DEF O!SendCheck, Working, ContactCallOK, AboutMessage
<1>2. CASE O!Return(c) /\ UNCHANGED memory
  BY <1>1, <1>2, ContactsReturn
<1>3. CASE /\ O!Sendable(call.m) /\ O!GoTo(c, [call EXCEPT !.at = "provider", !.a = db.messages[call.m].approval])
           /\ memory' = [memory EXCEPT !.window = @ + 1]
  <2>1. PICK a \in Nat : a = db.messages[call.m].approval
    BY <1>1, ContactRowFacts DEF ContactsInv, MessageRow
  <2> DEFINE next == [call EXCEPT !.at = "provider", !.a = a]
  <2>2. next \in OutreachCall /\ next.at = "provider" /\ next.m = call.m
    BY DEF OutreachCall, ContactPlaces
  <2>3. O!GoTo(c, next)
    BY <1>3, <2>1
  <2> HIDE DEF next
  <2>4. db' \in OutreachTables /\ RecordsStay /\ ContactRowsOK' /\ (use.load = 1 => ContactSerialRowsOK')
    BY <1>1, NothingWritten
  <2>5. ContactCallOK(next)'
    BY <1>1, <2>2 DEF ContactCallOK, AboutMessage
  <2>6. /\ calls' \in [Calls -> OutreachCall] /\ calls'[c] = next /\ \A d \in Calls \ {c} : calls'[d] = calls[d]
        /\ Cardinality(BusyCalls)' <= use.load'
    BY <1>1, <2>2, <2>3, <2>4, <2>5, ContactCallStep
  <2>7. memory' \in [provider : [Messages -> {"unknown"} \cup SendAttempts], window : Nat] /\ memory'.provider = memory.provider
    BY <1>3 DEF ContactsInv, ContactTypes
  <2>8. history'.times \in [Messages -> Nat] /\ TimesOK'
    BY <1>1, <2>7 DEF ContactsInv, ContactTypes, TimesOK
  <2>9. ASSUME NEW m \in Messages PROVE Len(db'.deliveries[m]) + Cardinality(Sending(m)') <= MaxSendAttempts + use'.load - 1
    <3>1. PICK n \in Nat : n = Len(db.deliveries[m])
      BY ContactTableFacts DEF ContactsInv
    <3>2. MaxSendAttempts \in Nat /\ use.load \in Nat
      BY DEF O!OutreachConstants, ContactsInv, ContactTypes
    <3>3. use'.load = use.load /\ db'.deliveries = db.deliveries
      BY <1>1
    <3>4. Len(db'.deliveries[m]) = n
      BY <3>1, <3>3
    <3>5. CASE m = call.m
      <4>1. n < MaxSendAttempts
        BY <1>3, <3>1, <3>5 DEF O!Sendable
      <4>2. IsFiniteSet(BusyCalls') /\ Sending(m)' \subseteq BusyCalls'
        BY OutreachCounts, FS_Subset DEF BusyCalls, Sending, O!OutreachConstants
      <4>3. Cardinality(Sending(m)') <= Cardinality(BusyCalls') /\ Cardinality(Sending(m)') \in Nat /\ Cardinality(BusyCalls') \in Nat
        BY <4>2, FS_Subset, FS_CardinalityType
      <4>4. Cardinality(BusyCalls') <= use.load
        BY <2>6, <3>3
      <4> QED BY <3>2, <3>3, <3>4, <4>1, <4>3, <4>4
    <3>6. CASE m # call.m
      <4>1. Sending(m)' \subseteq Sending(m)
        BY <2>2, <2>6, <3>6 DEF Sending
      <4>2. Cardinality(Sending(m)') <= Cardinality(Sending(m)) /\ Cardinality(Sending(m)') \in Nat /\ Cardinality(Sending(m)) \in Nat
        BY <4>1, SendingFacts, FS_Subset, FS_CardinalityType
      <4>3. n + Cardinality(Sending(m)) <= MaxSendAttempts + use.load - 1
        BY <3>1 DEF ContactsInv, AttemptsOK
      <4>4. n + Cardinality(Sending(m)') <= MaxSendAttempts + use.load - 1
        BY <3>2, <4>2, <4>3
      <4> QED BY <3>3, <3>4, <4>4
    <3> QED BY <3>5, <3>6
  <2>10. AttemptsOK'
    BY <2>9 DEF AttemptsOK
  <2>11. ContactSerialCallOK(next)'
    <3>1. Unsent(call.m)
      BY <1>3 DEF O!Sendable, Unsent
    <3>2. Unsent(call.m)'
      BY <1>1, <3>1, NothingWritten
    <3> QED BY <2>2, <3>2 DEF ContactSerialCallOK
  <2> QED BY <1>1, <2>2, <2>3, <2>4, <2>5, <2>7, <2>8, <2>10, <2>11, ContactsMoveOn
<1> QED BY <1>0, <1>2, <1>3 DEF O!SendCheck

LEMMA ProviderAnswersInv ==
  ASSUME O!OutreachConstants, ContactsInv, NEW c \in Calls, NEW outcome \in SendAttempts, O!SendProvider(c, outcome)
  PROVE  ContactsInv'
<1>0. PICK call \in OutreachCall : call = calls[c] /\ ContactCallOK(call) /\ (use.load = 1 => ContactSerialCallOK(call))
  BY DEF ContactsInv, ContactTypes
<1>1. call.at = "provider" /\ call.m \in DOMAIN db.messages /\ Working(c) /\ UNCHANGED <<use, db>>
  BY <1>0 DEF O!SendProvider, Working, ContactCallOK, AboutMessage
<1>2. call.m \in Messages
  BY <1>1, MessageIsNamed
<1>3. memory.provider \in [Messages -> {"unknown"} \cup SendAttempts] /\ memory.window \in Nat /\ history.times \in [Messages -> Nat]
  BY DEF ContactsInv, ContactTypes
<1>4. PICK status \in SendAttempts :
        /\ status = O!sendMessage(call.m, outcome).status
        /\ memory.provider[call.m] # "unknown" => status = memory.provider[call.m] /\ ~O!sendMessage(call.m, outcome).transmits
  BY <1>2, <1>3 DEF O!sendMessage
<1>5. /\ memory' = [memory EXCEPT !.provider[call.m] = status]
      /\ O!GoTo(c, [call EXCEPT !.at = "delivery", !.to = status])
      /\ \/ history' = history
         \/ memory.provider[call.m] = "unknown" /\ history'.times = [history.times EXCEPT ![call.m] = @ + 1]
  BY <1>0, <1>4 DEF O!SendProvider
<1>6. /\ memory' \in [provider : [Messages -> {"unknown"} \cup SendAttempts], window : Nat] /\ memory'.provider[call.m] = status
      /\ \A m \in Messages \ {call.m} : memory'.provider[m] = memory.provider[m]
  BY <1>2, <1>3, <1>5 DEF ContactsInv, ContactTypes
<1>7. /\ history'.times \in [Messages -> Nat]
      /\ \A m \in Messages \ {call.m} : history'.times[m] = history.times[m]
      /\ \/ history'.times[call.m] = history.times[call.m]
         \/ memory.provider[call.m] = "unknown" /\ history'.times[call.m] = history.times[call.m] + 1
  BY <1>2, <1>3, <1>5
<1>8. use.restarts \in Nat /\ use.crashes \in Nat
  BY DEF ContactsInv, ContactTypes
<1>9. ASSUME NEW m \in Messages
      PROVE  /\ history'.times[m] <= 1 + (use'.restarts - use'.crashes)
             /\ memory'.provider[m] = "unknown" => history'.times[m] <= use'.restarts - use'.crashes
  <2>1. /\ history.times[m] <= 1 + (use.restarts - use.crashes)
        /\ memory.provider[m] = "unknown" => history.times[m] <= use.restarts - use.crashes
    BY DEF ContactsInv, TimesOK
  <2>2. CASE m # call.m
    BY <1>1, <1>6, <1>7, <2>1, <2>2
  <2>3. CASE m = call.m
    <3>1. memory'.provider[m] # "unknown"
      BY <1>6, <2>3 DEF SendAttempts
    <3> QED BY <1>1, <1>3, <1>7, <1>8, <2>1, <2>3, <3>1
  <2> QED BY <2>2, <2>3
<1>10. TimesOK'
  BY <1>9 DEF TimesOK
<1> DEFINE next == [call EXCEPT !.at = "delivery", !.to = status]
<1>11. next \in OutreachCall /\ next.at = "delivery" /\ next.m = call.m /\ next.to = status
  BY DEF OutreachCall, ContactPlaces, ContactTargets, SendAttempts
<1>12. O!GoTo(c, next)
  BY <1>5
<1> HIDE DEF next
<1>13. db' \in OutreachTables /\ RecordsStay /\ ContactRowsOK' /\ (use.load = 1 => ContactSerialRowsOK')
  BY <1>1, NothingWritten
<1>14. ContactCallOK(next)'
  BY <1>1, <1>11 DEF ContactCallOK, AboutMessage
<1>15. calls'[c] = next /\ \A d \in Calls \ {c} : calls'[d] = calls[d]
  BY <1>1, <1>11, <1>12, <1>13, <1>14, ContactCallStep
<1>16. AttemptsOK'
  BY <1>0, <1>1, <1>11, <1>15, AttemptsStay
<1>17. use.load = 1 => ContactSerialCallOK(next)'
  <2>1. use.load = 1 => Unsent(call.m)'
    BY <1>0, <1>1, NothingWritten DEF ContactSerialCallOK
  <2> QED BY <1>11, <2>1 DEF ContactSerialCallOK
<1> QED BY <1>1, <1>6, <1>7, <1>10, <1>11, <1>12, <1>13, <1>14, <1>16, <1>17, ContactsMoveOn

LEMMA SendRecordInv == ASSUME O!OutreachConstants, ContactsInv, NEW c \in Calls, O!SendRecord(c) PROVE ContactsInv'
<1>0. PICK call \in OutreachCall : call = calls[c] /\ ContactCallOK(call) /\ (use.load = 1 => ContactSerialCallOK(call))
  BY DEF ContactsInv, ContactTypes
<1>1. /\ call.at = "delivery" /\ call.m \in DOMAIN db.messages /\ call.to \in SendAttempts /\ Working(c) /\ UNCHANGED <<use, memory, history>>
      /\ db' = [db EXCEPT !.deliveries[call.m] = Append(@, call.to)]
      /\ O!GoTo(c, [call EXCEPT !.at = "contact"]) \/ O!Return(c)
  BY <1>0 DEF O!SendRecord, Working, ContactCallOK, AboutMessage
<1>2. call.m \in Messages /\ db.deliveries \in [Messages -> Seq(SendAttempts)]
  BY <1>1, MessageIsNamed, ContactTableFacts DEF ContactsInv
<1>3. PICK old \in Seq(SendAttempts) : old = db.deliveries[call.m]
  BY <1>2
<1>4. PICK n \in Nat : n = Len(old)
  OBVIOUS
<1>5. Append(old, call.to) \in Seq(SendAttempts)
  BY <1>1
<1>6. PICK row \in Seq(SendAttempts) : row = Append(old, call.to)
  BY <1>5, Zenon
<1>7. /\ DOMAIN old = 1 .. n /\ DOMAIN row = 1 .. (n + 1) /\ Len(row) = n + 1 /\ row[n + 1] = call.to
      /\ \A i \in 1 .. n : row[i] = old[i]
  BY <1>4, <1>6
<1>8. [db.deliveries EXCEPT ![call.m] = row] \in [Messages -> Seq(SendAttempts)]
  BY <1>2
<1>9. PICK rows \in [Messages -> Seq(SendAttempts)] : rows = [db.deliveries EXCEPT ![call.m] = row]
  BY <1>8, Zenon
<1>10. rows[call.m] = row /\ \A m \in Messages \ {call.m} : rows[m] = db.deliveries[m]
  BY <1>2, <1>9
<1>11. db' = [db EXCEPT !.deliveries = rows]
  BY <1>1, <1>3, <1>6, <1>9, ContactTableFacts DEF ContactsInv
<1>12. /\ db' \in OutreachTables
       /\ db'.prospects = db.prospects /\ db'.experiments = db.experiments /\ db'.messages = db.messages /\ db'.today = db.today
       /\ db'.approvals = db.approvals /\ db'.deliveries = rows /\ db'.responses = db.responses
  BY <1>11 DEF ContactsInv, ContactTypes, OutreachTables
<1>13. RecordsStay
  BY <1>12 DEF RecordsStay
<1>14. ContactRowsOK'
  BY <1>1, <1>12, ContactRowsStay DEF ContactsInv, ContactRowsOK
<1>15. ASSUME use.load = 1, NEW m \in Messages PROVE SentOnce(m)'
  <2>1. CASE m # call.m
    <3>1. db'.deliveries[m] = db.deliveries[m]
      BY <1>10, <1>12, <2>1
    <3>2. SentOnce(m)
      BY <1>15 DEF ContactsInv, ContactSerialRowsOK
    <3> QED BY <3>1, <3>2 DEF SentOnce
  <2>2. CASE m = call.m
    <3>1. \A i \in 1 .. n : old[i] # "SENT"
      BY <1>0, <1>1, <1>3, <1>7, <1>15 DEF ContactSerialCallOK, Unsent
    <3>2. \A i \in 1 .. (n + 1) : row[i] = "SENT" => i = n + 1
      BY <1>7, <3>1
    <3> QED BY <1>7, <1>10, <1>12, <2>2, <3>2 DEF SentOnce
  <2> QED BY <2>1, <2>2
<1>16. use.load = 1 => ContactSerialRowsOK'
  BY <1>12, <1>15 DEF ContactsInv, ContactSerialRowsOK, Drafted
<1>17. TimesOK' /\ history'.times \in [Messages -> Nat] /\ memory' \in [provider : [Messages -> {"unknown"} \cup SendAttempts], window : Nat]
  BY <1>1 DEF ContactsInv, ContactTypes, TimesOK
<1>18. ASSUME NEW next \in OutreachCall, O!GoTo(c, next), next.at \in {"contact", "idle"}, next.at = "contact" => next.m = call.m
       PROVE  ContactsInv'
  <2>1. next.at # "idle" => ContactCallOK(next)'
    BY <1>1, <1>12, <1>18 DEF ContactCallOK, AboutMessage
  <2>2. calls'[c] = next /\ \A d \in Calls \ {c} : calls'[d] = calls[d]
    BY <1>1, <1>12, <1>13, <1>18, <2>1, ContactCallStep
  <2>3. ASSUME NEW m \in Messages PROVE Len(db'.deliveries[m]) + Cardinality(Sending(m)') <= MaxSendAttempts + use'.load - 1
    <3>1. PICK k \in Nat : k = Len(db.deliveries[m])
      <4>1. db.deliveries[m] \in Seq(SendAttempts)
        BY <1>2
      <4> QED BY <4>1
    <3>2. MaxSendAttempts \in Nat /\ use.load \in Nat
      BY DEF O!OutreachConstants, ContactsInv, ContactTypes
    <3>3. k + Cardinality(Sending(m)) <= MaxSendAttempts + use.load - 1
      BY <3>1 DEF ContactsInv, AttemptsOK
    <3>4. IsFiniteSet(Sending(m)) /\ Cardinality(Sending(m)) \in Nat
      BY SendingFacts
    <3>5. CASE m = call.m
      <4>1. c \in Sending(m) /\ Sending(m)' = Sending(m) \ {c}
        BY <1>0, <1>1, <1>18, <2>2, <3>5 DEF Sending
      <4>2. Cardinality(Sending(m)') = Cardinality(Sending(m)) - 1
        <5>1. Cardinality(Sending(m) \ {c}) = Cardinality(Sending(m)) - 1
          BY <3>4, <4>1, FS_RemoveElement
        <5> QED BY <4>1, <5>1
      <4>3. k = n
        <5>1. old = db.deliveries[m]
          BY <1>3, <3>5
        <5> QED BY <1>4, <3>1, <5>1
      <4>4. use'.load = use.load
        BY <1>1
      <4>5. Len(db'.deliveries[m]) = n + 1
        BY <1>7, <1>10, <1>12, <3>5
      <4> QED BY <1>4, <3>2, <3>3, <3>4, <4>2, <4>3, <4>4, <4>5
    <3>6. CASE m # call.m
      <4>1. Sending(m)' \subseteq Sending(m)
        BY <1>18, <2>2 DEF Sending
      <4>2. Cardinality(Sending(m)') <= Cardinality(Sending(m)) /\ Cardinality(Sending(m)') \in Nat
        BY <3>4, <4>1, FS_Subset, FS_CardinalityType
      <4>3. Len(db'.deliveries[m]) = k
        BY <1>10, <1>12, <3>1, <3>6
      <4>4. use'.load = use.load
        BY <1>1
      <4> QED BY <3>2, <3>3, <3>4, <4>2, <4>3, <4>4
    <3> QED BY <3>5, <3>6
  <2>4. AttemptsOK'
    BY <2>3 DEF AttemptsOK
  <2>5. ContactSerialCallOK(next)'
    BY <1>18 DEF ContactSerialCallOK
  <2> QED BY <1>1, <1>12, <1>13, <1>14, <1>16, <1>17, <1>18, <2>1, <2>4, <2>5, ContactsMoveOn
<1>19. CASE O!GoTo(c, [call EXCEPT !.at = "contact"])
  <2> DEFINE next == [call EXCEPT !.at = "contact"]
  <2>1. next \in OutreachCall /\ next.at = "contact" /\ next.m = call.m
    BY DEF OutreachCall, ContactPlaces
  <2>2. O!GoTo(c, next)
    BY <1>19
  <2> HIDE DEF next
  <2> QED BY <1>18, <2>1, <2>2
<1>20. CASE O!Return(c)
  BY <1>18, <1>20, ContactsIdle DEF O!Return
<1> QED BY <1>1, <1>19, <1>20

-----------------------------------------------------------------------------
(* The steps of no call.                                                   *)
LEMMA WrittenAside ==
  ASSUME O!OutreachConstants, ContactsInv, ContactsKept, db'.deliveries = db.deliveries, UNCHANGED <<use, calls, history>>,
         memory' \in [provider : [Messages -> {"unknown"} \cup SendAttempts], window : Nat], memory'.provider = memory.provider,
         db'.prospects = db.prospects, \A x : Drafted(x)' \subseteq Drafted(x)
  PROVE  ContactsInv'
<1>1. ContactTypes'
  BY DEF ContactsInv, ContactTypes, ContactsKept
<1>2. ASSUME NEW d \in Calls PROVE ContactCallOK(calls[d])'
  <2>1. PICK call : call = calls[d]
    OBVIOUS
  <2>2. ContactCallOK(call)'
    BY <2>1, ContactCallStays DEF ContactsInv, ContactsKept
  <2> QED BY <2>1, <2>2
<1>3. Cardinality(BusyCalls)' <= use.load'
  BY DEF ContactsInv, BusyCalls
<1>4. AttemptsOK'
  BY AttemptsStay
<1>5. TimesOK'
  BY DEF ContactsInv, TimesOK
<1>6. ASSUME use.load = 1, NEW d \in Calls PROVE ContactSerialCallOK(calls[d])'
  <2>1. PICK call \in OutreachCall : call = calls[d] /\ ContactSerialCallOK(call) /\ ContactCallOK(call)
    BY <1>6 DEF ContactsInv, ContactTypes
  <2>2. call.at \in {"provider", "delivery"} => Unsent(call.m)'
    BY <2>1 DEF ContactSerialCallOK, Unsent
  <2>3. ASSUME call.at = "draft" PROVE Cardinality(Drafted(call.x)') < MaxMessagesPerExperiment
    <3>1. Cardinality(Drafted(call.x)') <= Cardinality(Drafted(call.x)) /\ Cardinality(Drafted(call.x)') \in Nat /\ Cardinality(Drafted(call.x)) \in Nat
      BY DraftedFacts, FS_Subset, FS_CardinalityType
    <3>2. Cardinality(Drafted(call.x)) < MaxMessagesPerExperiment /\ MaxMessagesPerExperiment \in Nat
      BY OutreachCounts, <2>1, <2>3 DEF ContactSerialCallOK, O!OutreachConstants
    <3> QED BY <3>1, <3>2
  <2>4. call.at = "discover" => ~O!Known(call.to)'
    BY <2>1 DEF ContactSerialCallOK, O!Known
  <2>5. ContactSerialCallOK(call)'
    BY <2>2, <2>3, <2>4 DEF ContactSerialCallOK
  <2> QED BY <2>1, <2>5
<1> QED BY <1>1, <1>2, <1>3, <1>4, <1>5, <1>6 DEF ContactsInv, ContactsKept

LEMMA CreateExperimentInv == ASSUME O!OutreachConstants, ContactsInv, NEW x \in Experiments, O!CreateExperiment(x) PROVE ContactsInv'
<1>1. db' = [db EXCEPT !.experiments[x] = "PENDING_APPROVAL"] /\ db.experiments[x] = "none" /\ UNCHANGED <<use, calls, memory, history>>
  BY DEF O!CreateExperiment
<1>2. [db.experiments EXCEPT ![x] = "PENDING_APPROVAL"] \in [Experiments -> OutreachExperimentStatus]
  BY ContactTableFacts DEF ContactsInv, OutreachExperimentStatus
<1>3. PICK rows \in [Experiments -> OutreachExperimentStatus] : rows = [db.experiments EXCEPT ![x] = "PENDING_APPROVAL"]
  BY <1>2, Zenon
<1>4. db' = [db EXCEPT !.experiments = rows]
  BY <1>1, <1>3, ContactTableFacts DEF ContactsInv
<1>5. /\ db' \in OutreachTables
      /\ db'.prospects = db.prospects /\ db'.experiments = rows /\ db'.messages = db.messages /\ db'.today = db.today
      /\ db'.approvals = db.approvals /\ db'.deliveries = db.deliveries /\ db'.responses = db.responses
  BY <1>4 DEF ContactsInv, ContactTypes, OutreachTables
<1>6. RecordsStay
  BY <1>5 DEF RecordsStay
<1>7. ContactRowsOK'
  BY <1>1, <1>5, ContactRowsStay DEF ContactsInv, ContactRowsOK
<1>8. \A y : Drafted(y)' \subseteq Drafted(y)
  BY <1>5 DEF Drafted
<1>9. use.load = 1 => ContactSerialRowsOK'
  BY <1>5 DEF ContactsInv, ContactSerialRowsOK, SentOnce, Drafted
<1>10. ContactsKept
  BY <1>5, <1>6, <1>7, <1>9 DEF ContactsKept
<1>11. memory' \in [provider : [Messages -> {"unknown"} \cup SendAttempts], window : Nat] /\ memory'.provider = memory.provider
  BY <1>1 DEF ContactsInv, ContactTypes
<1> QED BY <1>1, <1>5, <1>8, <1>10, <1>11, WrittenAside

LEMMA LapseInv == ASSUME O!OutreachConstants, ContactsInv, NEW a \in DOMAIN db.approvals, O!Lapse(a) PROVE ContactsInv'
<1>1. db' = [db EXCEPT !.approvals[a].lapsed = TRUE] /\ UNCHANGED <<use, calls, memory, history>>
  BY DEF O!Lapse
<1>2. db.approvals \in Seq(RequestRow)
  BY ContactTableFacts DEF ContactsInv
<1>3. PICK old \in RequestRow : old = db.approvals[a]
  BY <1>2
<1>4. PICK row \in RequestRow : row = [old EXCEPT !.lapsed = TRUE]
  BY DEF RequestRow
<1>5. row.message = old.message /\ row.status = old.status
  BY <1>4 DEF RequestRow
<1>6. [db.approvals EXCEPT ![a] = row] \in Seq(RequestRow)
  BY <1>2
<1>7. PICK rows \in Seq(RequestRow) : rows = [db.approvals EXCEPT ![a] = row]
  BY <1>6, Zenon
<1>8. DOMAIN rows = DOMAIN db.approvals /\ \A b \in DOMAIN rows : rows[b].message = db.approvals[b].message /\ rows[b].status = db.approvals[b].status
  BY <1>2, <1>3, <1>5, <1>7
<1>9. db' = [db EXCEPT !.approvals = rows]
  BY <1>1, <1>3, <1>4, <1>7, ContactTableFacts DEF ContactsInv
<1>10. \A b \in DOMAIN rows : rows[b].message \in DOMAIN db.messages
  BY <1>8 DEF ContactsInv, ContactRowsOK
<1>11. ContactsKept /\ db'.deliveries = db.deliveries
  BY <1>1, <1>8, <1>9, <1>10, RequestRowsWritten
<1>12. db'.prospects = db.prospects /\ db'.messages = db.messages /\ db'.today = db.today /\ db'.experiments = db.experiments
  BY <1>9, ContactTableFacts DEF ContactsInv
<1>13. memory' \in [provider : [Messages -> {"unknown"} \cup SendAttempts], window : Nat] /\ memory'.provider = memory.provider
  BY <1>1 DEF ContactsInv, ContactTypes
<1> QED BY <1>1, <1>11, <1>12, <1>13, WrittenAside DEF Drafted

LEMMA NewDayOrHaltInv == ASSUME O!OutreachConstants, ContactsInv, O!NewDay \/ O!Halt PROVE ContactsInv'
<1>1. PICK today \in {db.today, {}}, halted \in BOOLEAN : db' = [db EXCEPT !.today = today, !.halted = halted]
  BY ContactTableFacts DEF ContactsInv, O!NewDay, O!Halt
<1>2. UNCHANGED <<use, calls, memory, history>> /\ today \subseteq db.today
  BY DEF O!NewDay, O!Halt
<1>3. today \in SUBSET Nat
  BY <1>2, ContactTableFacts DEF ContactsInv
<1>4. /\ db' \in OutreachTables
      /\ db'.prospects = db.prospects /\ db'.experiments = db.experiments /\ db'.messages = db.messages /\ db'.today = today
      /\ db'.approvals = db.approvals /\ db'.deliveries = db.deliveries /\ db'.responses = db.responses
  BY <1>1, <1>3 DEF ContactsInv, ContactTypes, OutreachTables
<1>5. RecordsStay
  BY <1>4 DEF RecordsStay
<1>6. ContactRowsOK'
  BY <1>2, <1>4, ContactRowsStay DEF ContactsInv, ContactRowsOK
<1>7. \A y : Drafted(y)' \subseteq Drafted(y)
  BY <1>2, <1>4 DEF Drafted
<1>8. ASSUME use.load = 1, NEW x \in Experiments PROVE Cardinality(Drafted(x)') <= MaxMessagesPerExperiment
  <2>1. Cardinality(Drafted(x)') <= Cardinality(Drafted(x)) /\ Cardinality(Drafted(x)') \in Nat /\ Cardinality(Drafted(x)) \in Nat
    BY <1>7, DraftedFacts, FS_Subset, FS_CardinalityType
  <2>2. Cardinality(Drafted(x)) <= MaxMessagesPerExperiment /\ MaxMessagesPerExperiment \in Nat
    BY OutreachCounts, <1>8 DEF ContactsInv, ContactSerialRowsOK, O!OutreachConstants
  <2> QED BY <2>1, <2>2
<1>9. use.load = 1 => ContactSerialRowsOK'
  BY <1>4, <1>7, <1>8 DEF ContactsInv, ContactSerialRowsOK, SentOnce
<1>10. ContactsKept
  BY <1>4, <1>5, <1>6, <1>9 DEF ContactsKept
<1>11. memory' \in [provider : [Messages -> {"unknown"} \cup SendAttempts], window : Nat] /\ memory'.provider = memory.provider
  BY <1>2 DEF ContactsInv, ContactTypes
<1> QED BY <1>2, <1>4, <1>7, <1>10, <1>11, WrittenAside

LEMMA NewMinuteInv == ASSUME O!OutreachConstants, ContactsInv, O!NewMinute PROVE ContactsInv'
<1>1. memory' = [memory EXCEPT !.window = 0] /\ UNCHANGED <<use, db, calls, history>>
  BY DEF O!NewMinute
<1>2. ContactsKept
  BY <1>1, NothingWritten DEF ContactsKept
<1>3. memory' \in [provider : [Messages -> {"unknown"} \cup SendAttempts], window : Nat] /\ memory'.provider = memory.provider
  BY <1>1 DEF ContactsInv, ContactTypes
<1> QED BY <1>1, <1>2, <1>3, WrittenAside DEF Drafted

LEMMA RestartInv == ASSUME O!OutreachConstants, ContactsInv, O!Restart PROVE ContactsInv'
<1>1. /\ use.crashes > 0 /\ use' = [use EXCEPT !.crashes = @ - 1] /\ calls' = [c \in Calls |-> O!Idle]
      /\ memory' = [provider |-> [m \in Messages |-> "unknown"], window |-> 0] /\ UNCHANGED <<db, history>>
  BY DEF O!Restart
<1>2. /\ use'.load = use.load /\ use'.restarts = use.restarts /\ use'.rows = use.rows /\ use'.auto = use.auto
      /\ use'.crashes = use.crashes - 1 /\ DOMAIN use' = DOMAIN use
      /\ use.crashes \in Nat /\ use.restarts \in Nat /\ use.load \in Nat \ {0} /\ use.crashes <= use.restarts
  BY <1>1 DEF ContactsInv, ContactTypes
<1>3. use'.crashes \in Nat /\ use'.crashes <= use'.restarts
  BY <1>1, <1>2
<1>4. ContactTypes'
  BY <1>1, <1>2, <1>3, ContactsIdle DEF ContactsInv, ContactTypes
<1>5. \A c \in Calls : calls'[c] = O!Idle
  BY <1>1
<1>6. \A c \in Calls : ContactCallOK(calls[c])' /\ ContactSerialCallOK(calls[c])'
  BY <1>5, ContactsIdle DEF ContactCallOK, ContactSerialCallOK, AboutMessage
<1>7. ContactRowsOK'
  BY <1>1, <1>2, ContactRowsStay DEF ContactsInv, ContactRowsOK
<1>8. Cardinality(BusyCalls)' <= use.load'
  <2>1. BusyCalls' = {}
    BY <1>5, ContactsIdle DEF BusyCalls
  <2>2. Cardinality(BusyCalls') = 0
    BY <2>1, FS_EmptySet
  <2> QED BY <1>2, <2>2
<1>9. AttemptsOK'
  <2>1. ASSUME NEW m \in Messages PROVE Len(db'.deliveries[m]) + Cardinality(Sending(m)') <= MaxSendAttempts + use'.load - 1
    <3>1. Sending(m)' = {}
      BY <1>5, ContactsIdle DEF Sending
    <3>2. Cardinality(Sending(m)') = 0
      BY <3>1, FS_EmptySet
    <3>3. PICK k \in Nat : k = Len(db.deliveries[m])
      <4>1. db.deliveries \in [Messages -> Seq(SendAttempts)]
        BY ContactTableFacts DEF ContactsInv
      <4> QED BY <4>1
    <3>4. k + Cardinality(Sending(m)) <= MaxSendAttempts + use.load - 1 /\ Cardinality(Sending(m)) \in Nat /\ MaxSendAttempts \in Nat
      BY OutreachCounts, <3>3, SendingFacts DEF ContactsInv, AttemptsOK, O!OutreachConstants
    <3>5. Len(db'.deliveries[m]) = k
      BY <1>1, <3>3
    <3> QED BY <1>2, <3>2, <3>4, <3>5
  <2> QED BY <2>1 DEF AttemptsOK
<1>10. TimesOK'
  <2>1. ASSUME NEW m \in Messages PROVE history'.times[m] <= use'.restarts - use'.crashes
    <3>1. history.times[m] <= 1 + (use.restarts - use.crashes) /\ history.times[m] \in Nat
      BY DEF ContactsInv, TimesOK, ContactTypes
    <3>2. history'.times[m] = history.times[m]
      BY <1>1
    <3> QED BY <1>2, <3>1, <3>2
  <2>2. \A m \in Messages : history'.times[m] \in Nat
    BY <1>4 DEF ContactTypes
  <2> QED BY <1>2, <1>3, <2>1, <2>2 DEF TimesOK
<1>11. use'.load = 1 => ContactSerialRowsOK'
  BY <1>1, <1>2 DEF ContactsInv, ContactSerialRowsOK, SentOnce, Drafted
<1> QED BY <1>4, <1>6, <1>7, <1>8, <1>9, <1>10, <1>11 DEF ContactsInv

-----------------------------------------------------------------------------
LEMMA OutreachNextOthers ==
  ASSUME O!OutreachConstants, ContactsInv,
         \/ \E x \in Experiments : O!CreateExperiment(x)
         \/ \E a \in DOMAIN db.approvals : O!Lapse(a)
         \/ O!NewDay \/ O!NewMinute \/ O!Halt \/ O!Restart
  PROVE  ContactsInv'
BY CreateExperimentInv, LapseInv, NewDayOrHaltInv, NewMinuteInv, RestartInv

LEMMA ContactsStepInv == ASSUME O!OutreachConstants, ContactsInv, NEW c \in Calls, O!Step(c) PROVE ContactsInv'
<1>1. ASSUME O!SetStatusStep(c) PROVE ContactsInv'
  BY <1>1, SetStatusReadInv, SetStatusWriteInv DEF O!SetStatusStep
<1>2. ASSUME O!DiscoveryStep(c) PROVE ContactsInv'
  BY <1>2, ContactBeginnings, DiscoverCreateInv DEF O!DiscoveryStep
<1>3. ASSUME O!ExperimentStep(c) PROVE ContactsInv'
  BY <1>3, ContactBeginnings, ExperimentWriteInv DEF O!ExperimentStep
<1>4. ASSUME O!MessageStep(c) PROVE ContactsInv'
  <2>1. ASSUME \/ \E x \in Experiments, p \in DOMAIN db.prospects : O!Draft(c, x, p)
               \/ \E m \in DOMAIN db.messages : O!MarkContacted(c, m)
               \/ \E a \in DOMAIN db.approvals : O!ApplyDecision(c, a)
        PROVE  ContactsInv'
    BY <2>1, ContactBeginnings
  <2>2. ASSUME NEW m \in DOMAIN db.messages, O!RequestApproval(c, m) PROVE ContactsInv'
    BY <2>2, RequestApprovalInv
  <2>3. ASSUME NEW a \in DOMAIN db.approvals, NEW verdict \in {"APPROVED", "REJECTED"}, O!Decide(c, a, verdict) PROVE ContactsInv'
    BY <2>3, DecideInv
  <2>4. ASSUME O!DraftCreate(c) \/ O!ModelFails(c) \/ O!AttachApproval(c) PROVE ContactsInv'
    BY <2>4, DraftCreateInv, ModelFailsInv, AttachApprovalInv
  <2>5. ASSUME O!ApplyRead(c) \/ O!ApplyWrite(c) \/ O!ContactRead(c) \/ O!ContactWrite(c) PROVE ContactsInv'
    BY <2>5, ApplyReadInv, ApplyWriteInv, ContactReadInv, ContactWriteInv
  <2> QED BY <1>4, <2>1, <2>2, <2>3, <2>4, <2>5 DEF O!MessageStep
<1>5. ASSUME O!SendStep(c) PROVE ContactsInv'
  <2>1. ASSUME NEW m \in DOMAIN db.messages, O!Send(c, m) PROVE ContactsInv'
    BY <2>1, ContactBeginnings
  <2>2. ASSUME NEW outcome \in {"SENT", "FAILED"}, O!SendProvider(c, outcome) PROVE ContactsInv'
    BY <2>2, ProviderAnswersInv DEF SendAttempts
  <2> QED BY <1>5, <2>1, <2>2, SendCheckInv, SendRecordInv DEF O!SendStep
<1>6. ASSUME O!ResponseStep(c) PROVE ContactsInv'
  <2>1. ASSUME \/ \E m \in DOMAIN db.messages : O!RecordResponse(c, m)
               \/ \E r \in DOMAIN db.responses : O!Analyze(c, r)
        PROVE  ContactsInv'
    BY <2>1, ContactBeginnings
  <2> QED BY <1>6, <2>1, RecordCreateInv, AnalyzeExtractInv, AnalyzeMarkInv DEF O!ResponseStep
<1> QED BY <1>1, <1>2, <1>3, <1>4, <1>5, <1>6 DEF O!Step

LEMMA ContactsNextInv == ASSUME O!OutreachConstants, ContactsInv, [O!OutreachNext]_(O!vars) PROVE ContactsInv'
<1>1. ASSUME UNCHANGED O!vars PROVE ContactsInv'
  <2>1. UNCHANGED <<use, db, calls, memory, history>>
    BY <1>1 DEF O!vars
  <2>2. ContactsKept
    BY <2>1, NothingWritten DEF ContactsKept
  <2>3. memory' \in [provider : [Messages -> {"unknown"} \cup SendAttempts], window : Nat] /\ memory'.provider = memory.provider
    BY <2>1 DEF ContactsInv, ContactTypes
  <2> QED BY <2>1, <2>2, <2>3, WrittenAside DEF Drafted
<1> QED BY <1>1, ContactsStepInv, OutreachNextOthers DEF O!OutreachNext

LEMMA ContactsInitInv == ASSUME O!OutreachConstants, O!OutreachInit PROVE ContactsInv
<1>1. /\ use \in OutreachUses /\ memory = [provider |-> [m \in Messages |-> "unknown"], window |-> 0] /\ calls = [c \in Calls |-> O!Idle]
      /\ history = [times |-> [m \in Messages |-> 0], under |-> [m \in Messages |-> 0]]
      /\ db = [prospects |-> use.found, experiments |-> [x \in Experiments |-> IF use.found = <<>> THEN "none" ELSE "ACTIVE"],
               messages |-> <<>>, today |-> {}, approvals |-> <<>>, deliveries |-> [m \in Messages |-> <<>>],
               responses |-> <<>>, halted |-> FALSE]
  BY DEF O!OutreachInit
<1>2. /\ use.load \in Nat \ {0} /\ use.restarts \in Nat /\ use.crashes = use.restarts /\ use.rows \in Nat /\ use.auto \in BOOLEAN
      /\ DOMAIN use = {"ops", "load", "crashes", "restarts", "rows", "auto", "found"}
      /\ use.found \in Seq([status : {"DISCOVERED", "QUALIFIED"}, source : Sources])
  BY <1>1 DEF O!OutreachConstants
<1>3. /\ 1 .. use.rows \subseteq Messages /\ \A p, q \in DOMAIN use.found : use.found[p].source = use.found[q].source => p = q
  BY OutreachCounts, <1>1 DEF O!OutreachConstants
<1>a. \A i \in DOMAIN use.found : use.found[i] \in [status : {"DISCOVERED", "QUALIFIED"}, source : Sources]
  <2> DEFINE Found == [status : {"DISCOVERED", "QUALIFIED"}, source : Sources]
  <2>1. use.found \in Seq(Found)
    BY <1>2
  <2> HIDE DEF Found
  <2>2. \A i \in DOMAIN use.found : use.found[i] \in Found
    BY <2>1
  <2> QED BY <2>2 DEF Found
<1>4. use.found \in Seq(ProspectRow)
  <2>1. PICK n \in Nat : n = Len(use.found) /\ DOMAIN use.found = 1 .. n
    BY <1>2
  <2>2. \A i \in 1 .. n : use.found[i] \in ProspectRow
    BY <1>a, <2>1 DEF ProspectRow, O!ProspectStatus
  <2>3. use.found = [i \in 1 .. n |-> use.found[i]]
    BY <1>2, <2>1
  <2>4. [i \in 1 .. n |-> use.found[i]] \in Seq(ProspectRow)
    BY <2>2
  <2> QED BY <2>3, <2>4
<1>5. \A p \in DOMAIN use.found : use.found[p].status \in {"DISCOVERED", "QUALIFIED"}
  BY <1>a
<1>6. /\ db.prospects = use.found /\ db.messages = <<>> /\ db.today = {} /\ db.approvals = <<>> /\ db.responses = <<>>
      /\ db.deliveries = [m \in Messages |-> <<>>]
      /\ db.experiments = [x \in Experiments |-> IF use.found = <<>> THEN "none" ELSE "ACTIVE"]
  BY <1>1
<1>7. /\ db.messages \in Seq(MessageRow) /\ db.approvals \in Seq(RequestRow) /\ db.responses \in Seq(ResponseRow)
      /\ db.deliveries \in [Messages -> Seq(SendAttempts)] /\ db.experiments \in [Experiments -> OutreachExperimentStatus]
      /\ DOMAIN db.messages = {} /\ DOMAIN db.approvals = {} /\ DOMAIN db.responses = {} /\ Len(db.messages) = 0
  BY <1>6 DEF OutreachExperimentStatus
<1>8. db \in OutreachTables
  BY <1>1, <1>4, <1>6, <1>7 DEF OutreachTables
<1>9. ContactTypes
  <2>1. memory \in [provider : [Messages -> {"unknown"} \cup SendAttempts], window : Nat] /\ history.times \in [Messages -> Nat]
    BY <1>1
  <2>2. calls \in [Calls -> OutreachCall]
    BY <1>1, ContactsIdle
  <2> QED BY <1>2, <1>3, <1>8, <2>1, <2>2 DEF ContactTypes
<1>10. \A c \in Calls : ContactCallOK(calls[c]) /\ ContactSerialCallOK(calls[c])
  BY <1>1, ContactsIdle DEF ContactCallOK, ContactSerialCallOK, AboutMessage
<1>11. ContactRowsOK
  BY <1>2, <1>5, <1>6, <1>7 DEF ContactRowsOK, Backed
<1>12. Cardinality(BusyCalls) <= use.load
  <2>1. BusyCalls = {}
    BY <1>1, ContactsIdle DEF BusyCalls
  <2> QED BY <1>2, <2>1, FS_EmptySet
<1>13. AttemptsOK
  <2>1. ASSUME NEW m \in Messages PROVE Len(db.deliveries[m]) + Cardinality(Sending(m)) <= MaxSendAttempts + use.load - 1
    <3>1. Sending(m) = {}
      BY <1>1, ContactsIdle DEF Sending
    <3>2. Cardinality(Sending(m)) = 0
      BY <3>1, FS_EmptySet
    <3>3. Len(db.deliveries[m]) = 0 /\ MaxSendAttempts \in Nat
      BY <1>6 DEF O!OutreachConstants
    <3> QED BY <1>2, <3>2, <3>3
  <2> QED BY <2>1 DEF AttemptsOK
<1>14. TimesOK
  BY <1>1, <1>2 DEF TimesOK
<1>15. ContactSerialRowsOK
  <2>1. \A m \in Messages : SentOnce(m)
    BY <1>6 DEF SentOnce
  <2>2. ASSUME NEW x \in Experiments PROVE Cardinality(Drafted(x)) <= MaxMessagesPerExperiment
    <3>1. Drafted(x) = {}
      BY <1>6 DEF Drafted
    <3>2. Cardinality(Drafted(x)) = 0
      BY <3>1, FS_EmptySet
    <3> QED BY <3>2 DEF O!OutreachConstants
  <2> QED BY <1>3, <1>6, <2>1, <2>2 DEF ContactSerialRowsOK
<1> QED BY <1>9, <1>10, <1>11, <1>12, <1>13, <1>14, <1>15 DEF ContactsInv

LEMMA ContactsInvImplies == ASSUME O!OutreachConstants, ContactsInv PROVE O!ContactsAreBacked /\ O!SendsAreBounded
<1>1. O!ContactsAreBacked
  <2>1. \A p \in DOMAIN db.prospects : Backed(p, db.prospects[p].status)
    BY DEF ContactsInv, ContactRowsOK
  <2>2. \A r \in DOMAIN db.responses : db.messages[db.responses[r].message].contacted
    BY DEF ContactsInv, ContactRowsOK
  <2>3. \A m \in DOMAIN db.messages : db.messages[m].contacted => Allowed(m)
    BY DEF ContactsInv, ContactRowsOK
  <2> QED BY <2>1, <2>2, <2>3 DEF O!ContactsAreBacked, Backed, Contacted, Responded, Allowed
<1>2. \A m \in Messages : history.times[m] <= 1 + (use.restarts - use.crashes)
  BY DEF ContactsInv, TimesOK
<1>3. ASSUME NEW m \in Messages PROVE Len(db.deliveries[m]) <= MaxSendAttempts + use.load - 1
  <2>1. PICK n \in Nat : n = Len(db.deliveries[m])
    BY ContactTableFacts DEF ContactsInv
  <2>2. n + Cardinality(Sending(m)) <= MaxSendAttempts + use.load - 1 /\ Cardinality(Sending(m)) \in Nat
    BY <2>1, SendingFacts DEF ContactsInv, AttemptsOK
  <2>3. MaxSendAttempts \in Nat /\ use.load \in Nat
    BY DEF O!OutreachConstants, ContactsInv, ContactTypes
  <2> QED BY <2>1, <2>2, <2>3
<1>4. ASSUME use.load = 1, NEW m \in Messages PROVE Cardinality({i \in DOMAIN db.deliveries[m] : db.deliveries[m][i] = "SENT"}) <= 1
  <2> DEFINE S == {i \in DOMAIN db.deliveries[m] : db.deliveries[m][i] = "SENT"}
  <2>1. \A i, j \in S : i = j
    BY <1>4 DEF ContactsInv, ContactSerialRowsOK, SentOnce
  <2>2. S = {} \/ \E i : S = {i}
    BY <2>1
  <2> HIDE DEF S
  <2>3. Cardinality(S) <= 1
    <3>1. CASE S = {}
      BY <3>1, FS_EmptySet
    <3>2. ASSUME NEW i, S = {i} PROVE Cardinality(S) <= 1
      <4>1. Cardinality({i}) = 1
        BY FS_Singleton
      <4> QED BY <3>2, <4>1
    <3> QED BY <2>2, <3>1, <3>2
  <2> QED BY <2>3 DEF S
<1>5. use.load = 1 =>
       /\ \A x \in Experiments : Cardinality({m \in db.today : db.messages[m].experiment = x}) <= MaxMessagesPerExperiment
       /\ \A p, q \in DOMAIN db.prospects : db.prospects[p].source = db.prospects[q].source => p = q
  BY DEF ContactsInv, ContactSerialRowsOK, Drafted
<1>6. O!SendsAreBounded
  BY OutreachCounts, <1>2, <1>3, <1>4, <1>5 DEF O!SendsAreBounded
<1> QED BY <1>1, <1>6
=============================================================================
