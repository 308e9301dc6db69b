------------------------ MODULE AccountabilityProofs ------------------------
(***************************************************************************)
(* What holds of who may act, of what was tried, predicted and learnt and  *)
(* of what customers said, for any number of requests in flight, rows and  *)
(* restarts, from any tables the components can have left behind.          *)
(***************************************************************************)
EXTENDS Accountability, FiniteSetTheorems, SequenceTheorems, TLAPS

OneCallInFlight == \A c, d \in Calls : calls[c].at # "idle" /\ calls[d].at # "idle" => c = d

-----------------------------------------------------------------------------
(* Identities, permissions, the guards and the audit log.                  *)

LEMMA AccessCounts == \A S : (A!IsFiniteSet(S) <=> IsFiniteSet(S)) /\ A!Cardinality(S) = Cardinality(S)
BY DEF A!IsFiniteSet, IsFiniteSet, A!Cardinality, Cardinality

AccessPlaces == {"idle", "identity", "status", "grant", "revoke", "audit"}
ActorKinds  == A!IdentityTypes \cup {"NONE"}
AuditNames  == {"none", "CREATE_IDENTITY", "REVOKE_IDENTITY", "CREATE_AGENT", "GRANT_PERMISSION", "REVOKE_PERMISSION"}
          \cup A!IdentityTypes \cup A!Status
CallerRow == [type : ActorKinds, id : Nat, identity : Nat]
AccessCall   == [at : AccessPlaces, actor : CallerRow, x : Nat, to : AuditNames, was : AuditNames]
AuditEntry  == [action : AuditNames, x : Nat, type : ActorKinds, id : Nat]

AccessTables     == [identities : Seq(A!Identity), agents : Seq(A!Agent), grants : Seq(A!Grant), audit : SUBSET AuditEntry]

AccessTypes ==
  /\ use \in A!Use /\ use.crashes <= use.restarts
  /\ db \in AccessTables
  /\ calls \in [Calls -> AccessCall]

(* A HUMAN whose request is on its way to a write.                         *)
OfHuman(i) == i \in DOMAIN db.identities /\ db.identities[i].type = "HUMAN"

AccessCallOK(call) ==
  /\ call.at = "identity" =>
       /\ call.to \in A!IdentityTypes /\ call.x \in {0} \cup DOMAIN db.agents
       /\ IF call.actor.identity = 0
          THEN call.to = "HUMAN" /\ (use.load = 1 => db.identities = <<>>)
          ELSE OfHuman(call.actor.identity)
  /\ call.at = "status" => call.x \in DOMAIN db.agents /\ call.to \in A!Status
  /\ call.at = "grant" =>
       /\ call.x \in DOMAIN db.agents /\ OfHuman(call.actor.id)
       /\ use.load = 1 => ~A!hasActivePermission(call.x)
  /\ call.at = "revoke" => call.x \in DOMAIN db.grants

OneAccessInFlight == use.load = 1 => \A c, d \in Calls : calls[c].at # "idle" /\ calls[d].at # "idle" => c = d

GrantsOK ==
  \A g \in DOMAIN db.grants : db.grants[g].agent \in DOMAIN db.agents /\ OfHuman(db.grants[g].by)
AgentsOK == \A i \in DOMAIN db.identities : db.identities[i].agent \in {0} \cup DOMAIN db.agents
HeldOnce ==
  use.load = 1 => \A g, h \in DOMAIN db.grants :
    db.grants[g].agent = db.grants[h].agent /\ ~db.grants[g].revoked /\ ~db.grants[h].revoked => g = h
RoutesOK == history.route \in A!HumanDecisions => history.type = "HUMAN"

Logged(action, x) ==
  \/ \E e \in db.audit : e.action = action /\ e.x = x
  \/ \E c \in Calls : calls[c].at = "audit" /\ calls[c].to = action /\ calls[c].x = x

AuditOK ==
  use.restarts = use.crashes =>
    /\ \A i \in DOMAIN db.identities \ DOMAIN use.identities : Logged("CREATE_IDENTITY", i)
    /\ \A i \in DOMAIN db.identities : db.identities[i].status = "REVOKED" => Logged("REVOKE_IDENTITY", i)
    /\ \A x \in DOMAIN db.agents \ DOMAIN use.agents : Logged("CREATE_AGENT", x)
    /\ \A x \in DOMAIN db.agents : db.agents[x].status # "ACTIVE" => Logged(db.agents[x].status, x)
    /\ \A g \in DOMAIN db.grants :
         /\ Logged("GRANT_PERMISSION", db.grants[g].agent)
         /\ db.grants[g].revoked => Logged("REVOKE_PERMISSION", db.grants[g].agent)

AccessInv ==
  /\ AccessTypes
  /\ \A c \in Calls : AccessCallOK(calls[c])
  /\ OneAccessInFlight
  /\ A!MadeByHumans(db.identities, use.load = 1)
  /\ AgentsOK
  /\ GrantsOK
  /\ HeldOnce
  /\ RoutesOK
  /\ AuditOK

-----------------------------------------------------------------------------
(* A call takes a step.                                                    *)

LEMMA AccessIdleFacts == A!Idle \in AccessCall /\ A!Anonymous \in CallerRow /\ A!Idle.at = "idle"
BY DEF A!Idle, AccessCall, AccessPlaces, AuditNames, A!Anonymous, CallerRow, ActorKinds

(* The tables only grow, and who is HUMAN stays so.                        *)
AccessGrown ==
  /\ DOMAIN db.identities \subseteq DOMAIN db'.identities
  /\ \A i \in DOMAIN db.identities : db'.identities[i].type = db.identities[i].type
  /\ DOMAIN db.agents \subseteq DOMAIN db'.agents
  /\ DOMAIN db.grants \subseteq DOMAIN db'.grants

LEMMA AccessMayFacts ==
  ASSUME IsFiniteSet(Calls), AccessTypes, NEW c \in Calls, NEW op, A!May(op, c)
  PROVE  calls[c].at = "idle" /\ (use.load = 1 => \A d \in Calls : calls[d].at = "idle")
<1> DEFINE busy == {d \in Calls : calls[d].at # "idle"}
<1>1. IsFiniteSet(busy)
  BY FS_Subset
<1>2. Cardinality(busy) < use.load /\ calls[c].at = "idle"
  BY AccessCounts DEF A!May
<1>3. Cardinality(busy) \in Nat
  BY <1>1, FS_CardinalityType
<1>4. use.load = 1 => Cardinality(busy) = 0
  BY <1>2, <1>3
<1>5. Cardinality(busy) = 0 => busy = {}
  BY <1>1, FS_EmptySet
<1> QED BY <1>2, <1>4, <1>5

LEMMA AccessCallStep ==
  ASSUME AccessInv, NEW c \in Calls, NEW call \in AccessCall, A!GoTo(c, call), UNCHANGED use, db' \in AccessTables, AccessGrown,
         calls[c].at # "idle" \/ (use.load = 1 => \A d \in Calls : calls[d].at = "idle"),
         call.at # "idle" => AccessCallOK(call)'
  PROVE  AccessTypes' /\ (\A d \in Calls : AccessCallOK(calls[d])') /\ OneAccessInFlight'
<1>1. /\ calls' \in [Calls -> AccessCall] /\ calls'[c] = call
      /\ \A d \in Calls \ {c} : calls'[d] = calls[d]
  BY DEF A!GoTo, AccessInv, AccessTypes
<1>2. AccessTypes'
  BY <1>1 DEF AccessInv, AccessTypes
<1>3. ASSUME NEW d \in Calls \ {c} PROVE AccessCallOK(calls[d])'
  <2>1. PICK other \in AccessCall : other = calls[d]
    BY DEF AccessInv, AccessTypes
  <2>2. use.load = 1 => other.at = "idle"
    BY <2>1 DEF AccessInv, OneAccessInFlight
  <2>3. AccessCallOK(other)
    BY <2>1 DEF AccessInv
  <2>4. \A i : OfHuman(i) => OfHuman(i)'
    BY DEF OfHuman, AccessGrown
  <2>5. AccessCallOK(other)'
    BY <2>2, <2>3, <2>4 DEF AccessCallOK, AccessGrown
  <2> QED BY <1>1, <2>1, <2>5 DEF AccessCallOK, OfHuman, A!hasActivePermission
<1>4. AccessCallOK(calls[c])'
  <2>1. CASE call.at = "idle"
    BY <1>1, <2>1 DEF AccessCallOK
  <2>2. CASE call.at # "idle"
    BY <1>1, <2>2 DEF AccessCallOK, OfHuman, A!hasActivePermission
  <2> QED BY <2>1, <2>2
<1>5. OneAccessInFlight'
  BY <1>1 DEF OneAccessInFlight, AccessInv
<1> QED BY <1>2, <1>3, <1>4, <1>5

(* What is logged, or about to be, stays so.                               *)
LEMMA AccessLogStep ==
  ASSUME AccessTypes, NEW c \in Calls, NEW call \in AccessCall, A!GoTo(c, call), db.audit \subseteq db'.audit,
         calls[c].at = "audit" => \E e \in db'.audit : e.action = calls[c].to /\ e.x = calls[c].x
  PROVE  /\ \A action, x : Logged(action, x) => Logged(action, x)'
         /\ call.at = "audit" => Logged(call.to, call.x)'
<1>1. calls'[c] = call /\ \A d \in Calls \ {c} : calls'[d] = calls[d]
  BY DEF A!GoTo, AccessTypes
<1>2. ASSUME NEW action, NEW x, Logged(action, x) PROVE Logged(action, x)'
  <2>1. CASE \E e \in db.audit : e.action = action /\ e.x = x
    BY <2>1 DEF Logged
  <2>2. CASE \E d \in Calls : calls[d].at = "audit" /\ calls[d].to = action /\ calls[d].x = x
    BY <1>1, <2>2 DEF Logged
  <2> QED BY <1>2, <2>1, <2>2 DEF Logged
<1>3. call.at = "audit" => Logged(call.to, call.x)'
  BY <1>1 DEF Logged
<1> QED BY <1>2, <1>3

(* A call that has read and will write.                                    *)
LEMMA AccessReadInv ==
  ASSUME AccessInv, NEW c \in Calls, NEW call \in AccessCall, A!GoTo(c, call), UNCHANGED <<use, db, history>>,
         calls[c].at = "idle", use.load = 1 => \A d \in Calls : calls[d].at = "idle", AccessCallOK(call)
  PROVE  AccessInv'
<1>1. AccessGrown
  BY DEF AccessGrown
<1>2. AccessCallOK(call)'
  BY DEF AccessCallOK, OfHuman, A!hasActivePermission
<1>3. AccessTypes' /\ (\A d \in Calls : AccessCallOK(calls[d])') /\ OneAccessInFlight'
  BY <1>1, <1>2, AccessCallStep DEF AccessInv, AccessTypes
<1>4. \A action, x : Logged(action, x) => Logged(action, x)'
  BY AccessLogStep DEF AccessInv
<1>5. AuditOK'
  BY <1>4 DEF AccessInv, AuditOK
<1> QED BY <1>3, <1>5 DEF AccessInv, AgentsOK, GrantsOK, HeldOnce, RoutesOK, OfHuman

-----------------------------------------------------------------------------
(* The guards.                                                             *)

LEMMA Identities ==
  ASSUME AccessInv, NEW i \in A!Callers
  PROVE  /\ i = 0 => A!Actor(i) = A!Anonymous
         /\ i # 0 => i \in DOMAIN db.identities /\ i \in Nat /\ db.identities[i] \in A!Identity
         /\ A!Actor(i) \in CallerRow
         /\ i # 0 => A!Actor(i).identity = i
         /\ A!assertHumanActor(A!Actor(i)) => OfHuman(i) /\ i # 0 /\ A!Actor(i).id = i /\ A!Actor(i).identity = i
<1>1. i # 0 => i \in DOMAIN db.identities /\ i \in Nat /\ db.identities[i] \in A!Identity
  BY DEF A!Callers, AccessInv, AccessTypes, AccessTables
<1>2. i = 0 => A!Actor(i) = A!Anonymous
  BY DEF A!Actor
<1>3. CASE i = 0
  BY <1>2, <1>3, AccessIdleFacts DEF A!assertHumanActor, A!Anonymous
<1>4. CASE i # 0
  <2>1. PICK row \in A!Identity : row = db.identities[i]
    BY <1>1, <1>4
  <2>2. A!Actor(i) = [type |-> row.type, id |-> IF row.type = "AGENT" THEN row.agent ELSE i, identity |-> i]
    BY <1>4, <2>1 DEF A!Actor, A!authenticate
  <2>3. A!Actor(i) \in CallerRow /\ A!Actor(i).identity = i
    BY <1>1, <1>4, <2>2 DEF A!Identity, CallerRow, ActorKinds
  <2>4. A!assertHumanActor(A!Actor(i)) => row.type = "HUMAN" /\ A!Actor(i).id = i
    BY <2>2 DEF A!assertHumanActor
  <2> QED BY <1>1, <1>4, <2>1, <2>3, <2>4 DEF OfHuman
<1> QED BY <1>1, <1>2, <1>3, <1>4

LEMMA CreateIdentityInv ==
  ASSUME IsFiniteSet(Calls), AccessInv, NEW c \in Calls, NEW i \in A!Callers, NEW type \in A!IdentityTypes,
         NEW agent \in {0} \cup DOMAIN db.agents, A!CreateIdentity(c, i, type, agent)
  PROVE  AccessInv'
<1> DEFINE call == [A!Idle EXCEPT !.at = "identity", !.actor = A!Actor(i), !.x = agent, !.to = type]
<1>1. agent \in Nat /\ type \in AuditNames
  BY DEF AccessInv, AccessTypes, AccessTables, AuditNames
<1>2. call \in AccessCall
  BY <1>1, Identities, AccessIdleFacts DEF AccessCall, AccessPlaces
<1>3. call.at = "identity" /\ call.actor = A!Actor(i) /\ call.x = agent /\ call.to = type
  BY DEF A!Idle
<1>4. A!GoTo(c, call) /\ UNCHANGED <<use, db, history>>
  BY DEF A!CreateIdentity
<1>5. IF db.identities = <<>> THEN type = "HUMAN" ELSE A!assertHumanActor(A!Actor(i))
  BY DEF A!CreateIdentity
<1>6. i # 0 => db.identities # <<>>
  BY Identities
<1>7. A!Actor(i).identity = 0 => i = 0
  BY Identities
<1> HIDE DEF call
<1>8. AccessCallOK(call)
  BY <1>3, <1>5, <1>6, <1>7, Identities DEF AccessCallOK, A!Anonymous
<1> QED BY <1>2, <1>4, <1>8, AccessMayFacts, AccessReadInv DEF A!CreateIdentity, AccessInv

LEMMA TransitionStatusInv ==
  ASSUME IsFiniteSet(Calls), AccessInv, NEW c \in Calls, NEW i \in A!Callers, NEW x \in DOMAIN db.agents,
         NEW to \in DOMAIN A!AGENT_STATUS_TRANSITIONS, A!TransitionStatus(c, i, x, to)
  PROVE  AccessInv'
<1>1. x \in Nat /\ to \in A!Status
  BY DEF AccessInv, AccessTypes, AccessTables, A!Status, A!AGENT_STATUS_TRANSITIONS
<1>2. db.agents[x] \in A!Agent
  BY DEF AccessInv, AccessTypes, AccessTables
<1>3. PICK was \in AuditNames : was = db.agents[x].status
  BY <1>2 DEF A!Agent, AuditNames
<1>4. PICK actor \in CallerRow : actor = A!Actor(i)
  BY Identities
<1> DEFINE call == [A!Idle EXCEPT !.at = "status", !.actor = actor, !.x = x, !.to = to, !.was = was]
<1>5. to \in AuditNames
  BY <1>1 DEF AuditNames
<1>6. call \in AccessCall
  BY <1>1, <1>5, AccessIdleFacts DEF AccessCall, AccessPlaces
<1>7. call.at = "status" /\ call.x = x /\ call.to = to
  BY DEF A!Idle
<1>8. A!GoTo(c, call) /\ UNCHANGED <<use, db, history>>
  BY <1>3, <1>4 DEF A!TransitionStatus
<1> HIDE DEF call
<1>9. AccessCallOK(call)
  BY <1>1, <1>7 DEF AccessCallOK
<1> QED BY <1>6, <1>8, <1>9, AccessMayFacts, AccessReadInv DEF A!TransitionStatus, AccessInv

LEMMA GrantPermissionInv ==
  ASSUME IsFiniteSet(Calls), AccessInv, NEW c \in Calls, NEW i \in A!Callers, NEW x \in DOMAIN db.agents, A!GrantPermission(c, i, x)
  PROVE  AccessInv'
<1> DEFINE call == [A!Idle EXCEPT !.at = "grant", !.actor = A!Actor(i), !.x = x]
<1>1. x \in Nat
  BY DEF AccessInv, AccessTypes, AccessTables
<1>2. call \in AccessCall
  BY <1>1, Identities, AccessIdleFacts DEF AccessCall, AccessPlaces
<1>3. call.at = "grant" /\ call.x = x /\ call.actor = A!Actor(i)
  BY DEF A!Idle
<1>4. A!GoTo(c, call) /\ UNCHANGED <<use, db, history>>
  BY DEF A!GrantPermission
<1> HIDE DEF call
<1>5. AccessCallOK(call)
  BY <1>1, <1>3, Identities DEF AccessCallOK, A!GrantPermission
<1> QED BY <1>2, <1>4, <1>5, AccessMayFacts, AccessReadInv DEF A!GrantPermission, AccessInv

LEMMA RevokePermissionInv ==
  ASSUME IsFiniteSet(Calls), AccessInv, NEW c \in Calls, NEW i \in A!Callers, NEW g \in DOMAIN db.grants, A!RevokePermission(c, i, g)
  PROVE  AccessInv'
<1> DEFINE call == [A!Idle EXCEPT !.at = "revoke", !.actor = A!Actor(i), !.x = g]
<1>1. g \in Nat
  BY DEF AccessInv, AccessTypes, AccessTables
<1>2. call \in AccessCall
  BY <1>1, Identities, AccessIdleFacts DEF AccessCall, AccessPlaces
<1>3. call.at = "revoke" /\ call.x = g
  BY DEF A!Idle
<1>4. A!GoTo(c, call) /\ UNCHANGED <<use, db, history>>
  BY DEF A!RevokePermission
<1> HIDE DEF call
<1>5. AccessCallOK(call)
  BY <1>1, <1>3 DEF AccessCallOK
<1> QED BY <1>2, <1>4, <1>5, AccessMayFacts, AccessReadInv DEF A!RevokePermission, AccessInv

-----------------------------------------------------------------------------
(* The writes.                                                             *)

LEMMA Makers ==
  ASSUME AccessInv, NEW i \in DOMAIN db.identities
  PROVE  db.identities[i].by # 0 => db.identities[i].by \in DOMAIN db.identities
<1>1. DOMAIN db.identities = 1..Len(db.identities) /\ Len(db.identities) \in Nat /\ db.identities[i] \in A!Identity
  BY LenProperties DEF AccessInv, AccessTypes, AccessTables
<1>2. db.identities[i].by \in Nat
  BY <1>1 DEF A!Identity
<1>3. db.identities[i].by # 0 => db.identities[i].by < i
  BY DEF AccessInv, A!MadeByHumans
<1> QED BY <1>1, <1>2, <1>3

LEMMA CreateIdentityWriteInv ==
  ASSUME AccessInv, NEW c \in Calls, A!CreateIdentityWrite(c)
  PROVE  AccessInv'
<1> DEFINE n == Len(db.identities) + 1
<1>1. PICK old \in AccessCall : old = calls[c]
  BY DEF AccessInv, AccessTypes
<1>2. PICK size \in Nat : size = n /\ DOMAIN db.identities = 1..(size - 1)
  BY LenProperties DEF AccessInv, AccessTypes, AccessTables
<1> DEFINE new == A!NewIdentity(old.to, old.x, old.actor.identity)
<1> DEFINE call == [old EXCEPT !.at = "audit", !.x = size, !.to = "CREATE_IDENTITY"]
<1>3. /\ old.at = "identity" /\ UNCHANGED <<use, history>> /\ A!GoTo(c, call)
      /\ db' = [db EXCEPT !.identities = Append(@, new)]
  BY <1>1, <1>2 DEF A!CreateIdentityWrite
<1>4. AccessCallOK(old)
  BY <1>1 DEF AccessInv
<1>5. old.to \in A!IdentityTypes /\ old.x \in {0} \cup DOMAIN db.agents /\ old.actor.identity \in Nat /\ old.x \in Nat
  BY <1>3, <1>4 DEF AccessCallOK, AccessCall, CallerRow
<1>6. new \in A!Identity
  BY <1>5 DEF A!NewIdentity, A!Identity
<1>7. call \in AccessCall /\ call.at = "audit" /\ call.to = "CREATE_IDENTITY" /\ call.x = size
  BY <1>2 DEF AccessCall, AccessPlaces, AuditNames
<1>8. /\ db'.identities = Append(db.identities, new) /\ db'.agents = db.agents
      /\ db'.grants = db.grants /\ db'.audit = db.audit
  BY <1>3 DEF AccessInv, AccessTypes, AccessTables
<1>9. /\ DOMAIN db'.identities = 1..size /\ db'.identities[size] = new
      /\ \A i \in DOMAIN db.identities : db'.identities[i] = db.identities[i]
      /\ db'.identities \in Seq(A!Identity)
  BY <1>2, <1>6, <1>8 DEF AccessInv, AccessTypes, AccessTables
<1>10. db' \in AccessTables
  BY <1>3, <1>9 DEF AccessInv, AccessTypes, AccessTables
<1>11. AccessGrown
  BY <1>2, <1>8, <1>9 DEF AccessGrown
<1>12. new.type = old.to /\ new.by = old.actor.identity /\ new.agent = old.x /\ new.status = "ACTIVE"
  BY DEF A!NewIdentity
<1> HIDE DEF call, new, n
<1>13. AccessTypes' /\ (\A d \in Calls : AccessCallOK(calls[d])') /\ OneAccessInFlight'
  <2>1. AccessCallOK(call)'
    BY <1>7 DEF AccessCallOK
  <2>2. calls[c].at # "idle"
    BY <1>1, <1>3
  <2> QED BY <1>3, <1>7, <1>10, <1>11, <2>1, <2>2, AccessCallStep
<1>14. A!MadeByHumans(db.identities, use.load = 1)'
  <2>1. ASSUME NEW i \in DOMAIN db.identities
        PROVE  /\ db'.identities[i] = db.identities[i] /\ i < size /\ i \in Nat
               /\ db.identities[i].by \in Nat
               /\ db.identities[i].by # 0 => db.identities[i].by \in DOMAIN db.identities
    <3>1. db.identities[i] \in A!Identity /\ db'.identities[i] = db.identities[i] /\ i < size /\ i \in Nat
      BY <1>2, <1>9 DEF AccessInv, AccessTypes, AccessTables
    <3> QED BY <3>1, Makers DEF A!Identity
  <2>2. IF new.by = 0 THEN new.type = "HUMAN" /\ (use.load = 1 => size = 1)
        ELSE new.by < size /\ db'.identities[new.by].type = "HUMAN"
    <3>1. use.load = 1 /\ new.by = 0 => size = 1
      <4>1. use.load = 1 /\ new.by = 0 => db.identities = <<>>
        BY <1>3, <1>4, <1>12 DEF AccessCallOK
      <4> QED BY <1>2, <4>1, EmptySeq DEF n
    <3>2. new.by # 0 => new.by \in DOMAIN db.identities /\ db.identities[new.by].type = "HUMAN"
      BY <1>3, <1>4, <1>12 DEF AccessCallOK, OfHuman
    <3>3. new.by = 0 => new.type = "HUMAN"
      BY <1>3, <1>4, <1>12 DEF AccessCallOK
    <3> QED BY <2>1, <3>1, <3>2, <3>3
  <2>3. ASSUME NEW i \in DOMAIN db'.identities
        PROVE  IF db'.identities[i].by = 0 THEN db'.identities[i].type = "HUMAN" /\ (use.load = 1 => i = 1)
               ELSE db'.identities[i].by < i /\ db'.identities[db'.identities[i].by].type = "HUMAN"
    <3>1. CASE i = size
      BY <1>9, <2>2, <3>1
    <3>2. CASE i \in DOMAIN db.identities
      BY <2>1, <3>2 DEF AccessInv, A!MadeByHumans
    <3> QED BY <1>2, <1>9, <3>1, <3>2
  <2> QED BY <1>3, <2>3 DEF A!MadeByHumans
<1>15. AgentsOK'
  BY <1>2, <1>5, <1>8, <1>9, <1>12 DEF AccessInv, AgentsOK
<1>16. GrantsOK'
  BY <1>8, <1>11 DEF AccessInv, GrantsOK, OfHuman, AccessGrown
<1>17. HeldOnce' /\ RoutesOK'
  BY <1>3, <1>8 DEF AccessInv, HeldOnce, RoutesOK
<1>18. AuditOK'
  <2>1. /\ \A action, x : Logged(action, x) => Logged(action, x)'
        /\ Logged("CREATE_IDENTITY", size)'
    BY <1>1, <1>3, <1>7, <1>8, AccessLogStep DEF AccessInv
  <2> QED BY <1>2, <1>3, <1>8, <1>9, <1>12, <2>1 DEF AccessInv, AuditOK
<1> QED BY <1>13, <1>14, <1>15, <1>16, <1>17, <1>18 DEF AccessInv

LEMMA RevokeIdentityInv ==
  ASSUME IsFiniteSet(Calls), AccessInv, NEW c \in Calls, NEW i \in A!Callers, NEW x \in DOMAIN db.identities, A!RevokeIdentity(c, i, x)
  PROVE  AccessInv'
<1>1. PICK actor \in CallerRow : actor = A!Actor(i)
  BY Identities
<1>2. x \in Nat /\ db.identities[x] \in A!Identity
  BY DEF AccessInv, AccessTypes, AccessTables
<1>3. PICK old \in A!Identity : old = db.identities[x]
  BY <1>2
<1> DEFINE new == [old EXCEPT !.status = "REVOKED"]
<1> DEFINE call == [A!Idle EXCEPT !.at = "audit", !.actor = actor, !.x = x, !.to = "REVOKE_IDENTITY"]
<1>4. /\ db' = [db EXCEPT !.identities[x].status = "REVOKED"]
      /\ A!GoTo(c, call) /\ UNCHANGED <<use, history>>
  BY <1>1 DEF A!RevokeIdentity
<1>5. db'.identities = [db.identities EXCEPT ![x] = new] /\ db'.agents = db.agents /\ db'.grants = db.grants /\ db'.audit = db.audit
  BY <1>3, <1>4 DEF AccessInv, AccessTypes, AccessTables
<1>6. new \in A!Identity /\ new.type = old.type /\ new.by = old.by /\ new.agent = old.agent
  BY DEF A!Identity
<1>7. call \in AccessCall /\ call.at = "audit" /\ call.to = "REVOKE_IDENTITY" /\ call.x = x
  <2>1. call \in AccessCall
    BY <1>2, AccessIdleFacts DEF AccessCall, AccessPlaces, AuditNames
  <2> QED BY <2>1 DEF A!Idle
<1> HIDE DEF call, new
<1>8. /\ DOMAIN db'.identities = DOMAIN db.identities /\ db'.identities \in Seq(A!Identity)
      /\ db'.identities[x] = new /\ \A j \in DOMAIN db.identities \ {x} : db'.identities[j] = db.identities[j]
  BY <1>5, <1>6 DEF AccessInv, AccessTypes, AccessTables
<1>9. db' \in AccessTables
  BY <1>4, <1>8 DEF AccessInv, AccessTypes, AccessTables
<1>10. \A j \in DOMAIN db.identities :
         /\ db'.identities[j].type = db.identities[j].type
         /\ db'.identities[j].by = db.identities[j].by
         /\ db'.identities[j].agent = db.identities[j].agent
  BY <1>3, <1>6, <1>8
<1>11. AccessGrown
  BY <1>5, <1>8, <1>10 DEF AccessGrown
<1>12. AccessTypes' /\ (\A d \in Calls : AccessCallOK(calls[d])') /\ OneAccessInFlight'
  <2>1. AccessCallOK(call)'
    BY <1>7 DEF AccessCallOK
  <2> QED BY <1>4, <1>7, <1>9, <1>11, <2>1, AccessCallStep, AccessMayFacts DEF A!RevokeIdentity, AccessInv
<1>13. A!MadeByHumans(db.identities, use.load = 1)'
  BY <1>4, <1>8, <1>10, Makers DEF AccessInv, A!MadeByHumans
<1>14. AgentsOK' /\ GrantsOK' /\ HeldOnce' /\ RoutesOK'
  BY <1>4, <1>5, <1>8, <1>10 DEF AccessInv, AgentsOK, GrantsOK, OfHuman, HeldOnce, RoutesOK
<1>15. AuditOK'
  <2>1. calls[c].at = "idle"
    BY AccessMayFacts DEF A!RevokeIdentity, AccessInv
  <2>2. /\ \A action, y : Logged(action, y) => Logged(action, y)'
        /\ Logged("REVOKE_IDENTITY", x)'
    BY <1>4, <1>5, <1>7, <2>1, AccessLogStep DEF AccessInv
  <2> QED BY <1>4, <1>5, <1>8, <2>2 DEF AccessInv, AuditOK
<1> QED BY <1>12, <1>13, <1>14, <1>15 DEF AccessInv

LEMMA ExpireInv ==
  ASSUME AccessInv, NEW x \in DOMAIN db.identities, A!Expire(x)
  PROVE  AccessInv'
<1>1. PICK old \in A!Identity : old = db.identities[x]
  BY DEF AccessInv, AccessTypes, AccessTables
<1> DEFINE new == [old EXCEPT !.expired = TRUE]
<1>2. db' = [db EXCEPT !.identities[x].expired = TRUE] /\ UNCHANGED <<use, calls, history>>
  BY DEF A!Expire
<1>3. db'.identities = [db.identities EXCEPT ![x] = new] /\ db'.agents = db.agents /\ db'.grants = db.grants /\ db'.audit = db.audit
  BY <1>1, <1>2 DEF AccessInv, AccessTypes, AccessTables
<1>4. new \in A!Identity /\ new.type = old.type /\ new.by = old.by /\ new.agent = old.agent /\ new.status = old.status
  BY DEF A!Identity
<1> HIDE DEF new
<1>5. /\ DOMAIN db'.identities = DOMAIN db.identities /\ db'.identities \in Seq(A!Identity)
      /\ db'.identities[x] = new /\ \A j \in DOMAIN db.identities \ {x} : db'.identities[j] = db.identities[j]
  BY <1>3, <1>4 DEF AccessInv, AccessTypes, AccessTables
<1>6. db' \in AccessTables
  BY <1>2, <1>5 DEF AccessInv, AccessTypes, AccessTables
<1>7. \A j \in DOMAIN db.identities :
        /\ db'.identities[j].type = db.identities[j].type
        /\ db'.identities[j].by = db.identities[j].by
        /\ db'.identities[j].agent = db.identities[j].agent
        /\ db'.identities[j].status = db.identities[j].status
  BY <1>1, <1>4, <1>5
<1>8. AccessTypes' /\ OneAccessInFlight'
  BY <1>2, <1>6 DEF AccessInv, AccessTypes, OneAccessInFlight
<1>9. ASSUME NEW c \in Calls PROVE AccessCallOK(calls[c])'
  <2>1. PICK call : call = calls[c]
    OBVIOUS
  <2>2. AccessCallOK(call)
    BY <2>1 DEF AccessInv
  <2>3. db'.identities = <<>> => db.identities = <<>>
    BY <1>5
  <2>4. db.identities = <<>> => db'.identities = <<>>
    BY <1>5
  <2>5. \A i : OfHuman(i) => OfHuman(i)'
    BY <1>5, <1>7 DEF OfHuman
  <2>6. AccessCallOK(call)'
    BY <1>2, <1>3, <2>2, <2>4, <2>5 DEF AccessCallOK, A!hasActivePermission
  <2>7. calls'[c] = call
    BY <1>2, <2>1
  <2> QED BY <2>6, <2>7 DEF AccessCallOK, OfHuman, A!hasActivePermission
<1>10. A!MadeByHumans(db.identities, use.load = 1)'
  BY <1>2, <1>5, <1>7, Makers DEF AccessInv, A!MadeByHumans
<1>11. AgentsOK' /\ GrantsOK' /\ HeldOnce' /\ RoutesOK'
  BY <1>2, <1>3, <1>5, <1>7 DEF AccessInv, AgentsOK, GrantsOK, OfHuman, HeldOnce, RoutesOK
<1>12. AuditOK'
  <2>1. \A action, y : Logged(action, y) => Logged(action, y)'
    BY <1>2, <1>3 DEF Logged
  <2> QED BY <1>2, <1>3, <1>5, <1>7, <2>1 DEF AccessInv, AuditOK
<1> QED BY <1>8, <1>9, <1>10, <1>11, <1>12 DEF AccessInv

(* A write that leaves the identities alone: the caller's own part of the  *)
(* invariant, the agents', the grants' and the log's remain to be shown.   *)
LEMMA AccessWriteInv ==
  ASSUME AccessInv, NEW c \in Calls, NEW call \in AccessCall, A!GoTo(c, call), UNCHANGED <<use, history>>,
         db' \in AccessTables, AccessGrown, db'.identities = db.identities,
         calls[c].at # "idle" \/ (use.load = 1 => \A d \in Calls : calls[d].at = "idle"),
         call.at # "idle" => AccessCallOK(call)', GrantsOK', HeldOnce', AuditOK'
  PROVE  AccessInv'
<1>1. AccessTypes' /\ (\A d \in Calls : AccessCallOK(calls[d])') /\ OneAccessInFlight'
  BY AccessCallStep
<1>2. A!MadeByHumans(db.identities, use.load = 1)'
  BY DEF AccessInv, A!MadeByHumans
<1>3. AgentsOK'
  BY DEF AccessInv, AgentsOK, AccessGrown
<1>4. RoutesOK'
  BY DEF AccessInv, RoutesOK
<1> QED BY <1>1, <1>2, <1>3, <1>4 DEF AccessInv

LEMMA CreateAgentInv ==
  ASSUME IsFiniteSet(Calls), AccessInv, NEW c \in Calls, NEW i \in A!Callers, A!CreateAgent(c, i)
  PROVE  AccessInv'
<1>1. PICK actor \in CallerRow : actor = A!Actor(i)
  BY Identities
<1>2. PICK size \in Nat : size = Len(db.agents) + 1 /\ DOMAIN db.agents = 1..(size - 1)
  BY LenProperties DEF AccessInv, AccessTypes, AccessTables
<1> DEFINE call == [A!Idle EXCEPT !.at = "audit", !.actor = actor, !.x = size, !.to = "CREATE_AGENT"]
<1>3. /\ db' = [db EXCEPT !.agents = Append(@, A!NewAgent)] /\ A!GoTo(c, call) /\ UNCHANGED <<use, history>>
  BY <1>1, <1>2 DEF A!CreateAgent
<1>4. /\ db'.agents = Append(db.agents, A!NewAgent) /\ db'.identities = db.identities
      /\ db'.grants = db.grants /\ db'.audit = db.audit
  BY <1>3 DEF AccessInv, AccessTypes, AccessTables
<1>5. A!NewAgent \in A!Agent /\ A!NewAgent.status = "ACTIVE"
  BY DEF A!NewAgent, A!Agent, A!Status
<1>6. /\ DOMAIN db'.agents = 1..size /\ db'.agents[size] = A!NewAgent /\ db'.agents \in Seq(A!Agent)
      /\ \A y \in DOMAIN db.agents : db'.agents[y] = db.agents[y]
  BY <1>2, <1>4, <1>5 DEF AccessInv, AccessTypes, AccessTables
<1>7. db' \in AccessTables
  BY <1>3, <1>6 DEF AccessInv, AccessTypes, AccessTables
<1>8. call \in AccessCall /\ call.at = "audit" /\ call.to = "CREATE_AGENT" /\ call.x = size
  <2>1. call \in AccessCall
    BY AccessIdleFacts DEF AccessCall, AccessPlaces, AuditNames
  <2> QED BY <2>1 DEF A!Idle
<1> HIDE DEF call
<1>9. AccessGrown
  BY <1>2, <1>4, <1>6 DEF AccessGrown
<1>10. AccessCallOK(call)'
  BY <1>8 DEF AccessCallOK
<1>11. calls[c].at = "idle" /\ (use.load = 1 => \A d \in Calls : calls[d].at = "idle")
  BY AccessMayFacts DEF A!CreateAgent, AccessInv
<1>12. GrantsOK' /\ HeldOnce'
  BY <1>3, <1>4, <1>9 DEF AccessInv, GrantsOK, HeldOnce, OfHuman, AccessGrown
<1>13. AuditOK'
  <2>1. /\ \A action, y : Logged(action, y) => Logged(action, y)'
        /\ Logged("CREATE_AGENT", size)'
    BY <1>3, <1>4, <1>8, <1>11, AccessLogStep DEF AccessInv
  <2> QED BY <1>2, <1>3, <1>4, <1>5, <1>6, <2>1 DEF AccessInv, AuditOK
<1> QED BY <1>3, <1>4, <1>7, <1>8, <1>9, <1>10, <1>11, <1>12, <1>13, AccessWriteInv

LEMMA TransitionStatusWriteInv ==
  ASSUME AccessInv, NEW c \in Calls, A!TransitionStatusWrite(c)
  PROVE  AccessInv'
<1>1. PICK old \in AccessCall : old = calls[c]
  BY DEF AccessInv, AccessTypes
<1> DEFINE call == [old EXCEPT !.at = "audit"]
<1>2. /\ db' = [db EXCEPT !.agents[old.x].status = old.to] /\ A!GoTo(c, call) /\ UNCHANGED <<use, history>>
      /\ old.at = "status"
  BY <1>1 DEF A!TransitionStatusWrite
<1>3. PICK x, to : x = old.x /\ to = old.to /\ x \in DOMAIN db.agents /\ to \in A!Status
  BY <1>1, <1>2 DEF AccessInv, AccessCallOK
<1>4. PICK row \in A!Agent : row = db.agents[x]
  BY <1>3 DEF AccessInv, AccessTypes, AccessTables
<1> DEFINE new == [row EXCEPT !.status = to]
<1>5. /\ db'.agents = [db.agents EXCEPT ![x] = new] /\ db'.identities = db.identities
      /\ db'.grants = db.grants /\ db'.audit = db.audit
  BY <1>2, <1>3, <1>4 DEF AccessInv, AccessTypes, AccessTables
<1>6. new \in A!Agent /\ new.status = to
  BY <1>3 DEF A!Agent
<1>7. call \in AccessCall /\ call.at = "audit" /\ call.to = to /\ call.x = x
  BY <1>3 DEF AccessCall, AccessPlaces
<1> HIDE DEF call, new
<1>8. /\ DOMAIN db'.agents = DOMAIN db.agents /\ db'.agents[x] = new /\ db'.agents \in Seq(A!Agent)
      /\ \A y \in DOMAIN db.agents \ {x} : db'.agents[y] = db.agents[y]
  BY <1>3, <1>5, <1>6 DEF AccessInv, AccessTypes, AccessTables
<1>9. db' \in AccessTables
  BY <1>2, <1>8 DEF AccessInv, AccessTypes, AccessTables
<1>10. AccessGrown
  BY <1>5, <1>8 DEF AccessGrown
<1>11. AccessCallOK(call)'
  BY <1>7 DEF AccessCallOK
<1>12. GrantsOK' /\ HeldOnce'
  BY <1>2, <1>5, <1>8 DEF AccessInv, GrantsOK, HeldOnce, OfHuman
<1>13. AuditOK'
  <2>1. /\ \A action, y : Logged(action, y) => Logged(action, y)'
        /\ Logged(to, x)'
    BY <1>1, <1>2, <1>5, <1>7, AccessLogStep DEF AccessInv
  <2>2. /\ x = old.x /\ db'.agents[x].status = to
        /\ \A y \in DOMAIN db.agents \ {x} : db'.agents[y].status = db.agents[y].status
    BY <1>3, <1>6, <1>8
  <2>3. ASSUME use.restarts = use.crashes
        PROVE  (\A y \in DOMAIN db.agents : db.agents[y].status # "ACTIVE" => Logged(db.agents[y].status, y))'
    BY <1>8, <2>1, <2>2, <2>3 DEF AccessInv, AuditOK
  <2> QED BY <1>2, <1>5, <1>8, <2>1, <2>3 DEF AccessInv, AuditOK
<1> QED BY <1>1, <1>2, <1>5, <1>7, <1>9, <1>10, <1>11, <1>12, <1>13, AccessWriteInv

LEMMA GrantPermissionWriteInv ==
  ASSUME AccessInv, NEW c \in Calls, A!GrantPermissionWrite(c)
  PROVE  AccessInv'
<1>1. PICK old \in AccessCall : old = calls[c]
  BY DEF AccessInv, AccessTypes
<1>2. PICK size \in Nat : size = Len(db.grants) + 1 /\ DOMAIN db.grants = 1..(size - 1)
  BY LenProperties DEF AccessInv, AccessTypes, AccessTables
<1>3. PICK x, by : x = old.x /\ by = old.actor.id
  OBVIOUS
<1> DEFINE new == A!NewGrant(x, by)
<1> DEFINE call == [old EXCEPT !.at = "audit", !.to = "GRANT_PERMISSION"]
<1>4. /\ old.at = "grant" /\ UNCHANGED <<use, history>> /\ A!GoTo(c, call)
      /\ db' = [db EXCEPT !.grants = Append(@, new)]
  BY <1>1, <1>3 DEF A!GrantPermissionWrite
<1>5. /\ x \in DOMAIN db.agents /\ OfHuman(by) /\ x \in Nat /\ by \in Nat
      /\ use.load = 1 => ~A!hasActivePermission(x)
  BY <1>1, <1>3, <1>4 DEF AccessInv, AccessCallOK, AccessCall, CallerRow
<1>6. new \in A!Grant /\ new.agent = x /\ new.by = by /\ ~new.revoked
  BY <1>5 DEF A!NewGrant, A!Grant
<1>7. call \in AccessCall /\ call.at = "audit" /\ call.to = "GRANT_PERMISSION" /\ call.x = x
  BY <1>3 DEF AccessCall, AccessPlaces, AuditNames
<1>8. /\ db'.grants = Append(db.grants, new) /\ db'.identities = db.identities
      /\ db'.agents = db.agents /\ db'.audit = db.audit
  BY <1>4 DEF AccessInv, AccessTypes, AccessTables
<1> HIDE DEF call, new
<1>9. /\ DOMAIN db'.grants = 1..size /\ db'.grants[size] = new /\ db'.grants \in Seq(A!Grant)
      /\ \A g \in DOMAIN db.grants : db'.grants[g] = db.grants[g]
  BY <1>2, <1>6, <1>8 DEF AccessInv, AccessTypes, AccessTables
<1>10. db' \in AccessTables
  BY <1>4, <1>9 DEF AccessInv, AccessTypes, AccessTables
<1>11. AccessGrown
  BY <1>2, <1>8, <1>9 DEF AccessGrown
<1>12. AccessCallOK(call)'
  BY <1>7 DEF AccessCallOK
<1>13. GrantsOK'
  BY <1>2, <1>5, <1>6, <1>8, <1>9 DEF AccessInv, GrantsOK, OfHuman
<1>14. HeldOnce'
  <2>1. use.load = 1 => \A g \in DOMAIN db.grants : db.grants[g].agent = x => db.grants[g].revoked
    BY <1>5 DEF A!hasActivePermission
  <2>2. \A g \in DOMAIN db'.grants : g = size \/ g \in DOMAIN db.grants
    BY <1>2, <1>9
  <2> QED BY <1>4, <1>6, <1>9, <2>1, <2>2 DEF AccessInv, HeldOnce
<1>15. AuditOK'
  <2>1. /\ \A action, y : Logged(action, y) => Logged(action, y)'
        /\ Logged("GRANT_PERMISSION", x)'
    BY <1>1, <1>4, <1>7, <1>8, AccessLogStep DEF AccessInv
  <2>2. \A g \in DOMAIN db'.grants : g = size \/ g \in DOMAIN db.grants
    BY <1>2, <1>9
  <2> QED BY <1>4, <1>6, <1>8, <1>9, <2>1, <2>2 DEF AccessInv, AuditOK
<1> QED BY <1>1, <1>4, <1>7, <1>8, <1>10, <1>11, <1>12, <1>13, <1>14, <1>15, AccessWriteInv

LEMMA RevokePermissionWriteInv ==
  ASSUME AccessInv, NEW c \in Calls, A!RevokePermissionWrite(c)
  PROVE  AccessInv'
<1>1. PICK old \in AccessCall : old = calls[c]
  BY DEF AccessInv, AccessTypes
<1>2. PICK g : g = old.x
  OBVIOUS
<1>3. old.at = "revoke" /\ g \in DOMAIN db.grants
  BY <1>1, <1>2 DEF AccessInv, AccessCallOK, A!RevokePermissionWrite
<1>4. PICK row \in A!Grant : row = db.grants[g]
  BY <1>3 DEF AccessInv, AccessTypes, AccessTables
<1> DEFINE new == [row EXCEPT !.revoked = TRUE]
<1> DEFINE call == [old EXCEPT !.at = "audit", !.x = row.agent, !.to = "REVOKE_PERMISSION"]
<1>5. /\ UNCHANGED <<use, history>> /\ A!GoTo(c, call)
      /\ db' = [db EXCEPT !.grants[g].revoked = TRUE]
  BY <1>1, <1>2, <1>4 DEF A!RevokePermissionWrite
<1>6. new \in A!Grant /\ new.agent = row.agent /\ new.by = row.by /\ new.revoked /\ row.agent \in Nat
  BY DEF A!Grant
<1>7. call \in AccessCall /\ call.at = "audit" /\ call.to = "REVOKE_PERMISSION" /\ call.x = row.agent
  BY <1>6 DEF AccessCall, AccessPlaces, AuditNames
<1>8. /\ db'.grants = [db.grants EXCEPT ![g] = new] /\ db'.identities = db.identities
      /\ db'.agents = db.agents /\ db'.audit = db.audit
  BY <1>4, <1>5 DEF AccessInv, AccessTypes, AccessTables
<1> HIDE DEF call, new
<1>9. /\ DOMAIN db'.grants = DOMAIN db.grants /\ db'.grants[g] = new /\ db'.grants \in Seq(A!Grant)
      /\ \A h \in DOMAIN db.grants \ {g} : db'.grants[h] = db.grants[h]
  BY <1>3, <1>6, <1>8 DEF AccessInv, AccessTypes, AccessTables
<1>10. db' \in AccessTables
  BY <1>5, <1>9 DEF AccessInv, AccessTypes, AccessTables
<1>11. AccessGrown
  BY <1>8, <1>9 DEF AccessGrown
<1>12. AccessCallOK(call)'
  BY <1>7 DEF AccessCallOK
<1>13. \A h \in DOMAIN db.grants :
         /\ db'.grants[h].agent = db.grants[h].agent /\ db'.grants[h].by = db.grants[h].by
         /\ h # g => db'.grants[h].revoked = db.grants[h].revoked
  BY <1>4, <1>6, <1>9
<1>14. GrantsOK'
  BY <1>8, <1>9, <1>13 DEF AccessInv, GrantsOK, OfHuman
<1>15. HeldOnce'
  BY <1>5, <1>6, <1>9, <1>13 DEF AccessInv, HeldOnce
<1>16. AuditOK'
  <2>1. /\ \A action, y : Logged(action, y) => Logged(action, y)'
        /\ Logged("REVOKE_PERMISSION", row.agent)'
    BY <1>1, <1>3, <1>5, <1>7, <1>8, AccessLogStep DEF AccessInv
  <2>2. db'.grants[g].agent = row.agent
    BY <1>6, <1>9
  <2> QED BY <1>5, <1>8, <1>9, <1>13, <2>1, <2>2 DEF AccessInv, AuditOK
<1> QED BY <1>1, <1>3, <1>5, <1>7, <1>8, <1>10, <1>11, <1>12, <1>14, <1>15, <1>16, AccessWriteInv

LEMMA AccessRecordInv ==
  ASSUME AccessInv, NEW c \in Calls, A!Record(c)
  PROVE  AccessInv'
<1>1. PICK old \in AccessCall : old = calls[c]
  BY DEF AccessInv, AccessTypes
<1> DEFINE entry == A!AuditEntry(old.to, old.x, old.actor)
<1>2. /\ old.at = "audit" /\ db' = [db EXCEPT !.audit = @ \cup {entry}]
      /\ A!GoTo(c, A!Idle) /\ UNCHANGED <<use, history>>
  BY <1>1 DEF A!Record, A!Return
<1>3. entry \in AuditEntry /\ entry.action = old.to /\ entry.x = old.x
  BY DEF A!AuditEntry, AuditEntry, AccessCall, CallerRow
<1>4. /\ db'.audit = db.audit \cup {entry} /\ db'.identities = db.identities
      /\ db'.agents = db.agents /\ db'.grants = db.grants
  BY <1>2 DEF AccessInv, AccessTypes, AccessTables
<1> HIDE DEF entry
<1>5. db' \in AccessTables
  BY <1>2, <1>3, <1>4 DEF AccessInv, AccessTypes, AccessTables
<1>6. AccessGrown
  BY <1>4 DEF AccessGrown
<1>7. GrantsOK' /\ HeldOnce'
  BY <1>2, <1>4 DEF AccessInv, GrantsOK, HeldOnce, OfHuman
<1>8. AuditOK'
  <2>1. \A action, y : Logged(action, y) => Logged(action, y)'
    BY <1>1, <1>2, <1>3, <1>4, AccessIdleFacts, AccessLogStep DEF AccessInv
  <2> QED BY <1>2, <1>4, <2>1 DEF AccessInv, AuditOK
<1> QED BY <1>1, <1>2, <1>4, <1>5, <1>6, <1>7, <1>8, AccessIdleFacts, AccessWriteInv

LEMMA AccessRestartInv ==
  ASSUME AccessInv, A!Restart
  PROVE  AccessInv'
<1>1. /\ use' = [use EXCEPT !.crashes = @ - 1] /\ use.crashes > 0
      /\ calls' = [c \in Calls |-> A!Idle] /\ UNCHANGED <<db, history>>
  BY DEF A!Restart
<1>2. PICK n \in Nat : n = use.crashes - 1 /\ use' = [use EXCEPT !.crashes = n]
  <2>1. use.crashes \in Nat
    BY DEF AccessInv, AccessTypes, A!Use
  <2>2. use.crashes - 1 \in Nat
    BY <1>1, <2>1
  <2> QED BY <1>1, <2>2
<1>3. use' \in A!Use /\ use'.crashes < use'.restarts /\ use'.crashes \in Nat /\ use'.restarts \in Nat /\ use'.load = use.load
  <2>1. PICK u \in A!Use : u = use
    BY DEF AccessInv, AccessTypes
  <2>2. use' = [u EXCEPT !.crashes = n] /\ n = u.crashes - 1 /\ u.crashes <= u.restarts
    BY <1>2, <2>1 DEF AccessInv, AccessTypes
  <2>3. use' \in A!Use /\ use'.crashes = n /\ use'.restarts = u.restarts /\ use'.load = u.load
    BY <2>2 DEF A!Use
  <2> QED BY <2>1, <2>2, <2>3, SMTT(60) DEF A!Use
<1>4. AccessTypes'
  BY <1>1, <1>3, AccessIdleFacts DEF AccessInv, AccessTypes
<1>5. (\A c \in Calls : AccessCallOK(calls[c])') /\ OneAccessInFlight'
  BY <1>1, AccessIdleFacts DEF AccessCallOK, OneAccessInFlight
<1>6. AuditOK'
  BY <1>3 DEF AuditOK
<1>7. A!MadeByHumans(db.identities, use.load = 1)'
  BY <1>1, <1>3 DEF AccessInv, A!MadeByHumans
<1> QED BY <1>1, <1>3, <1>4, <1>5, <1>6, <1>7 DEF AccessInv, AgentsOK, GrantsOK, HeldOnce, RoutesOK, OfHuman

-----------------------------------------------------------------------------
(* The routers.                                                            *)

(* HumanDecisions by router and operation.                                 *)
Reserved(router, op) ==
  \/ router = "decisions" /\ op \in {"approve", "reject", "modify", "defer", "request-more-evidence", "requeue"}
  \/ router \in {"billing-plans", "deployment-plans", "growth-experiments", "outreach-messages"} /\ op = "apply-decision"
  \/ router \in {"company", "customer-discovery-memos", "launch-review-memos", "product-review-memos"} /\ op = "decide"
  \/ router = "business-review-memos" /\ op = "decision"
  \/ router = "decision-records" /\ op = "create"
  \/ router = "deployment-plans" /\ op = "execute"
  \/ router = "deployments" /\ op = "rollback"
  \/ router = "billing-plans" /\ op = "activate"
  \/ router = "growth-experiments" /\ op = "approve-to-run"
  \/ router = "products" /\ op \in {"approve", "build"}
  \/ router = "outreach-experiments" /\ op = "approve"
  \/ router = "prospects" /\ op = "do-not-contact"
  \/ router = "control-plane" /\ op \in {"emergency-stop", "resume"}
  \/ router = "operating-cycles" /\ op \in {"pause", "cancel", "resume-from-awaiting-human"}

LEMMA ReservedOps ==
  ASSUME NEW router, NEW op, <<router, op>> \in A!HumanDecisions
  PROVE  Reserved(router, op)
BY DEF A!HumanDecisions, Reserved

LEMMA HumanRoutes ==
  ASSUME NEW router, NEW ops, NEW r \in A!Human(router, ops)
  PROVE  r.guard = "human"
BY DEF A!Human

LEMMA AnyRoutes ==
  ASSUME NEW router, NEW ops, \A op \in ops : ~Reserved(router, op), NEW r \in A!Any(router, ops)
  PROVE  r.route \notin A!HumanDecisions
BY ReservedOps DEF A!Any

(* No router lets a caller who is not HUMAN into what is reserved to one.  *)
LEMMA RoutesGuarded ==
  ASSUME NEW r \in A!Routes, r.route \in A!HumanDecisions
  PROVE  r.guard = "human"
<1>1. CASE r \in A!alertsRouter
  BY <1>1, HumanRoutes, AnyRoutes DEF A!alertsRouter, Reserved
<1>2. CASE r \in A!authorizeRouter
  BY <1>2, HumanRoutes, AnyRoutes DEF A!authorizeRouter, Reserved
<1>3. CASE r \in A!billingAccountsRouter
  BY <1>3, HumanRoutes, AnyRoutes DEF A!billingAccountsRouter, Reserved
<1>4. CASE r \in A!billingPlansRouter
  BY <1>4, HumanRoutes, AnyRoutes DEF A!billingPlansRouter, Reserved
<1>5. CASE r \in A!businessMetricsRouter
  BY <1>5, HumanRoutes, AnyRoutes DEF A!businessMetricsRouter, Reserved
<1>6. CASE r \in A!businessReviewMemosRouter
  BY <1>6, HumanRoutes, AnyRoutes DEF A!businessReviewMemosRouter, Reserved
<1>7. CASE r \in A!ceoRecommendationsRouter
  BY <1>7, HumanRoutes, AnyRoutes DEF A!ceoRecommendationsRouter, Reserved
<1>8. CASE r \in A!claimsRouter
  BY <1>8, HumanRoutes, AnyRoutes DEF A!claimsRouter, Reserved
<1>9. CASE r \in A!companyRouter
  BY <1>9, HumanRoutes, AnyRoutes DEF A!companyRouter, Reserved
<1>10. CASE r \in A!controlPlaneRouter
  BY <1>10, HumanRoutes, AnyRoutes DEF A!controlPlaneRouter, Reserved
<1>11. CASE r \in A!customerDiscoveryInteractionsRouter
  BY <1>11, HumanRoutes, AnyRoutes DEF A!customerDiscoveryInteractionsRouter, Reserved
<1>12. CASE r \in A!customerDiscoveryMemosRouter
  BY <1>12, HumanRoutes, AnyRoutes DEF A!customerDiscoveryMemosRouter, Reserved
<1>13. CASE r \in A!customerResponsesRouter
  BY <1>13, HumanRoutes, AnyRoutes DEF A!customerResponsesRouter, Reserved
<1>14. CASE r \in A!decisionCyclesRouter
  BY <1>14, HumanRoutes, AnyRoutes DEF A!decisionCyclesRouter, Reserved
<1>15. CASE r \in A!decisionRecordsRouter
  BY <1>15, HumanRoutes, AnyRoutes DEF A!decisionRecordsRouter, Reserved
<1>16. CASE r \in A!decisionsRouter
  BY <1>16, HumanRoutes, AnyRoutes DEF A!decisionsRouter, Reserved
<1>17. CASE r \in A!deploymentPlansRouter
  BY <1>17, HumanRoutes, AnyRoutes DEF A!deploymentPlansRouter, Reserved
<1>18. CASE r \in A!deploymentsRouter
  BY <1>18, HumanRoutes, AnyRoutes DEF A!deploymentsRouter, Reserved
<1>19. CASE r \in A!discoveryExperimentsRouter
  BY <1>19, HumanRoutes, AnyRoutes DEF A!discoveryExperimentsRouter, Reserved
<1>20. CASE r \in A!evidenceRouter
  BY <1>20, HumanRoutes, AnyRoutes DEF A!evidenceRouter, Reserved
<1>21. CASE r \in A!founderRouter
  BY <1>21, HumanRoutes, AnyRoutes DEF A!founderRouter, Reserved
<1>22. CASE r \in A!growthExperimentsRouter
  BY <1>22, HumanRoutes, AnyRoutes DEF A!growthExperimentsRouter, Reserved
<1>23. CASE r \in A!icpProfilesRouter
  BY <1>23, HumanRoutes, AnyRoutes DEF A!icpProfilesRouter, Reserved
<1>24. CASE r \in A!incidentsRouter
  BY <1>24, HumanRoutes, AnyRoutes DEF A!incidentsRouter, Reserved
<1>25. CASE r \in A!launchReviewMemosRouter
  BY <1>25, HumanRoutes, AnyRoutes DEF A!launchReviewMemosRouter, Reserved
<1>26. CASE r \in A!learningRouter
  BY <1>26, HumanRoutes, AnyRoutes DEF A!learningRouter, Reserved
<1>27. CASE r \in A!operatingCyclesRouter
  BY <1>27, HumanRoutes, AnyRoutes DEF A!operatingCyclesRouter, Reserved
<1>28. CASE r \in A!opportunitiesRouter
  BY <1>28, HumanRoutes, AnyRoutes DEF A!opportunitiesRouter, Reserved
<1>29. CASE r \in A!outreachExperimentsRouter
  BY <1>29, HumanRoutes, AnyRoutes DEF A!outreachExperimentsRouter, Reserved
<1>30. CASE r \in A!outreachMessagesRouter
  BY <1>30, HumanRoutes, AnyRoutes DEF A!outreachMessagesRouter, Reserved
<1>31. CASE r \in A!portfolioRouter
  BY <1>31, HumanRoutes, AnyRoutes DEF A!portfolioRouter, Reserved
<1>32. CASE r \in A!predictionOutcomesRouter
  BY <1>32, HumanRoutes, AnyRoutes DEF A!predictionOutcomesRouter, Reserved
<1>33. CASE r \in A!productReviewMemosRouter
  BY <1>33, HumanRoutes, AnyRoutes DEF A!productReviewMemosRouter, Reserved
<1>34. CASE r \in A!productsRouter
  BY <1>34, HumanRoutes, AnyRoutes DEF A!productsRouter, Reserved
<1>35. CASE r \in A!prospectResearchImportRouter
  BY <1>35, HumanRoutes, AnyRoutes DEF A!prospectResearchImportRouter, Reserved
<1>36. CASE r \in A!prospectsRouter
  BY <1>36, HumanRoutes, AnyRoutes DEF A!prospectsRouter, Reserved
<1>37. CASE r \in A!researchCyclesRouter
  BY <1>37, HumanRoutes, AnyRoutes DEF A!researchCyclesRouter, Reserved
<1>38. CASE r \in A!researchRouter
  BY <1>38, HumanRoutes, AnyRoutes DEF A!researchRouter, Reserved
<1>39. CASE r \in A!researchSignalsRouter
  BY <1>39, HumanRoutes, AnyRoutes DEF A!researchSignalsRouter, Reserved
<1>40. CASE r \in A!supportCasesRouter
  BY <1>40, HumanRoutes, AnyRoutes DEF A!supportCasesRouter, Reserved
<1>41. CASE r \in A!tasksRouter
  BY <1>41, HumanRoutes, AnyRoutes DEF A!tasksRouter, Reserved
<1> QED BY <1>1, <1>2, <1>3, <1>4, <1>5, <1>6, <1>7, <1>8, <1>9, <1>10, <1>11, <1>12, <1>13, <1>14, <1>15, <1>16,
       <1>17, <1>18, <1>19, <1>20, <1>21, <1>22, <1>23, <1>24, <1>25, <1>26, <1>27, <1>28, <1>29, <1>30, <1>31, <1>32,
       <1>33, <1>34, <1>35, <1>36, <1>37, <1>38, <1>39, <1>40, <1>41 DEF A!Routes

LEMMA PerformInv ==
  ASSUME AccessInv, NEW c \in Calls, NEW i \in A!Callers, NEW r \in A!Routes, A!Perform(c, i, r)
  PROVE  AccessInv'
<1>1. /\ history' = [route |-> r.route, type |-> db.identities[i].type]
      /\ IF r.guard = "human" THEN A!requireHuman(i) ELSE A!requireAuth(i)
      /\ UNCHANGED <<use, db, calls>>
  BY DEF A!Perform
<1>2. A!requireHuman(i) => db.identities[i].type = "HUMAN"
  BY DEF A!requireHuman, A!assertHumanActor, A!authenticate
<1>3. history'.route = r.route /\ history'.type = db.identities[i].type
  BY <1>1
<1>4. RoutesOK'
  BY <1>1, <1>2, <1>3, RoutesGuarded DEF RoutesOK
<1>5. AuditOK'
  BY <1>1 DEF AccessInv, AuditOK, Logged
<1>6. AccessTypes' /\ (\A d \in Calls : AccessCallOK(calls[d])') /\ OneAccessInFlight'
  BY <1>1 DEF AccessInv, AccessTypes, AccessCallOK, OfHuman, A!hasActivePermission, OneAccessInFlight
<1> QED BY <1>1, <1>4, <1>5, <1>6 DEF AccessInv, A!MadeByHumans, AgentsOK, GrantsOK, OfHuman, HeldOnce

-----------------------------------------------------------------------------
(* The theorems.                                                           *)

LEMMA AccessInitInv == A!AccessConstants /\ A!AccessInit => AccessInv
<1> SUFFICES ASSUME A!AccessConstants, A!AccessInit PROVE AccessInv
  OBVIOUS
<1>1. A!Founded(use)
  BY DEF A!AccessConstants, A!AccessInit
<1>2. use \in A!Use /\ use.crashes \in Nat /\ use.crashes = use.restarts
  BY <1>1 DEF A!Founded, A!Use
<1>3. /\ db.identities = use.identities /\ db.agents = use.agents /\ db.grants = <<>> /\ db.audit = {}
      /\ db = [identities |-> use.identities, agents |-> use.agents, grants |-> <<>>, audit |-> {}]
  BY DEF A!AccessInit
<1>4. use.identities \in Seq(A!Identity) /\ use.agents \in Seq(A!Agent) /\ <<>> \in Seq(A!Grant)
  BY <1>2 DEF A!Use
<1>5. db \in AccessTables
  BY <1>3, <1>4 DEF AccessTables
<1>6. \A c \in Calls : calls[c] = A!Idle
  BY DEF A!AccessInit
<1>7. AccessTypes
  BY <1>2, <1>5, AccessIdleFacts DEF AccessTypes, A!AccessInit
<1>8. (\A c \in Calls : AccessCallOK(calls[c])) /\ OneAccessInFlight
  BY <1>6, AccessIdleFacts DEF AccessCallOK, OneAccessInFlight
<1>9. A!MadeByHumans(db.identities, use.load = 1) /\ AgentsOK
  BY <1>1, <1>3 DEF A!Founded, AgentsOK
<1>10. GrantsOK /\ HeldOnce
  BY <1>3 DEF GrantsOK, HeldOnce
<1>11. RoutesOK
  <2>1. <<"none", "none">> \notin A!HumanDecisions
    BY ReservedOps DEF Reserved
  <2> QED BY <2>1 DEF RoutesOK, A!AccessInit
<1>12. AuditOK
  <2>1. \A i \in DOMAIN db.identities : db.identities[i].status # "REVOKED"
    BY <1>1, <1>3 DEF A!Founded
  <2>2. \A x \in DOMAIN db.agents : db.agents[x].status = "ACTIVE"
    BY <1>1, <1>3 DEF A!Founded
  <2>3. DOMAIN db.grants = {}
    BY <1>3
  <2> QED BY <1>3, <2>1, <2>2, <2>3 DEF AuditOK
<1> QED BY <1>7, <1>8, <1>9, <1>10, <1>11, <1>12 DEF AccessInv

LEMMA AccessNextInv == A!AccessConstants /\ AccessInv /\ [A!AccessNext]_(A!vars) => AccessInv'
<1> SUFFICES ASSUME A!AccessConstants, AccessInv, [A!AccessNext]_(A!vars) PROVE AccessInv'
  OBVIOUS
<1> USE AccessCounts DEF A!AccessConstants
<1>1. CASE UNCHANGED A!vars
  <2>1. AuditOK'
    BY <1>1 DEF A!vars, AccessInv, AuditOK, Logged
  <2>2. AccessTypes' /\ (\A c \in Calls : AccessCallOK(calls[c])') /\ OneAccessInFlight'
    BY <1>1 DEF A!vars, AccessInv, AccessTypes, AccessCallOK, OfHuman, A!hasActivePermission, OneAccessInFlight
  <2> QED BY <1>1, <2>1, <2>2 DEF A!vars, AccessInv, A!MadeByHumans, AgentsOK, GrantsOK, OfHuman, HeldOnce, RoutesOK
<1>2. CASE \E x \in DOMAIN db.identities : A!Expire(x)
  BY <1>2, ExpireInv
<1>3. CASE A!Restart
  BY <1>3, AccessRestartInv
<1>4. ASSUME NEW c \in Calls, A!IdentityStep(c) PROVE AccessInv'
  BY <1>4, CreateIdentityInv, CreateIdentityWriteInv, RevokeIdentityInv DEF A!IdentityStep
<1>5. ASSUME NEW c \in Calls, A!AgentStep(c) PROVE AccessInv'
  BY <1>5, CreateAgentInv, TransitionStatusInv, TransitionStatusWriteInv, GrantPermissionInv,
     GrantPermissionWriteInv, RevokePermissionInv, RevokePermissionWriteInv DEF A!AgentStep
<1>6. ASSUME NEW c \in Calls, A!Record(c) PROVE AccessInv'
  BY <1>6, AccessRecordInv
<1>7. ASSUME NEW c \in Calls, NEW i \in A!Callers, NEW r \in A!Routes, A!Perform(c, i, r) PROVE AccessInv'
  BY <1>7, PerformInv
<1> QED BY <1>1, <1>2, <1>3, <1>4, <1>5, <1>6, <1>7 DEF A!AccessNext

(* Every row of the tables is of its type: an identity's agent, a grant's  *)
(* agent and whoever gave it are there (identity.service, agent.service).  *)
THEOREM RowsAreTyped == A!AccessConstants /\ A!AccessSpec => []A!AccessTypeOK
<1> SUFFICES ASSUME A!AccessConstants PROVE A!AccessSpec => []A!AccessTypeOK
  OBVIOUS
<1>1. AccessInv => A!AccessTypeOK
  <2> SUFFICES ASSUME AccessInv PROVE A!AccessTypeOK
    OBVIOUS
  <2>1. \A i \in DOMAIN db.identities : db.identities[i] \in A!Identity
    BY DEF AccessInv, AccessTypes, AccessTables
  <2>2. \A x \in DOMAIN db.agents : db.agents[x] \in A!Agent
    BY DEF AccessInv, AccessTypes, AccessTables
  <2>3. DOMAIN A!AGENT_STATUS_TRANSITIONS = A!Status
    BY DEF A!AGENT_STATUS_TRANSITIONS, A!Status
  <2> QED BY <2>1, <2>2, <2>3 DEF AccessInv, AgentsOK, GrantsOK, OfHuman, A!AccessTypeOK, A!Identity, A!Agent
<1>2. A!AccessInit => AccessInv
  BY AccessInitInv
<1>3. AccessInv /\ [A!AccessNext]_(A!vars) => AccessInv'
  BY AccessNextInv
<1> QED BY <1>1, <1>2, <1>3, PTL DEF A!AccessSpec

(* Authority comes from a human, and what changed it is on record: every   *)
(* identity and permission leads back to a HUMAN, no router lets anybody   *)
(* else into what is reserved to one, and every change of an identity, an  *)
(* agent or a grant has its audit entry unless its call is on the way to   *)
(* write it or a restart cut it off. For any number of calls in flight,    *)
(* whichever of them is overtaken by a revocation or an expiry.            *)
THEOREM AccessAuthorityHolds == A!AccessConstants /\ A!AccessSpec => []A!AuthorityIsHumanAndAudited
<1> SUFFICES ASSUME A!AccessConstants PROVE A!AccessSpec => []A!AuthorityIsHumanAndAudited
  OBVIOUS
<1>1. AccessInv => A!AuthorityIsHumanAndAudited
  <2> SUFFICES ASSUME AccessInv PROVE A!AuthorityIsHumanAndAudited
    OBVIOUS
  <2>1. A!AuthorityIsHuman
    BY DEF AccessInv, GrantsOK, OfHuman, RoutesOK, A!AuthorityIsHuman
  <2>2. A!ChangesAreAudited
    BY DEF AccessInv, AuditOK, Logged, HeldOnce, A!ChangesAreAudited
  <2> QED BY <2>1, <2>2 DEF A!AuthorityIsHumanAndAudited
<1>2. A!AccessInit => AccessInv
  BY AccessInitInv
<1>3. AccessInv /\ [A!AccessNext]_(A!vars) => AccessInv'
  BY AccessNextInv
<1> QED BY <1>1, <1>2, <1>3, PTL DEF A!AccessSpec

-----------------------------------------------------------------------------
(* Predictions, lessons and decision memos.                                *)

LEMMA PredictionCounts == \A S : (P!IsFiniteSet(S) <=> IsFiniteSet(S)) /\ P!Cardinality(S) = Cardinality(S)
BY DEF P!IsFiniteSet, IsFiniteSet, P!Cardinality, Cardinality

PredictionPlaces ==
  {"idle", "candidates", "resolve", "resolveWrite", "lesson", "memoWrite", "pauseRead", "pause", "evaluate"}
PredictionCall ==
  [at : PredictionPlaces, op : {"none", "sweep", "resolve", "memo", "learn", "evaluate"}, due : SUBSET Nat, p : Nat, value : Int, now : Nat,
   m : Nat, o : Nat]
PredictionRow == [type : STRING, value : Int, made : Nat, end : Nat, observed : Int, resolved : Int]
MetricRow == [type : STRING, value : Int \ {P!None}, at : Nat]
LessonRow == [prediction : Nat, memo : Nat]
ExpectationRow == [actual : Int, lesson : Nat]
DecisionMemoRow == [action : STRING, decision : {"none", "APPROVE", "REQUEST_CHANGES", "REJECT", "DEFER"}]
PredictionTables ==
  [now : Nat, predictions : Seq(PredictionRow), metrics : Seq(MetricRow), lessons : Seq(LessonRow), outcomes : Seq(ExpectationRow), memos : Seq(DecisionMemoRow),
   product : {"LIVE", "PAUSED"}]
ResolutionEntry == [p : Nat, value : Int, by : {"sweep", "resolve"}, at : Nat]

PredictionsTypes ==
  /\ use \in P!Use /\ use.crashes <= use.restarts
  /\ db \in PredictionTables
  /\ calls \in [Calls -> PredictionCall]
  /\ history \in Seq(ResolutionEntry)

(* A metric that says what a prediction was about, once its period was over. *)
Seen(p, value, upto) ==
  \E k \in DOMAIN db.metrics :
    /\ db.metrics[k].type = db.predictions[p].type /\ db.metrics[k].value = value
    /\ db.predictions[p].end <= db.metrics[k].at /\ db.metrics[k].at <= upto
Resolved(p) == \E i \in DOMAIN history : history[i].p = p
Kills(m) == db.memos[m].decision = "APPROVE" /\ db.memos[m].action \in P!ACTIONS_THAT_PAUSE_ON_APPROVAL

LessonsOf(p) == {l \in DOMAIN db.lessons : db.lessons[l].prediction = p}
Coming(p) == {c \in Calls : calls[c].at = "lesson" /\ calls[c].m = 0 /\ calls[c].p = p}
WasOff(i) == P!ShouldGenerateLearningRecord(db.predictions[history[i].p].value, history[i].value)
Off(p) == {i \in DOMAIN history : WasOff(i) /\ history[i].p = p}

PredictionCallOK(call) ==
  /\ call.now <= db.now
  /\ \A p \in call.due : p \in DOMAIN db.predictions /\ db.predictions[p].end <= call.now
  /\ call.due # {} => call.op = "sweep" /\ call.at \in {"candidates", "resolve", "resolveWrite", "lesson"}
  /\ call.at \in {"resolve", "resolveWrite", "lesson"} /\ call.m = 0 => call.p \in DOMAIN db.predictions /\ call.op \in {"sweep", "resolve"}
  /\ call.at \in {"resolve", "resolveWrite"} =>
       /\ call.m = 0 /\ call.value # P!None
       /\ call.op = "sweep" => db.predictions[call.p].end <= call.now /\ Seen(call.p, call.value, db.now)
  /\ call.at = "resolveWrite" => db.predictions[call.p].end <= call.now
  /\ call.at = "candidates" => call.m = 0
  /\ call.at = "lesson" /\ call.m # 0 => call.m \in DOMAIN db.memos /\ call.p = 0
  /\ call.at \in {"memoWrite", "pauseRead", "pause"} => call.m \in DOMAIN db.memos
  /\ call.at = "evaluate" => call.o \in DOMAIN db.outcomes

PredictionRowsOK ==
  /\ \A p \in DOMAIN db.predictions : db.predictions[p].made < db.predictions[p].end
  /\ \A k \in DOMAIN db.metrics : db.metrics[k].at <= db.now
  /\ \A i \in DOMAIN history :
       /\ history[i].p \in DOMAIN db.predictions /\ db.predictions[history[i].p].end <= history[i].at
       /\ history[i].at <= db.now
       /\ history[i].by = "sweep" => Seen(history[i].p, history[i].value, history[i].at)
  /\ \A l \in DOMAIN db.lessons : db.lessons[l].prediction \in {0} \cup DOMAIN db.predictions /\ db.lessons[l].memo \in {0} \cup DOMAIN db.memos

(* While nothing was lost in a restart.                                    *)
LessonsAreCounted ==
  \A p \in DOMAIN db.predictions : Cardinality(LessonsOf(p)) + Cardinality(Coming(p)) = Cardinality(Off(p))
KillsPause ==
  (\E m \in DOMAIN db.memos : Kills(m)) => db.product = "PAUSED" \/ \E c \in Calls : calls[c].at \in {"pauseRead", "pause"}

(* Of calls made one after the other.                                      *)
PredictionSerialRowsOK ==
  /\ \A p \in DOMAIN db.predictions : Resolved(p) => db.predictions[p].observed # P!None
  /\ \A i, j \in DOMAIN history : history[i].p = history[j].p /\ history[j].by = "sweep" => i >= j
  /\ db.product = "PAUSED" => \E m \in DOMAIN db.memos : Kills(m)
  /\ \A l \in DOMAIN db.lessons : db.lessons[l].memo # 0 => db.memos[db.lessons[l].memo].decision = "REJECT"
PredictionSerialCallOK(call) ==
  /\ \A p \in call.due : ~Resolved(p)
  /\ call.at \in {"resolve", "resolveWrite"} /\ call.op = "sweep" => ~Resolved(call.p) /\ call.p \notin call.due
  /\ call.at = "memoWrite" => db.memos[call.m].decision = "none"
  /\ call.at \in {"pauseRead", "pause"} => Kills(call.m)
  /\ call.at = "lesson" /\ call.m # 0 => db.memos[call.m].decision = "REJECT"

PredictionsInv ==
  /\ PredictionsTypes
  /\ \A c \in Calls : PredictionCallOK(calls[c])
  /\ PredictionRowsOK
  /\ use.restarts = use.crashes => LessonsAreCounted /\ KillsPause
  /\ use.load = 1 => OneCallInFlight /\ PredictionSerialRowsOK /\ \A c \in Calls : PredictionSerialCallOK(calls[c])

-----------------------------------------------------------------------------
LEMMA PredictionsIdle ==
  /\ P!Idle \in PredictionCall /\ P!Idle.at = "idle" /\ P!Idle.due = {} /\ P!Idle.now = 0
<1>1. P!Idle.at = "idle" /\ P!Idle.due = {} /\ P!Idle.now = 0
  BY DEF P!Idle
<1>2. P!Idle \in PredictionCall
  BY DEF P!Idle, PredictionCall, PredictionPlaces, P!None
<1> QED BY <1>1, <1>2

LEMMA PredictionIdleOK ==
  ASSUME PredictionsTypes
  PROVE  PredictionCallOK(P!Idle) /\ PredictionSerialCallOK(P!Idle)
<1>1. db.now \in Nat
  BY DEF PredictionsTypes, PredictionTables
<1> QED BY <1>1, PredictionsIdle DEF PredictionCallOK, PredictionSerialCallOK

LEMMA PredictionBeginFacts ==
  ASSUME P!PredictionsConstants, PredictionsTypes, NEW c \in Calls, NEW op, P!Begin(op, c)
  PROVE  calls[c].at = "idle" /\ (use.load = 1 => \A d \in Calls : calls[d].at = "idle")
<1> DEFINE busy == {d \in Calls : calls[d].at # "idle"}
<1>1. IsFiniteSet(busy)
  BY PredictionCounts, FS_Subset DEF P!PredictionsConstants
<1>2. Cardinality(busy) < use.load /\ calls[c].at = "idle"
  BY PredictionCounts DEF P!Begin
<1>3. Cardinality(busy) \in Nat
  BY <1>1, FS_CardinalityType
<1>4. use.load = 1 => Cardinality(busy) = 0
  BY <1>2, <1>3
<1>5. Cardinality(busy) = 0 => busy = {}
  BY <1>1, FS_EmptySet
<1> QED BY <1>2, <1>4, <1>5

LEMMA PredictionRows ==
  ASSUME PredictionsTypes
  PROVE  /\ \A p \in DOMAIN db.predictions : p \in Nat \ {0} /\ db.predictions[p] \in PredictionRow
         /\ \A k \in DOMAIN db.metrics : k \in Nat \ {0} /\ db.metrics[k] \in MetricRow
         /\ \A l \in DOMAIN db.lessons : l \in Nat \ {0} /\ db.lessons[l] \in LessonRow
         /\ \A o \in DOMAIN db.outcomes : o \in Nat \ {0} /\ db.outcomes[o] \in ExpectationRow
         /\ \A m \in DOMAIN db.memos : m \in Nat \ {0} /\ db.memos[m] \in DecisionMemoRow
         /\ \A i \in DOMAIN history : i \in Nat \ {0} /\ history[i] \in ResolutionEntry
         /\ db.now \in Nat
<1>1. /\ db.predictions \in Seq(PredictionRow) /\ db.metrics \in Seq(MetricRow) /\ db.lessons \in Seq(LessonRow)
      /\ db.outcomes \in Seq(ExpectationRow) /\ db.memos \in Seq(DecisionMemoRow) /\ history \in Seq(ResolutionEntry) /\ db.now \in Nat
  BY DEF PredictionsTypes, PredictionTables
<1> QED BY <1>1

-----------------------------------------------------------------------------
(* What every step leaves of the rows.                                     *)
PredictionsGrown ==
  /\ \A p \in DOMAIN db.predictions :
       /\ p \in DOMAIN db'.predictions
       /\ db'.predictions[p].type = db.predictions[p].type /\ db'.predictions[p].value = db.predictions[p].value
       /\ db'.predictions[p].made = db.predictions[p].made /\ db'.predictions[p].end = db.predictions[p].end
  /\ \A k \in DOMAIN db.metrics : k \in DOMAIN db'.metrics /\ db'.metrics[k] = db.metrics[k]
  /\ DOMAIN db'.memos = DOMAIN db.memos
  /\ DOMAIN db.outcomes \subseteq DOMAIN db'.outcomes
  /\ db.now <= db'.now

LEMMA SeenStays ==
  ASSUME PredictionsTypes, PredictionsGrown, NEW p \in DOMAIN db.predictions, NEW value, NEW t \in Nat, NEW u \in Nat, t <= u, Seen(p, value, t)
  PROVE  Seen(p, value, u)'
<1>1. PICK k \in DOMAIN db.metrics :
        /\ db.metrics[k].type = db.predictions[p].type /\ db.metrics[k].value = value
        /\ db.predictions[p].end <= db.metrics[k].at /\ db.metrics[k].at <= t
  BY DEF Seen
<1>2. db.metrics[k].at \in Nat
  BY PredictionRows DEF MetricRow
<1>3. /\ k \in DOMAIN db'.metrics /\ db'.metrics[k] = db.metrics[k]
      /\ db'.predictions[p].type = db.predictions[p].type /\ db'.predictions[p].end = db.predictions[p].end
  BY DEF PredictionsGrown
<1>4. db.metrics[k].at <= u
  BY <1>1, <1>2
<1> QED BY <1>1, <1>3, <1>4 DEF Seen

LEMMA PredictionCallStays ==
  ASSUME PredictionsTypes, PredictionsGrown, db'.now \in Nat, NEW call \in PredictionCall, PredictionCallOK(call)
  PROVE  PredictionCallOK(call)'
<1>1. call.now \in Nat /\ db.now \in Nat /\ call.now <= db'.now
  BY PredictionRows DEF PredictionCallOK, PredictionCall, PredictionsGrown
<1>2. ASSUME call.at \in {"resolve", "resolveWrite"}, call.op = "sweep"
      PROVE  db'.predictions[call.p].end <= call.now /\ Seen(call.p, call.value, db.now)'
  <2>1. call.p \in DOMAIN db.predictions /\ db.predictions[call.p].end <= call.now /\ Seen(call.p, call.value, db.now)
    BY <1>2 DEF PredictionCallOK
  <2>2. PICK u \in Nat : u = db'.now
    OBVIOUS
  <2>3. Seen(call.p, call.value, u)'
    BY <1>1, <2>1, <2>2, SeenStays DEF PredictionsGrown
  <2>4. Seen(call.p, call.value, db.now)'
    BY <2>2, <2>3 DEF Seen
  <2> QED BY <2>1, <2>4 DEF PredictionsGrown
<1>3. \A p \in call.due : p \in DOMAIN db'.predictions /\ db'.predictions[p].end <= call.now
  BY DEF PredictionCallOK, PredictionsGrown
<1>4. call.at \in {"resolve", "resolveWrite", "lesson"} /\ call.m = 0 => call.p \in DOMAIN db'.predictions /\ call.op \in {"sweep", "resolve"}
  BY DEF PredictionCallOK, PredictionsGrown
<1>5. call.at = "resolveWrite" => db'.predictions[call.p].end <= call.now
  BY DEF PredictionCallOK, PredictionsGrown
<1> QED BY <1>1, <1>2, <1>3, <1>4, <1>5 DEF PredictionCallOK, PredictionsGrown

LEMMA PredictionCallStep ==
  ASSUME PredictionsInv, NEW c \in Calls, NEW next \in PredictionCall, P!GoTo(c, next), PredictionsGrown, UNCHANGED use,
         calls[c].at # "idle" \/ (use.load = 1 => \A d \in Calls : calls[d].at = "idle"),
         db' \in PredictionTables, history' \in Seq(ResolutionEntry), PredictionCallOK(next)', use.load = 1 => PredictionSerialCallOK(next)'
  PROVE  /\ PredictionsTypes' /\ \A d \in Calls : PredictionCallOK(calls[d])'
         /\ calls'[c] = next /\ \A d \in Calls \ {c} : calls'[d] = calls[d]
         /\ use'.load = 1 => OneCallInFlight' /\ \A d \in Calls : PredictionSerialCallOK(calls[d])'
<1>1. /\ calls' \in [Calls -> PredictionCall] /\ calls'[c] = next
      /\ \A d \in Calls \ {c} : calls'[d] = calls[d]
  BY DEF P!GoTo, PredictionsInv, PredictionsTypes
<1>2. PredictionsTypes'
  BY <1>1 DEF PredictionsInv, PredictionsTypes
<1>3. ASSUME NEW d \in Calls PROVE PredictionCallOK(calls[d])'
  <2>1. CASE d = c
    BY <1>1, <2>1
  <2>2. CASE d # c
    <3>1. PICK call \in PredictionCall : call = calls[d] /\ PredictionCallOK(call)
      BY DEF PredictionsInv, PredictionsTypes
    <3>2. PredictionCallOK(call)'
      BY <1>2, <3>1, PredictionCallStays DEF PredictionsInv, PredictionsTypes, PredictionTables
    <3>3. calls'[d] = call
      BY <1>1, <2>2, <3>1
    <3> QED BY <3>2, <3>3
  <2> QED BY <2>1, <2>2
<1>4. ASSUME use.load = 1 PROVE OneCallInFlight' /\ \A d \in Calls : PredictionSerialCallOK(calls[d])'
  <2>1. \A d \in Calls \ {c} : calls[d].at = "idle"
    BY <1>4 DEF PredictionsInv, OneCallInFlight
  <2>2. OneCallInFlight'
    BY <1>1, <2>1 DEF OneCallInFlight
  <2>3. ASSUME NEW d \in Calls \ {c} PROVE PredictionSerialCallOK(calls[d])'
    <3>1. calls'[d].at = "idle" /\ calls'[d].due = {}
      BY <1>1, <2>1 DEF PredictionsInv, PredictionCallOK
    <3> QED BY <3>1 DEF PredictionSerialCallOK
  <2>4. PredictionSerialCallOK(calls[c])'
    BY <1>1, <1>4
  <2> QED BY <2>2, <2>3, <2>4
<1> QED BY <1>1, <1>2, <1>3, <1>4

(* What is known of the rows and of the resolutions there were.            *)
LEMMA PredictionRowsStay ==
  ASSUME PredictionsInv, PredictionsGrown
  PROVE  /\ \A p \in DOMAIN db.predictions : db'.predictions[p].made < db'.predictions[p].end
         /\ \A i \in DOMAIN history :
              /\ history[i].p \in DOMAIN db'.predictions /\ db'.predictions[history[i].p].end <= history[i].at
              /\ db'.now \in Nat => history[i].at <= db'.now
              /\ history[i].by = "sweep" => \E k \in DOMAIN db'.metrics :
                   /\ db'.metrics[k].type = db'.predictions[history[i].p].type /\ db'.metrics[k].value = history[i].value
                   /\ db'.predictions[history[i].p].end <= db'.metrics[k].at /\ db'.metrics[k].at <= history[i].at
<1>1. PredictionsTypes /\ PredictionRowsOK
  BY DEF PredictionsInv
<1>2. \A p \in DOMAIN db.predictions : db'.predictions[p].made < db'.predictions[p].end
  BY <1>1 DEF PredictionRowsOK, PredictionsGrown
<1>3. ASSUME NEW i \in DOMAIN history
      PROVE  /\ history[i].p \in DOMAIN db'.predictions /\ db'.predictions[history[i].p].end <= history[i].at
             /\ db'.now \in Nat => history[i].at <= db'.now
             /\ history[i].by = "sweep" => \E k \in DOMAIN db'.metrics :
                   /\ db'.metrics[k].type = db'.predictions[history[i].p].type /\ db'.metrics[k].value = history[i].value
                   /\ db'.predictions[history[i].p].end <= db'.metrics[k].at /\ db'.metrics[k].at <= history[i].at
  <2>1. PICK row \in ResolutionEntry : row = history[i]
    BY <1>1, PredictionRows
  <2>2. row.at \in Nat /\ db.now \in Nat
    BY <1>1, PredictionRows DEF ResolutionEntry
  <2>3. /\ row.p \in DOMAIN db.predictions /\ db.predictions[row.p].end <= row.at /\ row.at <= db.now
        /\ row.by = "sweep" => Seen(row.p, row.value, row.at)
    BY <1>1, <2>1 DEF PredictionRowsOK
  <2>4. row.by = "sweep" => Seen(row.p, row.value, row.at)'
    BY <1>1, <2>2, <2>3, SeenStays
  <2>5. row.p \in DOMAIN db'.predictions /\ db'.predictions[row.p].end <= row.at /\ (db'.now \in Nat => row.at <= db'.now)
    BY <2>2, <2>3 DEF PredictionsGrown
  <2> QED BY <2>1, <2>4, <2>5 DEF Seen
<1> QED BY <1>2, <1>3

(* A step that only moves a call.                                          *)
LEMMA PredictionGoesOn ==
  ASSUME P!PredictionsConstants, PredictionsInv, NEW c \in Calls, NEW next \in PredictionCall, P!GoTo(c, next), UNCHANGED <<use, db, history>>,
         calls[c].at # "idle" \/ (use.load = 1 => \A d \in Calls : calls[d].at = "idle"),
         PredictionCallOK(next), use.load = 1 => PredictionSerialCallOK(next),
         ~(calls[c].at = "lesson" /\ calls[c].m = 0), ~(next.at = "lesson" /\ next.m = 0),
         calls[c].at \in {"pauseRead", "pause"} => next.at \in {"pauseRead", "pause"} \/ db.product = "PAUSED"
  PROVE  PredictionsInv'
<1>1. PredictionsGrown
  BY PredictionRows DEF PredictionsInv, PredictionsGrown
<1>2. PredictionCallOK(next)' /\ (use.load = 1 => PredictionSerialCallOK(next)')
  BY DEF PredictionCallOK, PredictionSerialCallOK, Seen, Resolved, Kills
<1>3. db' \in PredictionTables /\ history' \in Seq(ResolutionEntry)
  BY DEF PredictionsInv, PredictionsTypes
<1>4. /\ PredictionsTypes' /\ \A d \in Calls : PredictionCallOK(calls[d])'
      /\ calls'[c] = next /\ \A d \in Calls \ {c} : calls'[d] = calls[d]
      /\ use'.load = 1 => OneCallInFlight' /\ \A d \in Calls : PredictionSerialCallOK(calls[d])'
  BY <1>1, <1>2, <1>3, PredictionCallStep
<1>5. PredictionRowsOK' /\ (use.load = 1 => PredictionSerialRowsOK')
  BY DEF PredictionsInv, PredictionRowsOK, PredictionSerialRowsOK, Seen, Resolved, Kills
<1>6. LessonsAreCounted => LessonsAreCounted'
  <2>1. \A p : Coming(p)' = Coming(p)
    BY <1>4 DEF Coming
  <2>2. \A p : LessonsOf(p)' = LessonsOf(p) /\ Off(p)' = Off(p)
    BY DEF LessonsOf, Off, WasOff
  <2> QED BY <2>1, <2>2, Zenon DEF LessonsAreCounted
<1>7. KillsPause => KillsPause'
  BY <1>4 DEF KillsPause, Kills
<1> QED BY <1>4, <1>5, <1>6, <1>7 DEF PredictionsInv

LEMMA PredictionCallFacts ==
  ASSUME PredictionsInv, NEW c \in Calls
  PROVE  calls[c] \in PredictionCall /\ PredictionCallOK(calls[c]) /\ (use.load = 1 => PredictionSerialCallOK(calls[c]))
BY DEF PredictionsInv, PredictionsTypes

LEMMA NextDueFacts ==
  ASSUME PredictionsTypes, NEW call \in PredictionCall, PredictionCallOK(call)
  PROVE  LET next == P!NextDue(call)
         IN  /\ next \in PredictionCall /\ PredictionCallOK(next) /\ next.at \in {"idle", "candidates"} /\ next.due \subseteq call.due
             /\ (\A p \in call.due : ~Resolved(p)) => PredictionSerialCallOK(next)
<1> DEFINE on == [P!Idle EXCEPT !.at = "candidates", !.op = "sweep", !.due = call.due, !.now = call.now]
<1>1. CASE P!NextDue(call) = P!Idle
  BY <1>1, PredictionsIdle, PredictionIdleOK
<1>2. CASE P!NextDue(call) = on
  <2>1. on \in PredictionCall /\ on.at = "candidates" /\ on.op = "sweep" /\ on.due = call.due /\ on.now = call.now /\ on.m = 0
    BY PredictionsIdle DEF P!Idle, PredictionCall, PredictionPlaces
  <2> HIDE DEF on
  <2>2. PredictionCallOK(on)
    BY <2>1 DEF PredictionCallOK
  <2>3. (\A p \in call.due : ~Resolved(p)) => PredictionSerialCallOK(on)
    BY <2>1 DEF PredictionSerialCallOK
  <2> QED BY <1>2, <2>1, <2>2, <2>3
<1> QED BY <1>1, <1>2 DEF P!NextDue

LEMMA ResolveAllDueInv ==
  ASSUME P!PredictionsConstants, PredictionsInv, NEW c \in Calls, P!ResolveAllDue(c)
  PROVE  PredictionsInv'
<1> DEFINE next == [P!Idle EXCEPT !.at = "candidates", !.op = "sweep", !.due = P!listUnresolvedPastTarget, !.now = db.now]
<1>1. P!Begin("sweep", c) /\ P!GoTo(c, next) /\ UNCHANGED <<use, db, history>>
  BY DEF P!ResolveAllDue
<1>2. calls[c].at = "idle" /\ (use.load = 1 => \A d \in Calls : calls[d].at = "idle")
  BY <1>1, PredictionBeginFacts DEF PredictionsInv
<1>3. db.now \in Nat /\ P!listUnresolvedPastTarget \in SUBSET Nat
  BY PredictionRows DEF PredictionsInv, P!listUnresolvedPastTarget
<1>4. /\ next \in PredictionCall /\ next.at = "candidates" /\ next.op = "sweep" /\ next.due = P!listUnresolvedPastTarget /\ next.now = db.now
      /\ next.m = 0
  BY <1>3, PredictionsIdle DEF P!Idle, PredictionCall, PredictionPlaces
<1> HIDE DEF next
<1>5. PredictionCallOK(next)
  BY <1>3, <1>4 DEF PredictionCallOK, P!listUnresolvedPastTarget
<1>6. use.load = 1 => PredictionSerialCallOK(next)
  BY <1>4 DEF PredictionSerialCallOK, P!listUnresolvedPastTarget, PredictionsInv, PredictionSerialRowsOK
<1> QED BY <1>1, <1>2, <1>4, <1>5, <1>6, PredictionGoesOn

LEMMA SweepCandidatesInv ==
  ASSUME P!PredictionsConstants, PredictionsInv, NEW c \in Calls, P!SweepCandidates(c)
  PROVE  PredictionsInv'
<1>0. PICK call \in PredictionCall : call = calls[c] /\ PredictionCallOK(call) /\ (use.load = 1 => PredictionSerialCallOK(call))
  BY PredictionCallFacts
<1>1. call.at = "candidates" /\ UNCHANGED <<use, db, history>>
  BY <1>0 DEF P!SweepCandidates
<1>2. PICK p \in call.due :
        \/ P!GoTo(c, P!NextDue([call EXCEPT !.due = @ \ {p}]))
        \/ \E i \in P!ObservedAfterTarget(p) : P!GoTo(c, [[call EXCEPT !.due = @ \ {p}] EXCEPT !.at = "resolve", !.p = p, !.value = db.metrics[i].value])
  BY <1>0 DEF P!SweepCandidates
<1> DEFINE rest == [call EXCEPT !.due = @ \ {p}]
<1>3. /\ rest \in PredictionCall /\ rest.at = "candidates" /\ rest.op = call.op /\ rest.due = call.due \ {p} /\ rest.now = call.now
      /\ rest.m = call.m
  BY <1>1 DEF PredictionCall
<1>8. \/ P!GoTo(c, P!NextDue(rest))
      \/ \E i \in P!ObservedAfterTarget(p) : P!GoTo(c, [rest EXCEPT !.at = "resolve", !.p = p, !.value = db.metrics[i].value])
  BY <1>2
<1> HIDE DEF rest
<1>4. PredictionCallOK(rest) /\ (use.load = 1 => PredictionSerialCallOK(rest))
  BY <1>0, <1>1, <1>3 DEF PredictionCallOK, PredictionSerialCallOK
<1>5. p \in DOMAIN db.predictions /\ db.predictions[p].end <= call.now /\ call.op = "sweep" /\ call.now <= db.now /\ p \in Nat
  BY <1>0, PredictionRows DEF PredictionCallOK, PredictionsInv
<1>6. CASE P!GoTo(c, P!NextDue(rest))
  <2>1. PICK next \in PredictionCall : next = P!NextDue(rest) /\ PredictionCallOK(next) /\ next.at \in {"idle", "candidates"} /\ (use.load = 1 => PredictionSerialCallOK(next))
    BY <1>3, <1>4, NextDueFacts DEF PredictionsInv, PredictionSerialCallOK
  <2> QED BY <1>0, <1>1, <1>6, <2>1, PredictionGoesOn
<1>7. ASSUME NEW i \in P!ObservedAfterTarget(p), P!GoTo(c, [rest EXCEPT !.at = "resolve", !.p = p, !.value = db.metrics[i].value])
      PROVE  PredictionsInv'
  <2>1. PICK metric \in MetricRow : metric = db.metrics[i] /\ i \in DOMAIN db.metrics
    BY <1>7, PredictionRows DEF P!ObservedAfterTarget, PredictionsInv
  <2>2. metric.type = db.predictions[p].type /\ db.predictions[p].end <= metric.at /\ metric.value # P!None /\ metric.value \in Int
    <3>1. metric.type = db.predictions[p].type /\ metric.at >= db.predictions[p].end
      BY <1>7, <2>1 DEF P!ObservedAfterTarget
    <3>2. metric.at \in Nat /\ db.predictions[p].end \in Nat
      BY <1>5, PredictionRows DEF MetricRow, PredictionRow, PredictionsInv
    <3> QED BY <3>1, <3>2 DEF MetricRow
  <2> DEFINE next == [rest EXCEPT !.at = "resolve", !.p = p, !.value = metric.value]
  <2>3. /\ next \in PredictionCall /\ next.at = "resolve" /\ next.p = p /\ next.value = metric.value /\ next.op = "sweep" /\ next.due = rest.due
        /\ next.now = rest.now /\ next.m = rest.m
    BY <1>3, <1>5, <2>2 DEF PredictionCall, PredictionPlaces
  <2>7. P!GoTo(c, next)
    BY <1>7, <2>1
  <2> HIDE DEF next
  <2>4. metric.at <= db.now
    BY <2>1 DEF PredictionsInv, PredictionRowsOK
  <2>5. Seen(p, metric.value, db.now)
    BY <2>1, <2>2, <2>4 DEF Seen
  <2>6. call.m = 0
    BY <1>0, <1>1 DEF PredictionCallOK
  <2>8. PredictionCallOK(next)
    BY <1>3, <1>4, <1>5, <2>2, <2>3, <2>5, <2>6 DEF PredictionCallOK
  <2>9. use.load = 1 => PredictionSerialCallOK(next)
    BY <1>0, <1>3, <2>3 DEF PredictionSerialCallOK
  <2> QED BY <1>0, <1>1, <2>3, <2>7, <2>8, <2>9, PredictionGoesOn
<1> QED BY <1>6, <1>7, <1>8

LEMMA ResolveInv ==
  ASSUME P!PredictionsConstants, PredictionsInv, NEW c \in Calls, NEW p \in DOMAIN db.predictions, NEW value \in use.values, P!Resolve(c, p, value)
  PROVE  PredictionsInv'
<1> DEFINE next == [P!Idle EXCEPT !.at = "resolve", !.op = "resolve", !.p = p, !.value = value, !.now = db.now]
<1>1. P!Begin("resolve", c) /\ P!GoTo(c, next) /\ UNCHANGED <<use, db, history>>
  BY DEF P!Resolve
<1>2. calls[c].at = "idle" /\ (use.load = 1 => \A d \in Calls : calls[d].at = "idle")
  BY <1>1, PredictionBeginFacts DEF PredictionsInv
<1>3. db.now \in Nat /\ p \in Nat /\ value \in Int \ {P!None}
  BY PredictionRows DEF PredictionsInv, PredictionsTypes, P!Use
<1>4. /\ next \in PredictionCall /\ next.at = "resolve" /\ next.op = "resolve" /\ next.due = {} /\ next.now = db.now /\ next.m = 0
      /\ next.p = p /\ next.value = value
  BY <1>3 DEF P!Idle, PredictionCall, PredictionPlaces
<1> HIDE DEF next
<1>5. PredictionCallOK(next) /\ PredictionSerialCallOK(next)
  BY <1>3, <1>4 DEF PredictionCallOK, PredictionSerialCallOK
<1> QED BY <1>1, <1>2, <1>4, <1>5, PredictionGoesOn

LEMMA ResolveReadInv ==
  ASSUME P!PredictionsConstants, PredictionsInv, NEW c \in Calls, P!ResolveRead(c)
  PROVE  PredictionsInv'
<1>0. PICK call \in PredictionCall : call = calls[c] /\ PredictionCallOK(call) /\ (use.load = 1 => PredictionSerialCallOK(call))
  BY PredictionCallFacts
<1> DEFINE next == [call EXCEPT !.at = "resolveWrite"]
<1>1. call.at = "resolve" /\ UNCHANGED <<use, db, history>>
  BY <1>0 DEF P!ResolveRead
<1>2. \/ P!GoTo(c, P!Idle)
      \/ ~(call.now < db.predictions[call.p].end) /\ P!GoTo(c, next)
  BY <1>0 DEF P!ResolveRead, P!Return, P!ResolutionIsPremature
<1>3. /\ next \in PredictionCall /\ next.at = "resolveWrite" /\ next.op = call.op /\ next.due = call.due /\ next.now = call.now /\ next.m = call.m
      /\ next.p = call.p /\ next.value = call.value
  BY DEF PredictionCall, PredictionPlaces
<1> HIDE DEF next
<1>4. CASE P!GoTo(c, P!Idle)
  BY <1>0, <1>1, <1>4, PredictionsIdle, PredictionIdleOK, PredictionGoesOn DEF PredictionsInv
<1>5. CASE ~(call.now < db.predictions[call.p].end) /\ P!GoTo(c, next)
  <2>1. call.p \in DOMAIN db.predictions /\ db.predictions[call.p].end \in Nat /\ call.now \in Nat
    BY <1>0, <1>1, PredictionRows DEF PredictionCallOK, PredictionCall, PredictionRow, PredictionsInv
  <2>2. db.predictions[call.p].end <= call.now
    BY <1>5, <2>1
  <2>3. PredictionCallOK(next)
    BY <1>0, <1>1, <1>3, <2>2 DEF PredictionCallOK
  <2>4. use.load = 1 => PredictionSerialCallOK(next)
    BY <1>0, <1>1, <1>3 DEF PredictionSerialCallOK
  <2> QED BY <1>0, <1>1, <1>3, <1>5, <2>3, <2>4, PredictionGoesOn
<1> QED BY <1>2, <1>4, <1>5

LEMMA MemoRequests ==
  ASSUME P!PredictionsConstants, PredictionsInv, NEW c \in Calls, NEW m \in DOMAIN db.memos, P!DecideMemo(c, m) \/ P!RecordFromRejectedMemo(c, m)
  PROVE  PredictionsInv'
<1>1. m \in Nat \ {0} /\ db.now \in Nat
  BY PredictionRows DEF PredictionsInv
<1>2. CASE P!DecideMemo(c, m)
  <2> DEFINE next == [P!Idle EXCEPT !.at = "memoWrite", !.op = "memo", !.m = m]
  <2>1. P!Begin("memo", c) /\ db.memos[m].decision = "none" /\ P!GoTo(c, next) /\ UNCHANGED <<use, db, history>>
    BY <1>2 DEF P!DecideMemo
  <2>2. calls[c].at = "idle" /\ (use.load = 1 => \A d \in Calls : calls[d].at = "idle")
    BY <2>1, PredictionBeginFacts DEF PredictionsInv
  <2>3. next \in PredictionCall /\ next.at = "memoWrite" /\ next.due = {} /\ next.now = 0 /\ next.m = m
    BY <1>1, PredictionsIdle DEF P!Idle, PredictionCall, PredictionPlaces
  <2> HIDE DEF next
  <2>4. PredictionCallOK(next) /\ PredictionSerialCallOK(next)
    BY <1>1, <2>1, <2>3 DEF PredictionCallOK, PredictionSerialCallOK
  <2> QED BY <2>1, <2>2, <2>3, <2>4, PredictionGoesOn
<1>3. CASE P!RecordFromRejectedMemo(c, m)
  <2> DEFINE next == [P!Idle EXCEPT !.at = "lesson", !.op = "learn", !.m = m]
  <2>1. P!Begin("learn", c) /\ db.memos[m].decision = "REJECT" /\ P!GoTo(c, next) /\ UNCHANGED <<use, db, history>>
    BY <1>3 DEF P!RecordFromRejectedMemo
  <2>2. calls[c].at = "idle" /\ (use.load = 1 => \A d \in Calls : calls[d].at = "idle")
    BY <2>1, PredictionBeginFacts DEF PredictionsInv
  <2>3. next \in PredictionCall /\ next.at = "lesson" /\ next.due = {} /\ next.now = 0 /\ next.m = m /\ next.p = 0
    BY <1>1, PredictionsIdle DEF P!Idle, PredictionCall, PredictionPlaces
  <2> HIDE DEF next
  <2>4. PredictionCallOK(next) /\ PredictionSerialCallOK(next)
    BY <1>1, <2>1, <2>3 DEF PredictionCallOK, PredictionSerialCallOK
  <2> QED BY <1>1, <2>1, <2>2, <2>3, <2>4, PredictionGoesOn
<1> QED BY <1>2, <1>3

LEMMA EvaluateOutcomeInv ==
  ASSUME P!PredictionsConstants, PredictionsInv, NEW c \in Calls, NEW o \in DOMAIN db.outcomes, NEW value \in use.values, P!EvaluateOutcome(c, o, value)
  PROVE  PredictionsInv'
<1> DEFINE next == [P!Idle EXCEPT !.at = "evaluate", !.op = "evaluate", !.o = o, !.value = value]
<1>1. P!Begin("evaluate", c) /\ P!GoTo(c, next) /\ UNCHANGED <<use, db, history>>
  BY DEF P!EvaluateOutcome
<1>2. calls[c].at = "idle" /\ (use.load = 1 => \A d \in Calls : calls[d].at = "idle")
  BY <1>1, PredictionBeginFacts DEF PredictionsInv
<1>3. db.now \in Nat /\ o \in Nat /\ value \in Int
  BY PredictionRows DEF PredictionsInv, PredictionsTypes, P!Use
<1>4. next \in PredictionCall /\ next.at = "evaluate" /\ next.due = {} /\ next.now = 0 /\ next.o = o
  BY <1>3 DEF P!Idle, PredictionCall, PredictionPlaces
<1> HIDE DEF next
<1>5. PredictionCallOK(next) /\ PredictionSerialCallOK(next)
  BY <1>3, <1>4 DEF PredictionCallOK, PredictionSerialCallOK
<1> QED BY <1>1, <1>2, <1>4, <1>5, PredictionGoesOn

LEMMA PauseReadInv ==
  ASSUME P!PredictionsConstants, PredictionsInv, NEW c \in Calls, P!PauseRead(c)
  PROVE  PredictionsInv'
<1>0. PICK call \in PredictionCall : call = calls[c] /\ PredictionCallOK(call) /\ (use.load = 1 => PredictionSerialCallOK(call))
  BY PredictionCallFacts
<1> DEFINE next == [call EXCEPT !.at = "pause"]
<1>1. call.at = "pauseRead" /\ UNCHANGED <<use, db, history>>
  BY <1>0 DEF P!PauseRead
<1>2. \/ db.product # "LIVE" /\ P!GoTo(c, P!Idle)
      \/ P!GoTo(c, next)
  BY <1>0 DEF P!PauseRead, P!Return
<1>3. next \in PredictionCall /\ next.at = "pause" /\ next.due = call.due /\ next.now = call.now /\ next.m = call.m /\ next.op = call.op
  BY DEF PredictionCall, PredictionPlaces
<1> HIDE DEF next
<1>4. db.product \in {"LIVE", "PAUSED"}
  BY DEF PredictionsInv, PredictionsTypes, PredictionTables
<1>5. CASE db.product # "LIVE" /\ P!GoTo(c, P!Idle)
  BY <1>0, <1>1, <1>4, <1>5, PredictionsIdle, PredictionIdleOK, PredictionGoesOn DEF PredictionsInv
<1>6. CASE P!GoTo(c, next)
  <2>1. PredictionCallOK(next) /\ (use.load = 1 => PredictionSerialCallOK(next))
    BY <1>0, <1>1, <1>3 DEF PredictionCallOK, PredictionSerialCallOK
  <2> QED BY <1>0, <1>1, <1>3, <1>6, <2>1, PredictionGoesOn
<1> QED BY <1>2, <1>5, <1>6

-----------------------------------------------------------------------------
(* A step that adds to the tables while calls wait.                        *)
LEMMA Aside ==
  ASSUME PredictionsInv, PredictionsGrown, UNCHANGED <<use, calls, history>>, db' \in PredictionTables,
         db'.memos = db.memos, db'.lessons = db.lessons, db'.product = db.product,
         \A p \in DOMAIN db.predictions : db'.predictions[p].observed = db.predictions[p].observed,
         \A p \in DOMAIN db'.predictions : p \in DOMAIN db.predictions \/ db'.predictions[p].made < db'.predictions[p].end,
         \A k \in DOMAIN db'.metrics : db'.metrics[k].at <= db'.now
  PROVE  PredictionsInv'
<1>1. PredictionsTypes' /\ db'.now \in Nat
  BY DEF PredictionsInv, PredictionsTypes, PredictionTables
<1>2. ASSUME NEW c \in Calls PROVE PredictionCallOK(calls[c])'
  <2>1. PICK call \in PredictionCall : call = calls[c] /\ PredictionCallOK(call)
    BY PredictionCallFacts
  <2>2. PredictionCallOK(call)'
    BY <1>1, <2>1, PredictionCallStays DEF PredictionsInv
  <2>3. calls'[c] = call
    BY <2>1
  <2> QED BY <2>2, <2>3
<1>3. \A i \in DOMAIN history : history[i].p \in DOMAIN db.predictions
  BY DEF PredictionsInv, PredictionRowsOK
<1>4. PredictionRowsOK'
  <2>1. \A p \in DOMAIN db'.predictions : db'.predictions[p].made < db'.predictions[p].end
    BY PredictionRowsStay
  <2>2. \A l \in DOMAIN db'.lessons : db'.lessons[l].prediction \in {0} \cup DOMAIN db'.predictions /\ db'.lessons[l].memo \in {0} \cup DOMAIN db'.memos
    BY DEF PredictionsInv, PredictionRowsOK, PredictionsGrown
  <2>3. \A i \in DOMAIN history' :
          /\ history'[i].p \in DOMAIN db'.predictions /\ db'.predictions[history'[i].p].end <= history'[i].at
          /\ history'[i].at <= db'.now
          /\ history'[i].by = "sweep" => Seen(history[i].p, history[i].value, history[i].at)'
    BY <1>1, PredictionRowsStay DEF Seen
  <2> QED BY <2>1, <2>2, <2>3 DEF PredictionRowsOK
<1>5. LessonsAreCounted => LessonsAreCounted'
  <2>1. ASSUME NEW p \in DOMAIN db.predictions
        PROVE  LessonsOf(p)' = LessonsOf(p) /\ Coming(p)' = Coming(p) /\ Off(p)' = Off(p)
    <3>1. \A i \in DOMAIN history : WasOff(i)' = WasOff(i)
      BY <1>3 DEF WasOff, PredictionsGrown
    <3> QED BY <3>1 DEF LessonsOf, Coming, Off
  <2>2. ASSUME NEW p \in DOMAIN db'.predictions, p \notin DOMAIN db.predictions
        PROVE  LessonsOf(p)' = {} /\ Coming(p)' = {} /\ Off(p)' = {}
    <3>1. p # 0
      BY <1>1, PredictionRows DEF PredictionsTypes, PredictionTables
    <3>2. \A c \in Calls : calls[c].at = "lesson" /\ calls[c].m = 0 => calls[c].p # p
      BY <2>2, PredictionCallFacts DEF PredictionCallOK
    <3>3. \A l \in DOMAIN db.lessons : db.lessons[l].prediction # p
      BY <2>2, <3>1 DEF PredictionsInv, PredictionRowsOK
    <3> QED BY <1>3, <2>2, <3>2, <3>3 DEF LessonsOf, Coming, Off
  <2>3. Cardinality({}) = 0
    BY FS_EmptySet
  <2>4. ASSUME LessonsAreCounted, NEW p \in DOMAIN db'.predictions
        PROVE  Cardinality(LessonsOf(p)') + Cardinality(Coming(p)') = Cardinality(Off(p)')
    <3>1. CASE p \in DOMAIN db.predictions
      BY <2>1, <2>4, <3>1, Zenon DEF LessonsAreCounted
    <3>2. CASE p \notin DOMAIN db.predictions
      <4>1. LessonsOf(p)' = {} /\ Coming(p)' = {} /\ Off(p)' = {}
        BY <2>2, <3>2
      <4>2. 0 + 0 = 0
        OBVIOUS
      <4> QED BY <2>3, <4>1, <4>2
    <3> QED BY <3>1, <3>2
  <2> QED BY <2>4 DEF LessonsAreCounted
<1>6. KillsPause => KillsPause'
  BY DEF KillsPause, Kills
<1>7. ASSUME use.load = 1 PROVE OneCallInFlight' /\ PredictionSerialRowsOK' /\ \A c \in Calls : PredictionSerialCallOK(calls[c])'
  <2>1. OneCallInFlight /\ PredictionSerialRowsOK /\ \A c \in Calls : PredictionSerialCallOK(calls[c])
    BY <1>7 DEF PredictionsInv
  <2>2. \A p : Resolved(p)' <=> Resolved(p)
    BY DEF Resolved
  <2>3. \A m : Kills(m)' <=> Kills(m)
    BY DEF Kills
  <2>4. \A p \in DOMAIN db'.predictions : Resolved(p)' => db'.predictions[p].observed # P!None
    BY <1>3, <2>1, <2>2 DEF PredictionSerialRowsOK, Resolved
  <2>5. PredictionSerialRowsOK'
    BY <2>1, <2>3, <2>4 DEF PredictionSerialRowsOK
  <2>6. \A c \in Calls : PredictionSerialCallOK(calls[c])'
    BY <2>1, <2>2, <2>3 DEF PredictionSerialCallOK
  <2>7. OneCallInFlight'
    BY <2>1 DEF OneCallInFlight
  <2> QED BY <2>5, <2>6, <2>7
<1> QED BY <1>1, <1>2, <1>4, <1>5, <1>6, <1>7 DEF PredictionsInv

LEMMA AsideSteps ==
  ASSUME P!PredictionsConstants, PredictionsInv,
         \/ \E type \in use.types, value \in use.values : P!RecordMetric(type, value) \/ \E end \in 0 .. MaxTime : P!Record(type, value, end)
         \/ P!RecordExpectation \/ P!Tick
  PROVE  PredictionsInv'
<1>1. PredictionsTypes /\ db \in PredictionTables /\ db.now \in Nat /\ use \in P!Use
  BY DEF PredictionsInv, PredictionsTypes, PredictionTables
<1>2. ASSUME NEW type \in use.types, NEW value \in use.values, P!RecordMetric(type, value) PROVE PredictionsInv'
  <2> DEFINE row == P!NewMetric(type, value, db.now)
  <2>1. row \in MetricRow /\ row.at = db.now
    BY <1>1 DEF P!NewMetric, MetricRow, P!Use
  <2>2. UNCHANGED <<use, calls, history>> /\ db' = [db EXCEPT !.metrics = Append(db.metrics, row)]
    BY <1>2 DEF P!RecordMetric
  <2> HIDE DEF row
  <2>7. db.metrics \in Seq(MetricRow)
    BY <1>1 DEF PredictionTables
  <2>9. Append(db.metrics, row) \in Seq(MetricRow)
    BY <2>1, <2>7
  <2>8. PICK metrics \in Seq(MetricRow) : metrics = Append(db.metrics, row)
    BY <2>9, Zenon
  <2>3. /\ db' \in PredictionTables /\ db'.now = db.now /\ db'.predictions = db.predictions /\ db'.metrics = metrics
        /\ db'.lessons = db.lessons /\ db'.outcomes = db.outcomes /\ db'.memos = db.memos /\ db'.product = db.product
    BY <1>1, <2>2, <2>8 DEF PredictionTables
  <2>4. /\ \A k \in DOMAIN db.metrics : k \in DOMAIN db'.metrics /\ db'.metrics[k] = db.metrics[k]
        /\ \A k \in DOMAIN db'.metrics : k \in DOMAIN db.metrics \/ db'.metrics[k] = row
    BY <2>1, <2>3, <2>7, <2>8
  <2>5. PredictionsGrown
    BY <1>1, <2>3, <2>4 DEF PredictionsGrown
  <2>6. \A k \in DOMAIN db'.metrics : db'.metrics[k].at <= db'.now
    BY <1>1, <2>1, <2>3, <2>4 DEF PredictionsInv, PredictionRowsOK
  <2> QED BY <2>2, <2>3, <2>5, <2>6, Aside
<1>3. ASSUME NEW type \in use.types, NEW value \in use.values, NEW end \in 0 .. MaxTime, P!Record(type, value, end) PROVE PredictionsInv'
  <2> DEFINE row == P!NewPrediction(type, value, db.now, end)
  <2>0. end \in Nat
    BY DEF P!PredictionsConstants
  <2>1. row \in PredictionRow /\ row.made < row.end
    BY <1>1, <1>3, <2>0 DEF P!NewPrediction, PredictionRow, P!Use, P!None, P!Record, P!PredictionIsForward
  <2>2. UNCHANGED <<use, calls, history>> /\ db' = [db EXCEPT !.predictions = Append(db.predictions, row)]
    BY <1>3 DEF P!Record
  <2> HIDE DEF row
  <2>7. db.predictions \in Seq(PredictionRow)
    BY <1>1 DEF PredictionTables
  <2>9. Append(db.predictions, row) \in Seq(PredictionRow)
    BY <2>1, <2>7
  <2>8. PICK predictions \in Seq(PredictionRow) : predictions = Append(db.predictions, row)
    BY <2>9, Zenon
  <2>3. /\ db' \in PredictionTables /\ db'.now = db.now /\ db'.metrics = db.metrics /\ db'.predictions = predictions
        /\ db'.lessons = db.lessons /\ db'.outcomes = db.outcomes /\ db'.memos = db.memos /\ db'.product = db.product
    BY <1>1, <2>2, <2>8 DEF PredictionTables
  <2>4. /\ \A p \in DOMAIN db.predictions : p \in DOMAIN db'.predictions /\ db'.predictions[p] = db.predictions[p]
        /\ \A p \in DOMAIN db'.predictions : p \in DOMAIN db.predictions \/ db'.predictions[p] = row
    BY <2>1, <2>3, <2>7, <2>8
  <2>5. PredictionsGrown
    BY <1>1, <2>3, <2>4 DEF PredictionsGrown
  <2>6. \A k \in DOMAIN db'.metrics : db'.metrics[k].at <= db'.now
    BY <2>3 DEF PredictionsInv, PredictionRowsOK
  <2> QED BY <2>1, <2>2, <2>3, <2>4, <2>5, <2>6, Aside
<1>4. CASE P!RecordExpectation
  <2>1. UNCHANGED <<use, calls, history>> /\ db' = [db EXCEPT !.outcomes = Append(db.outcomes, P!NewExpectation)]
    BY <1>4 DEF P!RecordExpectation
  <2>2. P!NewExpectation \in ExpectationRow
    BY DEF P!NewExpectation, ExpectationRow, P!None
  <2>7. db.outcomes \in Seq(ExpectationRow)
    BY <1>1 DEF PredictionTables
  <2>9. Append(db.outcomes, P!NewExpectation) \in Seq(ExpectationRow)
    BY <2>2, <2>7
  <2>8. PICK outcomes \in Seq(ExpectationRow) : outcomes = Append(db.outcomes, P!NewExpectation)
    BY <2>9, Zenon
  <2>3. /\ db' \in PredictionTables /\ db'.now = db.now /\ db'.metrics = db.metrics /\ db'.predictions = db.predictions
        /\ db'.lessons = db.lessons /\ db'.outcomes = outcomes /\ db'.memos = db.memos /\ db'.product = db.product
    BY <1>1, <2>1, <2>8 DEF PredictionTables
  <2>4. DOMAIN db.outcomes \subseteq DOMAIN db'.outcomes
    BY <2>2, <2>3, <2>7, <2>8
  <2>5. PredictionsGrown
    BY <1>1, <2>3, <2>4 DEF PredictionsGrown
  <2>6. \A k \in DOMAIN db'.metrics : db'.metrics[k].at <= db'.now
    BY <2>3 DEF PredictionsInv, PredictionRowsOK
  <2> QED BY <2>1, <2>3, <2>5, <2>6, Aside
<1>5. CASE P!Tick
  <2>1. UNCHANGED <<use, calls, history>> /\ db' = [db EXCEPT !.now = db.now + 1]
    BY <1>5 DEF P!Tick
  <2>5. PICK later \in Nat : later = db.now + 1
    BY <1>1
  <2>2. /\ db' \in PredictionTables /\ db'.now = later /\ db'.metrics = db.metrics /\ db'.predictions = db.predictions
        /\ db'.lessons = db.lessons /\ db'.outcomes = db.outcomes /\ db'.memos = db.memos /\ db'.product = db.product
    BY <1>1, <2>1, <2>5 DEF PredictionTables
  <2>3. PredictionsGrown
    BY <1>1, <2>2, <2>5 DEF PredictionsGrown
  <2>4. \A k \in DOMAIN db'.metrics : db'.metrics[k].at <= db'.now
    <3>1. \A k \in DOMAIN db.metrics : db.metrics[k].at \in Nat /\ db.metrics[k].at <= db.now
      BY <1>1, PredictionRows DEF PredictionsInv, PredictionRowsOK, MetricRow
    <3> QED BY <1>1, <2>2, <2>5, <3>1
  <2> QED BY <2>1, <2>2, <2>3, <2>4, Aside
<1> QED BY <1>2, <1>3, <1>4, <1>5

LEMMA PredictionFiniteRows ==
  ASSUME NEW T, NEW s \in Seq(T)
  PROVE  IsFiniteSet(DOMAIN s) /\ Cardinality(DOMAIN s) = Len(s)
<1>1. PICK n \in Nat : n = Len(s)
  OBVIOUS
<1>2. DOMAIN s = 1 .. n
  BY <1>1
<1>3. IsFiniteSet(1 .. n) /\ Cardinality(1 .. n) = n
  BY FS_Interval
<1> QED BY <1>1, <1>2, <1>3

-----------------------------------------------------------------------------
LEMMA ResolveWriteInv ==
  ASSUME P!PredictionsConstants, PredictionsInv, NEW c \in Calls, P!ResolveWrite(c)
  PROVE  PredictionsInv'
<1>0. PICK call \in PredictionCall : call = calls[c] /\ PredictionCallOK(call) /\ (use.load = 1 => PredictionSerialCallOK(call))
  BY PredictionCallFacts
<1>1. /\ call.at = "resolveWrite" /\ UNCHANGED use
      /\ db' = [db EXCEPT !.predictions[call.p].observed = call.value, !.predictions[call.p].resolved = call.now]
      /\ history' = Append(history, [p |-> call.p, value |-> call.value, by |-> call.op, at |-> db.now])
      /\ P!GoTo(c, IF P!ShouldGenerateLearningRecord(db.predictions[call.p].value, call.value) THEN [call EXCEPT !.at = "lesson"] ELSE P!NextDue(call))
  BY <1>0 DEF P!ResolveWrite
<1>2. PICK p \in Nat, value \in Int, t \in Nat, now \in Nat : p = call.p /\ value = call.value /\ t = call.now /\ now = db.now
  BY PredictionRows DEF PredictionCall, PredictionsInv
<1>3. /\ p \in DOMAIN db.predictions /\ call.m = 0 /\ value # P!None /\ call.op \in {"sweep", "resolve"} /\ t <= now
      /\ db.predictions[p].end <= t /\ (call.op = "sweep" => Seen(p, value, now))
  BY <1>0, <1>1, <1>2 DEF PredictionCallOK
<1>4. PICK prediction \in PredictionRow : prediction = db.predictions[p]
  BY <1>3, PredictionRows DEF PredictionsInv
<1> DEFINE resolved == [prediction EXCEPT !.observed = value, !.resolved = t]
<1>5. /\ resolved \in PredictionRow /\ resolved.observed = value /\ resolved.type = prediction.type /\ resolved.value = prediction.value
      /\ resolved.made = prediction.made /\ resolved.end = prediction.end
  <2>1. prediction \in [type : STRING, value : Int, made : Nat, end : Nat, observed : Int, resolved : Int]
    BY <1>4 DEF PredictionRow
  <2>2. value \in Int /\ t \in Int
    BY <1>2
  <2>3. resolved \in [type : STRING, value : Int, made : Nat, end : Nat, observed : Int, resolved : Int]
    BY <2>1, <2>2
  <2>4. /\ resolved.observed = value /\ resolved.type = prediction.type /\ resolved.value = prediction.value
        /\ resolved.made = prediction.made /\ resolved.end = prediction.end
    BY <2>1, <2>2
  <2> QED BY <2>3, <2>4 DEF PredictionRow
<1>6. db \in PredictionTables /\ db.predictions \in Seq(PredictionRow)
  BY DEF PredictionsInv, PredictionsTypes, PredictionTables
<1>7. [db.predictions EXCEPT ![p] = resolved] \in Seq(PredictionRow)
  BY <1>3, <1>5, <1>6
<1>8. PICK predictions \in Seq(PredictionRow) : predictions = [db.predictions EXCEPT ![p] = resolved]
  BY <1>7, Zenon
<1>9. /\ DOMAIN predictions = DOMAIN db.predictions /\ predictions[p] = resolved
      /\ \A q \in DOMAIN db.predictions : q # p => predictions[q] = db.predictions[q]
  BY <1>3, <1>6, <1>8
<1>10. db' = [db EXCEPT !.predictions = predictions]
  BY <1>1, <1>2, <1>4, <1>6, <1>8 DEF PredictionTables
<1> HIDE DEF resolved
<1>11. /\ db' \in PredictionTables /\ db'.now = now /\ db'.metrics = db.metrics /\ db'.predictions = predictions
       /\ db'.lessons = db.lessons /\ db'.outcomes = db.outcomes /\ db'.memos = db.memos /\ db'.product = db.product
  BY <1>2, <1>6, <1>10 DEF PredictionTables
<1>12. PredictionsGrown
  BY <1>2, <1>4, <1>5, <1>9, <1>11 DEF PredictionsGrown
<1>13. PICK resolution \in ResolutionEntry :
         resolution = [p |-> p, value |-> value, by |-> call.op, at |-> now]
  BY <1>3, Zenon DEF ResolutionEntry
<1>14. resolution.p = p /\ resolution.value = value /\ resolution.by = call.op /\ resolution.at = now
  BY <1>13
<1>15. history' = Append(history, resolution) /\ history \in Seq(ResolutionEntry)
  BY <1>1, <1>2, <1>13 DEF PredictionsInv, PredictionsTypes
<1>16. PICK n \in Nat : n = Len(history) + 1
  BY <1>15
<1>17. /\ history' \in Seq(ResolutionEntry) /\ DOMAIN history' = DOMAIN history \cup {n} /\ history'[n] = resolution
       /\ \A i \in DOMAIN history : history'[i] = history[i] /\ i \in Nat /\ i < n
  BY <1>15, <1>16
<1> DEFINE off == P!ShouldGenerateLearningRecord(prediction.value, value)
<1>18. PICK next \in PredictionCall :
         /\ P!GoTo(c, next) /\ PredictionCallOK(next) /\ next.due \subseteq call.due
         /\ off => next.at = "lesson" /\ next.m = 0 /\ next.p = p
         /\ ~off => next.at \in {"idle", "candidates"}
  <2> HIDE DEF off
  <2>1. P!GoTo(c, IF off THEN [call EXCEPT !.at = "lesson"] ELSE P!NextDue(call))
    BY <1>1, <1>2, <1>4 DEF off
  <2>2. CASE off
    <3> DEFINE next == [call EXCEPT !.at = "lesson"]
    <3>1. /\ next \in PredictionCall /\ next.at = "lesson" /\ next.op = call.op /\ next.due = call.due /\ next.now = call.now /\ next.m = call.m
          /\ next.p = call.p
      BY DEF PredictionCall, PredictionPlaces
    <3>2. P!GoTo(c, next)
      BY <2>1, <2>2
    <3> HIDE DEF next
    <3>3. PredictionCallOK(next)
      BY <1>0, <1>1, <1>2, <1>3, <3>1 DEF PredictionCallOK
    <3> QED BY <1>2, <1>3, <2>2, <3>1, <3>2, <3>3
  <2>3. CASE ~off
    <3>1. P!GoTo(c, P!NextDue(call))
      BY <2>1, <2>3
    <3>2. P!NextDue(call) \in PredictionCall /\ PredictionCallOK(P!NextDue(call)) /\ P!NextDue(call).at \in {"idle", "candidates"} /\ P!NextDue(call).due \subseteq call.due
      BY <1>0, NextDueFacts DEF PredictionsInv
    <3> QED BY <2>3, <3>1, <3>2
  <2> QED BY <2>2, <2>3
<1>19. PredictionCallOK(next)'
  BY <1>11, <1>12, <1>18, PredictionCallStays DEF PredictionsInv
<1>20. \A q : Resolved(q)' <=> Resolved(q) \/ q = p
  BY <1>14, <1>17 DEF Resolved
<1>21. next.at \in {"idle", "candidates", "lesson"} /\ (next.at = "lesson" => next.m = 0)
  BY <1>18
<1>22. use.load = 1 => PredictionSerialCallOK(next)'
  <2>1. ASSUME use.load = 1, NEW q \in next.due PROVE ~Resolved(q)'
    <3>1. q \in call.due /\ ~Resolved(q)
      BY <1>0, <1>18, <2>1 DEF PredictionSerialCallOK
    <3>2. call.op = "sweep"
      BY <1>0, <3>1 DEF PredictionCallOK
    <3>3. q # p
      BY <1>0, <1>1, <1>2, <2>1, <3>1, <3>2 DEF PredictionSerialCallOK
    <3> QED BY <1>20, <3>1, <3>3
  <2> QED BY <1>21, <2>1 DEF PredictionSerialCallOK
<1>23. /\ PredictionsTypes' /\ \A d \in Calls : PredictionCallOK(calls[d])'
       /\ calls'[c] = next /\ \A d \in Calls \ {c} : calls'[d] = calls[d]
       /\ use'.load = 1 => OneCallInFlight' /\ \A d \in Calls : PredictionSerialCallOK(calls[d])'
  BY <1>0, <1>1, <1>11, <1>12, <1>17, <1>18, <1>19, <1>22, PredictionCallStep
<1>24. PredictionRowsOK'
  <2>1. \A q \in DOMAIN db'.predictions : db'.predictions[q].made < db'.predictions[q].end
    BY <1>9, <1>11, <1>12, PredictionRowsStay
  <2>2. \A l \in DOMAIN db'.lessons : db'.lessons[l].prediction \in {0} \cup DOMAIN db'.predictions /\ db'.lessons[l].memo \in {0} \cup DOMAIN db'.memos
    BY <1>9, <1>11 DEF PredictionsInv, PredictionRowsOK
  <2>3. \A k \in DOMAIN db'.metrics : db'.metrics[k].at <= db'.now
    BY <1>2, <1>11 DEF PredictionsInv, PredictionRowsOK
  <2>4. ASSUME NEW i \in DOMAIN history
        PROVE  /\ history'[i].p \in DOMAIN db'.predictions /\ db'.predictions[history'[i].p].end <= history'[i].at
               /\ history'[i].at <= db'.now
               /\ history'[i].by = "sweep" => Seen(history[i].p, history[i].value, history[i].at)'
    BY <1>11, <1>12, <1>17, PredictionRowsStay DEF Seen
  <2>5. /\ p \in DOMAIN db'.predictions /\ db'.predictions[p].end <= now
        /\ call.op = "sweep" => Seen(p, value, now)'
    <3>1. prediction.end \in Nat
      BY DEF PredictionRow
    <3>2. db'.predictions[p].end <= now
      BY <1>3, <1>4, <1>5, <1>9, <1>11, <3>1
    <3>3. call.op = "sweep" => Seen(p, value, now)'
      BY <1>3, <1>12, SeenStays DEF PredictionsInv
    <3> QED BY <1>3, <1>9, <1>11, <3>2, <3>3
  <2>6. /\ history'[n].p \in DOMAIN db'.predictions /\ db'.predictions[history'[n].p].end <= history'[n].at
        /\ history'[n].at <= db'.now
        /\ history'[n].by = "sweep" => Seen(history[n].p, history[n].value, history[n].at)'
    BY <1>11, <1>14, <1>17, <2>5 DEF Seen
  <2>7. \A i \in DOMAIN history' :
          /\ history'[i].p \in DOMAIN db'.predictions /\ db'.predictions[history'[i].p].end <= history'[i].at
          /\ history'[i].at <= db'.now
          /\ history'[i].by = "sweep" => Seen(history[i].p, history[i].value, history[i].at)'
    BY <1>17, <2>4, <2>6
  <2> QED BY <2>1, <2>2, <2>3, <2>7 DEF PredictionRowsOK
<1>25. ASSUME LessonsAreCounted PROVE LessonsAreCounted'
  <2>1. \A i \in DOMAIN history : WasOff(i)' = WasOff(i)
    <3>1. \A i \in DOMAIN history : history[i].p \in DOMAIN db.predictions
      BY DEF PredictionsInv, PredictionRowsOK
    <3> QED BY <1>12, <1>17, <3>1 DEF WasOff, PredictionsGrown
  <2>2. WasOff(n)' = off
    BY <1>5, <1>9, <1>11, <1>14, <1>17 DEF WasOff
  <2> HIDE DEF off
  <2>3. ASSUME NEW q \in DOMAIN db'.predictions
        PROVE  Cardinality(LessonsOf(q)') + Cardinality(Coming(q)') = Cardinality(Off(q)')
    <3>1. Cardinality(LessonsOf(q)) + Cardinality(Coming(q)) = Cardinality(Off(q))
      BY <1>9, <1>11, <1>25, <2>3, Zenon DEF LessonsAreCounted
    <3>2. LessonsOf(q)' = LessonsOf(q)
      BY <1>11 DEF LessonsOf
    <3>3. c \notin Coming(q) /\ n \notin Off(q)
      BY <1>0, <1>1, <1>17 DEF Coming, Off
    <3>4. CASE off /\ q = p
      <4>1. Coming(q)' = Coming(q) \cup {c}
        BY <1>0, <1>1, <1>18, <1>23, <3>4 DEF Coming
      <4>2. Off(q)' = Off(q) \cup {n}
        BY <1>14, <1>17, <2>1, <2>2, <3>4 DEF Off
      <4>3. Cardinality(Coming(q) \cup {c}) = Cardinality(Coming(q)) + 1 /\ Cardinality(Coming(q)) \in Nat
        <5>1. IsFiniteSet(Coming(q))
          BY PredictionCounts, FS_Subset DEF Coming, P!PredictionsConstants
        <5> QED BY <3>3, <5>1, FS_AddElement, FS_CardinalityType
      <4>4. Cardinality(Off(q) \cup {n}) = Cardinality(Off(q)) + 1 /\ Cardinality(Off(q)) \in Nat
        <5>1. IsFiniteSet(DOMAIN history)
          BY <1>15, PredictionFiniteRows
        <5>2. IsFiniteSet(Off(q))
          BY <5>1, FS_Subset DEF Off
        <5> QED BY <3>3, <5>2, FS_AddElement, FS_CardinalityType
      <4>5. Cardinality(LessonsOf(q)) \in Nat
        <5>1. IsFiniteSet(DOMAIN db.lessons)
          BY <1>6, PredictionFiniteRows DEF PredictionTables
        <5>2. IsFiniteSet(LessonsOf(q))
          BY <5>1, FS_Subset DEF LessonsOf
        <5> QED BY <5>2, FS_CardinalityType
      <4> QED BY <3>1, <3>2, <4>1, <4>2, <4>3, <4>4, <4>5
    <3>5. CASE ~(off /\ q = p)
      <4>1. Coming(q)' = Coming(q)
        BY <1>0, <1>1, <1>18, <1>23, <3>5 DEF Coming
      <4>2. Off(q)' = Off(q)
        BY <1>14, <1>17, <2>1, <2>2, <3>5 DEF Off
      <4> QED BY <3>1, <3>2, <4>1, <4>2
    <3> QED BY <3>4, <3>5
  <2> QED BY <2>3, Zenon DEF LessonsAreCounted
<1>26. KillsPause => KillsPause'
  BY <1>0, <1>1, <1>11, <1>23 DEF KillsPause, Kills
<1>27. ASSUME use.load = 1 PROVE PredictionSerialRowsOK'
  <2>1. PredictionSerialRowsOK
    BY <1>27 DEF PredictionsInv
  <2>2. \A q \in DOMAIN db'.predictions : Resolved(q)' => db'.predictions[q].observed # P!None
    BY <1>3, <1>5, <1>9, <1>11, <1>20, <2>1 DEF PredictionSerialRowsOK
  <2>3. call.op = "sweep" => ~Resolved(p)
    BY <1>0, <1>1, <1>2, <1>27 DEF PredictionSerialCallOK
  <2>4. \A i, j \in DOMAIN history' : history'[i].p = history'[j].p /\ history'[j].by = "sweep" => i >= j
    <3>1. ASSUME NEW i \in DOMAIN history', NEW j \in DOMAIN history', history'[i].p = history'[j].p, history'[j].by = "sweep"
          PROVE  i >= j
      <4>1. CASE i = n
        BY <1>17, <4>1
      <4>2. CASE i \in DOMAIN history /\ j \in DOMAIN history
        BY <1>17, <2>1, <3>1, <4>2 DEF PredictionSerialRowsOK
      <4>3. CASE i \in DOMAIN history /\ j = n
        BY <1>14, <1>17, <2>3, <3>1, <4>3 DEF Resolved
      <4> QED BY <1>17, <4>1, <4>2, <4>3
    <3> QED BY <3>1
  <2> QED BY <1>11, <2>1, <2>2, <2>4 DEF PredictionSerialRowsOK, Kills
<1> QED BY <1>1, <1>23, <1>24, <1>25, <1>26, <1>27 DEF PredictionsInv

LEMMA CreateLessonInv ==
  ASSUME P!PredictionsConstants, PredictionsInv, NEW c \in Calls, P!CreateLesson(c)
  PROVE  PredictionsInv'
<1>0. PICK call \in PredictionCall : call = calls[c] /\ PredictionCallOK(call) /\ (use.load = 1 => PredictionSerialCallOK(call))
  BY PredictionCallFacts
<1>1. /\ call.at = "lesson" /\ UNCHANGED <<use, history>>
      /\ db' = [db EXCEPT !.lessons = Append(db.lessons, P!NewLesson(call.p, call.m))]
      /\ P!GoTo(c, IF call.m # 0 THEN P!Idle ELSE P!NextDue(call))
  BY <1>0 DEF P!CreateLesson
<1>2. PICK p \in Nat, m \in Nat : p = call.p /\ m = call.m
  BY DEF PredictionCall
<1>3. /\ m = 0 => p \in DOMAIN db.predictions
      /\ m # 0 => m \in DOMAIN db.memos /\ p = 0
      /\ m # 0 /\ use.load = 1 => db.memos[m].decision = "REJECT"
  BY <1>0, <1>1, <1>2 DEF PredictionCallOK, PredictionSerialCallOK
<1>4. PICK lesson \in LessonRow : lesson = P!NewLesson(p, m)
  BY <1>2, Zenon DEF P!NewLesson, LessonRow
<1>5. lesson.prediction = p /\ lesson.memo = m
  BY <1>4 DEF P!NewLesson
<1>6. db \in PredictionTables /\ db.lessons \in Seq(LessonRow) /\ db.now \in Nat
  BY DEF PredictionsInv, PredictionsTypes, PredictionTables
<1>7. Append(db.lessons, lesson) \in Seq(LessonRow)
  BY <1>4, <1>6
<1>8. PICK lessons \in Seq(LessonRow) : lessons = Append(db.lessons, lesson)
  BY <1>7, Zenon
<1>9. PICK n \in Nat : n = Len(db.lessons) + 1
  BY <1>6
<1>10. /\ DOMAIN lessons = DOMAIN db.lessons \cup {n} /\ lessons[n] = lesson
       /\ \A l \in DOMAIN db.lessons : lessons[l] = db.lessons[l] /\ l < n
  BY <1>6, <1>8, <1>9
<1>11. n \notin DOMAIN db.lessons
  BY <1>6, <1>9
<1>12. /\ db' \in PredictionTables /\ db'.now = db.now /\ db'.metrics = db.metrics /\ db'.predictions = db.predictions
       /\ db'.lessons = lessons /\ db'.outcomes = db.outcomes /\ db'.memos = db.memos /\ db'.product = db.product
  <2>1. db' = [db EXCEPT !.lessons = lessons]
    BY <1>1, <1>2, <1>4, <1>8
  <2> QED BY <1>6, <1>8, <2>1 DEF PredictionTables
<1>13. PredictionsGrown
  BY <1>6, <1>12 DEF PredictionsGrown
<1>14. PICK next \in PredictionCall :
         /\ P!GoTo(c, next) /\ PredictionCallOK(next) /\ next.at \in {"idle", "candidates"} /\ (use.load = 1 => PredictionSerialCallOK(next))
  <2>1. CASE m # 0
    BY <1>1, <1>2, <2>1, PredictionsIdle, PredictionIdleOK DEF PredictionsInv
  <2>2. CASE m = 0
    <3>1. P!GoTo(c, P!NextDue(call))
      BY <1>1, <1>2, <2>2
    <3>2. /\ P!NextDue(call) \in PredictionCall /\ PredictionCallOK(P!NextDue(call)) /\ P!NextDue(call).at \in {"idle", "candidates"}
          /\ (\A q \in call.due : ~Resolved(q)) => PredictionSerialCallOK(P!NextDue(call))
      BY <1>0, NextDueFacts DEF PredictionsInv
    <3> QED BY <1>0, <3>1, <3>2 DEF PredictionSerialCallOK
  <2> QED BY <2>1, <2>2
<1>15. PredictionCallOK(next)'
  BY <1>6, <1>12, <1>13, <1>14, PredictionCallStays DEF PredictionsInv
<1>16. use.load = 1 => PredictionSerialCallOK(next)'
  BY <1>1, <1>12, <1>14 DEF PredictionSerialCallOK, Resolved, Kills
<1>17. history' \in Seq(ResolutionEntry)
  BY <1>1 DEF PredictionsInv, PredictionsTypes
<1>18. /\ PredictionsTypes' /\ \A d \in Calls : PredictionCallOK(calls[d])'
       /\ calls'[c] = next /\ \A d \in Calls \ {c} : calls'[d] = calls[d]
       /\ use'.load = 1 => OneCallInFlight' /\ \A d \in Calls : PredictionSerialCallOK(calls[d])'
  BY <1>0, <1>1, <1>12, <1>13, <1>14, <1>15, <1>16, <1>17, PredictionCallStep
<1>19. PredictionRowsOK'
  <2>1. \A q \in DOMAIN db'.predictions : db'.predictions[q].made < db'.predictions[q].end
    BY <1>12, <1>13, PredictionRowsStay
  <2>2. \A l \in DOMAIN db'.lessons : db'.lessons[l].prediction \in {0} \cup DOMAIN db'.predictions /\ db'.lessons[l].memo \in {0} \cup DOMAIN db'.memos
    <3>1. \A l \in DOMAIN db.lessons : db.lessons[l].prediction \in {0} \cup DOMAIN db.predictions /\ db.lessons[l].memo \in {0} \cup DOMAIN db.memos
      BY DEF PredictionsInv, PredictionRowsOK
    <3>2. lesson.prediction \in {0} \cup DOMAIN db.predictions /\ lesson.memo \in {0} \cup DOMAIN db.memos
      BY <1>3, <1>5
    <3> QED BY <1>10, <1>12, <3>1, <3>2
  <2>3. \A k \in DOMAIN db'.metrics : db'.metrics[k].at <= db'.now
    BY <1>12 DEF PredictionsInv, PredictionRowsOK
  <2>4. \A i \in DOMAIN history' :
          /\ history'[i].p \in DOMAIN db'.predictions /\ db'.predictions[history'[i].p].end <= history'[i].at
          /\ history'[i].at <= db'.now
          /\ history'[i].by = "sweep" => Seen(history[i].p, history[i].value, history[i].at)'
    BY <1>1, <1>6, <1>12, <1>13, PredictionRowsStay DEF Seen
  <2> QED BY <2>1, <2>2, <2>3, <2>4 DEF PredictionRowsOK
<1>20. ASSUME LessonsAreCounted PROVE LessonsAreCounted'
  <2>1. \A q : Off(q)' = Off(q)
    BY <1>1, <1>12 DEF Off, WasOff
  <2>2. ASSUME NEW q \in DOMAIN db'.predictions
        PROVE  Cardinality(LessonsOf(q)') + Cardinality(Coming(q)') = Cardinality(Off(q)')
    <3>1. Cardinality(LessonsOf(q)) + Cardinality(Coming(q)) = Cardinality(Off(q))
      BY <1>12, <1>20, <2>2, Zenon DEF LessonsAreCounted
    <3>2. q # 0
      BY <1>12, <2>2, PredictionRows DEF PredictionsInv
    <3>3. IsFiniteSet(LessonsOf(q)) /\ IsFiniteSet(Coming(q))
      <4>1. IsFiniteSet(DOMAIN db.lessons)
        BY <1>6, PredictionFiniteRows
      <4>2. IsFiniteSet(LessonsOf(q))
        BY <4>1, FS_Subset DEF LessonsOf
      <4>3. IsFiniteSet(Coming(q))
        BY PredictionCounts, FS_Subset DEF Coming, P!PredictionsConstants
      <4> QED BY <4>2, <4>3
    <3>4. CASE p = q
      <4>1. m = 0
        BY <1>3, <3>2, <3>4
      <4>2. LessonsOf(q)' = LessonsOf(q) \cup {n}
        BY <1>5, <1>10, <1>12, <3>4 DEF LessonsOf
      <4>3. Coming(q)' = Coming(q) \ {c} /\ c \in Coming(q)
        BY <1>0, <1>1, <1>2, <1>14, <1>18, <3>4, <4>1 DEF Coming
      <4>4. n \notin LessonsOf(q)
        BY <1>11 DEF LessonsOf
      <4>5. Cardinality(LessonsOf(q) \cup {n}) = Cardinality(LessonsOf(q)) + 1 /\ Cardinality(LessonsOf(q)) \in Nat
        BY <3>3, <4>4, FS_AddElement, FS_CardinalityType
      <4>6. Cardinality(Coming(q) \ {c}) = Cardinality(Coming(q)) - 1 /\ Cardinality(Coming(q)) \in Nat
        BY <3>3, <4>3, FS_RemoveElement, FS_CardinalityType
      <4> QED BY <2>1, <3>1, <4>2, <4>3, <4>5, <4>6
    <3>5. CASE p # q
      <4>1. LessonsOf(q)' = LessonsOf(q)
        BY <1>5, <1>10, <1>11, <1>12, <3>5 DEF LessonsOf
      <4>2. Coming(q)' = Coming(q)
        BY <1>0, <1>2, <1>14, <1>18, <3>5 DEF Coming
      <4> QED BY <2>1, <3>1, <4>1, <4>2
    <3> QED BY <3>4, <3>5
  <2> QED BY <2>2, Zenon DEF LessonsAreCounted
<1>21. KillsPause => KillsPause'
  BY <1>0, <1>1, <1>12, <1>18 DEF KillsPause, Kills
<1>22. ASSUME use.load = 1 PROVE PredictionSerialRowsOK'
  <2>1. PredictionSerialRowsOK
    BY <1>22 DEF PredictionsInv
  <2>2. \A l \in DOMAIN db'.lessons : db'.lessons[l].memo # 0 => db'.memos[db'.lessons[l].memo].decision = "REJECT"
    BY <1>3, <1>5, <1>10, <1>12, <1>22, <2>1 DEF PredictionSerialRowsOK
  <2> QED BY <1>1, <1>12, <2>1, <2>2 DEF PredictionSerialRowsOK, Kills, Resolved
<1> QED BY <1>1, <1>18, <1>19, <1>20, <1>21, <1>22 DEF PredictionsInv

-----------------------------------------------------------------------------
(* A step that leaves predictions, lessons and resolutions alone.          *)
LEMMA Elsewhere ==
  ASSUME P!PredictionsConstants, PredictionsInv, NEW c \in Calls, NEW next \in PredictionCall, P!GoTo(c, next), UNCHANGED <<use, history>>,
         calls[c].at \notin {"idle", "lesson"}, next.at # "lesson",
         db' \in PredictionTables, db'.now = db.now, db'.metrics = db.metrics, db'.predictions = db.predictions, db'.lessons = db.lessons,
         DOMAIN db'.memos = DOMAIN db.memos, DOMAIN db'.outcomes = DOMAIN db.outcomes,
         PredictionCallOK(next), use.load = 1 => PredictionSerialCallOK(next)'
  PROVE  /\ PredictionsTypes' /\ \A d \in Calls : PredictionCallOK(calls[d])'
         /\ calls'[c] = next /\ \A d \in Calls \ {c} : calls'[d] = calls[d]
         /\ use'.load = 1 => OneCallInFlight' /\ \A d \in Calls : PredictionSerialCallOK(calls[d])'
         /\ PredictionRowsOK' /\ (LessonsAreCounted => LessonsAreCounted')
<1>1. db.now \in Nat /\ history' \in Seq(ResolutionEntry)
  BY DEF PredictionsInv, PredictionsTypes, PredictionTables
<1>2. PredictionsGrown
  BY <1>1 DEF PredictionsGrown
<1>3. PredictionCallOK(next)'
  BY <1>1, <1>2, PredictionCallStays DEF PredictionsInv
<1>4. /\ PredictionsTypes' /\ \A d \in Calls : PredictionCallOK(calls[d])'
      /\ calls'[c] = next /\ \A d \in Calls \ {c} : calls'[d] = calls[d]
      /\ use'.load = 1 => OneCallInFlight' /\ \A d \in Calls : PredictionSerialCallOK(calls[d])'
  BY <1>1, <1>2, <1>3, PredictionCallStep
<1>5. PredictionRowsOK'
  BY DEF PredictionsInv, PredictionRowsOK, Seen
<1>6. LessonsAreCounted => LessonsAreCounted'
  <2>1. \A p : Coming(p)' = Coming(p)
    BY <1>4 DEF Coming
  <2>2. \A p : LessonsOf(p)' = LessonsOf(p) /\ Off(p)' = Off(p)
    BY DEF LessonsOf, Off, WasOff
  <2> QED BY <2>1, <2>2, Zenon DEF LessonsAreCounted
<1> QED BY <1>4, <1>5, <1>6

LEMMA PredictionDecisionInv ==
  ASSUME P!PredictionsConstants, PredictionsInv, NEW c \in Calls, NEW decision \in {"APPROVE", "REQUEST_CHANGES", "REJECT", "DEFER"},
         P!RecordHumanDecision(c, decision)
  PROVE  PredictionsInv'
<1>0. PICK call \in PredictionCall : call = calls[c] /\ PredictionCallOK(call) /\ (use.load = 1 => PredictionSerialCallOK(call))
  BY PredictionCallFacts
<1>1. /\ call.at = "memoWrite" /\ UNCHANGED <<use, history>>
      /\ db' = [db EXCEPT !.memos[call.m].decision = decision]
      /\ IF decision = "APPROVE" /\ db.memos[call.m].action \in P!ACTIONS_THAT_PAUSE_ON_APPROVAL
         THEN P!GoTo(c, [call EXCEPT !.at = "pauseRead"]) ELSE P!GoTo(c, P!Idle)
  BY <1>0 DEF P!RecordHumanDecision, P!Return
<1>2. PICK m \in Nat : m = call.m
  BY DEF PredictionCall
<1>3. m \in DOMAIN db.memos /\ (use.load = 1 => db.memos[m].decision = "none")
  BY <1>0, <1>1, <1>2 DEF PredictionCallOK, PredictionSerialCallOK
<1>4. PICK memo \in DecisionMemoRow : memo = db.memos[m]
  BY <1>3, PredictionRows DEF PredictionsInv
<1> DEFINE decided == [memo EXCEPT !.decision = decision]
<1>5. decided \in DecisionMemoRow /\ decided.decision = decision /\ decided.action = memo.action
  BY <1>4 DEF DecisionMemoRow
<1>6. db \in PredictionTables /\ db.memos \in Seq(DecisionMemoRow)
  BY DEF PredictionsInv, PredictionsTypes, PredictionTables
<1>7. [db.memos EXCEPT ![m] = decided] \in Seq(DecisionMemoRow)
  BY <1>3, <1>5, <1>6
<1>8. PICK memos \in Seq(DecisionMemoRow) : memos = [db.memos EXCEPT ![m] = decided]
  BY <1>7, Zenon
<1>9. /\ DOMAIN memos = DOMAIN db.memos /\ memos[m] = decided
      /\ \A q \in DOMAIN db.memos : q # m => memos[q] = db.memos[q]
  BY <1>3, <1>6, <1>8
<1>10. db' = [db EXCEPT !.memos = memos]
  BY <1>1, <1>2, <1>4, <1>6, <1>8 DEF PredictionTables
<1> HIDE DEF decided
<1>11. /\ db' \in PredictionTables /\ db'.now = db.now /\ db'.metrics = db.metrics /\ db'.predictions = db.predictions
       /\ db'.lessons = db.lessons /\ db'.outcomes = db.outcomes /\ db'.memos = memos /\ db'.product = db.product
  BY <1>6, <1>8, <1>10 DEF PredictionTables
<1>12. \A q \in DOMAIN db.memos : q # m => (Kills(q)' <=> Kills(q))
  BY <1>9, <1>11 DEF Kills
<1>13. PICK next \in PredictionCall :
         /\ P!GoTo(c, next) /\ PredictionCallOK(next) /\ next.at \in {"idle", "pauseRead"}
         /\ Kills(m)' => next.at = "pauseRead"
         /\ next.at = "pauseRead" => Kills(m)' /\ next.m = m /\ next.due = {}
  <2>1. CASE decision = "APPROVE" /\ db.memos[call.m].action \in P!ACTIONS_THAT_PAUSE_ON_APPROVAL
    <3> DEFINE next == [call EXCEPT !.at = "pauseRead"]
    <3>1. next \in PredictionCall /\ next.at = "pauseRead" /\ next.op = call.op /\ next.due = call.due /\ next.now = call.now /\ next.m = m
      BY <1>2 DEF PredictionCall, PredictionPlaces
    <3>2. P!GoTo(c, next)
      BY <1>1, <2>1
    <3> HIDE DEF next
    <3>3. Kills(m)'
      BY <1>2, <1>4, <1>5, <1>9, <1>11, <2>1 DEF Kills
    <3>4. call.due = {}
      BY <1>0, <1>1 DEF PredictionCallOK
    <3>5. PredictionCallOK(next)
      BY <1>0, <1>1, <1>3, <3>1, <3>4 DEF PredictionCallOK
    <3> QED BY <3>1, <3>2, <3>3, <3>4, <3>5
  <2>2. CASE ~(decision = "APPROVE" /\ db.memos[call.m].action \in P!ACTIONS_THAT_PAUSE_ON_APPROVAL)
    <3>1. ~Kills(m)'
      BY <1>2, <1>4, <1>5, <1>9, <1>11, <2>2 DEF Kills
    <3>2. P!GoTo(c, P!Idle)
      BY <1>1, <2>2
    <3> QED BY <3>1, <3>2, PredictionsIdle, PredictionIdleOK DEF PredictionsInv
  <2> QED BY <2>1, <2>2
<1>14. PredictionSerialCallOK(next)'
  <2>1. CASE next.at = "idle"
    <3>1. next.due = {}
      BY <1>13, <2>1 DEF PredictionCallOK
    <3> QED BY <2>1, <3>1 DEF PredictionSerialCallOK
  <2>2. CASE next.at = "pauseRead"
    BY <1>13, <2>2 DEF PredictionSerialCallOK
  <2> QED BY <1>13, <2>1, <2>2
<1>15. /\ PredictionsTypes' /\ \A d \in Calls : PredictionCallOK(calls[d])'
       /\ calls'[c] = next /\ \A d \in Calls \ {c} : calls'[d] = calls[d]
       /\ use'.load = 1 => OneCallInFlight' /\ \A d \in Calls : PredictionSerialCallOK(calls[d])'
       /\ PredictionRowsOK' /\ (LessonsAreCounted => LessonsAreCounted')
  BY <1>0, <1>1, <1>9, <1>11, <1>13, <1>14, Elsewhere
<1>16. KillsPause => KillsPause'
  <2>1. ASSUME KillsPause, NEW q \in DOMAIN db'.memos, Kills(q)'
        PROVE  db'.product = "PAUSED" \/ \E d \in Calls : calls'[d].at \in {"pauseRead", "pause"}
    <3>1. CASE q = m
      BY <1>13, <1>15, <2>1, <3>1
    <3>2. CASE q # m
      <4>1. db.product = "PAUSED" \/ \E d \in Calls : calls[d].at \in {"pauseRead", "pause"}
        BY <1>9, <1>11, <1>12, <2>1, <3>2 DEF KillsPause
      <4> QED BY <1>0, <1>1, <1>11, <1>15, <4>1
    <3> QED BY <3>1, <3>2
  <2> QED BY <2>1 DEF KillsPause
<1>17. ASSUME use.load = 1 PROVE PredictionSerialRowsOK'
  <2>1. PredictionSerialRowsOK /\ ~Kills(m)
    BY <1>3, <1>17 DEF PredictionsInv, Kills
  <2>2. db'.product = "PAUSED" => \E q \in DOMAIN db'.memos : Kills(q)'
    BY <1>9, <1>11, <1>12, <2>1 DEF PredictionSerialRowsOK
  <2>3. \A l \in DOMAIN db'.lessons : db'.lessons[l].memo # 0 => db'.memos[db'.lessons[l].memo].decision = "REJECT"
    <3>1. \A l \in DOMAIN db.lessons : db.lessons[l].memo # 0 => db.lessons[l].memo \in DOMAIN db.memos /\ db.memos[db.lessons[l].memo].decision = "REJECT"
      BY <2>1 DEF PredictionSerialRowsOK, PredictionsInv, PredictionRowsOK
    <3> QED BY <1>3, <1>9, <1>11, <1>17, <3>1
  <2>4. \A q : Resolved(q)' <=> Resolved(q)
    BY <1>1 DEF Resolved
  <2> QED BY <1>1, <1>11, <2>1, <2>2, <2>3, <2>4 DEF PredictionSerialRowsOK
<1> QED BY <1>1, <1>15, <1>16, <1>17 DEF PredictionsInv

LEMMA PauseInv ==
  ASSUME P!PredictionsConstants, PredictionsInv, NEW c \in Calls, P!Pause(c)
  PROVE  PredictionsInv'
<1>0. PICK call \in PredictionCall : call = calls[c] /\ PredictionCallOK(call) /\ (use.load = 1 => PredictionSerialCallOK(call))
  BY PredictionCallFacts
<1>1. /\ call.at = "pause" /\ UNCHANGED <<use, history>> /\ P!GoTo(c, P!Idle)
      /\ db' = [db EXCEPT !.product = "PAUSED"]
  BY <1>0 DEF P!Pause, P!Return
<1>2. db \in PredictionTables
  BY DEF PredictionsInv, PredictionsTypes
<1>3. /\ db' \in PredictionTables /\ db'.now = db.now /\ db'.metrics = db.metrics /\ db'.predictions = db.predictions
      /\ db'.lessons = db.lessons /\ db'.outcomes = db.outcomes /\ db'.memos = db.memos /\ db'.product = "PAUSED"
  BY <1>1, <1>2 DEF PredictionTables
<1>4. call.m \in DOMAIN db.memos /\ (use.load = 1 => Kills(call.m))
  BY <1>0, <1>1 DEF PredictionCallOK, PredictionSerialCallOK
<1>5. PredictionSerialCallOK(P!Idle)'
  BY PredictionsIdle DEF PredictionSerialCallOK
<1>6. /\ PredictionsTypes' /\ \A d \in Calls : PredictionCallOK(calls[d])'
      /\ use'.load = 1 => OneCallInFlight' /\ \A d \in Calls : PredictionSerialCallOK(calls[d])'
      /\ PredictionRowsOK' /\ (LessonsAreCounted => LessonsAreCounted')
  BY <1>0, <1>1, <1>3, <1>5, PredictionsIdle, PredictionIdleOK, Elsewhere DEF PredictionsInv
<1>7. KillsPause'
  BY <1>3 DEF KillsPause
<1>8. ASSUME use.load = 1 PROVE PredictionSerialRowsOK'
  BY <1>1, <1>3, <1>4, <1>8 DEF PredictionsInv, PredictionSerialRowsOK, Resolved, Kills
<1> QED BY <1>1, <1>6, <1>7, <1>8 DEF PredictionsInv

LEMMA EvaluateExpectationInv ==
  ASSUME P!PredictionsConstants, PredictionsInv, NEW c \in Calls, NEW lesson \in {0} \cup DOMAIN db.lessons, P!Evaluate(c, lesson)
  PROVE  PredictionsInv'
<1>0. PICK call \in PredictionCall : call = calls[c] /\ PredictionCallOK(call)
  BY PredictionCallFacts
<1>1. /\ call.at = "evaluate" /\ UNCHANGED <<use, history>> /\ P!GoTo(c, P!Idle)
      /\ db' = [db EXCEPT !.outcomes[call.o] = [actual |-> call.value, lesson |-> lesson]]
  BY <1>0 DEF P!Evaluate, P!Return
<1>2. PICK o \in DOMAIN db.outcomes, value \in Int, l \in Nat : o = call.o /\ value = call.value /\ l = lesson
  BY <1>0, <1>1, PredictionRows DEF PredictionCallOK, PredictionCall, PredictionsInv
<1>3. db \in PredictionTables /\ db.outcomes \in Seq(ExpectationRow)
  BY DEF PredictionsInv, PredictionsTypes, PredictionTables
<1>4. PICK outcome \in ExpectationRow : outcome = [actual |-> value, lesson |-> l]
  BY <1>2, Zenon DEF ExpectationRow
<1>5. [db.outcomes EXCEPT ![o] = outcome] \in Seq(ExpectationRow)
  BY <1>2, <1>3, <1>4
<1>6. PICK outcomes \in Seq(ExpectationRow) : outcomes = [db.outcomes EXCEPT ![o] = outcome]
  BY <1>5, Zenon
<1>7. DOMAIN outcomes = DOMAIN db.outcomes
  BY <1>2, <1>3, <1>6
<1>8. db' = [db EXCEPT !.outcomes = outcomes]
  BY <1>1, <1>2, <1>3, <1>4, <1>6 DEF PredictionTables
<1>9. /\ db' \in PredictionTables /\ db'.now = db.now /\ db'.metrics = db.metrics /\ db'.predictions = db.predictions
      /\ db'.lessons = db.lessons /\ db'.outcomes = outcomes /\ db'.memos = db.memos /\ db'.product = db.product
  BY <1>3, <1>6, <1>8 DEF PredictionTables
<1>10. PredictionSerialCallOK(P!Idle)'
  BY PredictionsIdle DEF PredictionSerialCallOK
<1>11. /\ PredictionsTypes' /\ \A d \in Calls : PredictionCallOK(calls[d])'
       /\ calls'[c] = P!Idle /\ \A d \in Calls \ {c} : calls'[d] = calls[d]
       /\ use'.load = 1 => OneCallInFlight' /\ \A d \in Calls : PredictionSerialCallOK(calls[d])'
       /\ PredictionRowsOK' /\ (LessonsAreCounted => LessonsAreCounted')
  BY <1>0, <1>1, <1>7, <1>9, <1>10, PredictionsIdle, PredictionIdleOK, Elsewhere DEF PredictionsInv
<1>12. KillsPause => KillsPause'
  BY <1>0, <1>1, <1>9, <1>11 DEF KillsPause, Kills
<1>13. ASSUME use.load = 1 PROVE PredictionSerialRowsOK'
  BY <1>1, <1>9, <1>13 DEF PredictionsInv, PredictionSerialRowsOK, Resolved, Kills
<1> QED BY <1>1, <1>11, <1>12, <1>13 DEF PredictionsInv

LEMMA PredictionRestartInv ==
  ASSUME P!PredictionsConstants, PredictionsInv, P!Restart
  PROVE  PredictionsInv'
<1>1. /\ use.crashes > 0 /\ use' = [use EXCEPT !.crashes = use.crashes - 1] /\ calls' = [c \in Calls |-> P!Idle]
      /\ UNCHANGED <<db, history>>
  BY DEF P!Restart
<1>2. use \in P!Use /\ use.crashes <= use.restarts /\ use.crashes \in Nat /\ use.restarts \in Nat
  BY DEF PredictionsInv, PredictionsTypes, P!Use
<1>3. PICK left \in Nat : left = use.crashes - 1 /\ left < use.restarts
  BY <1>1, <1>2
<1>4. /\ use' \in P!Use /\ use'.crashes = left /\ use'.restarts = use.restarts /\ use'.load = use.load /\ use'.values = use.values
      /\ use'.types = use.types
  BY <1>1, <1>2, <1>3 DEF P!Use
<1>5. use'.crashes <= use'.restarts /\ use'.restarts # use'.crashes
  BY <1>2, <1>3, <1>4
<1>6. PredictionsTypes'
  BY <1>1, <1>4, <1>5, PredictionsIdle DEF PredictionsInv, PredictionsTypes
<1>7. PredictionCallOK(P!Idle)' /\ PredictionSerialCallOK(P!Idle)'
  BY <1>1, PredictionIdleOK DEF PredictionsInv, PredictionCallOK, PredictionSerialCallOK, Seen, Resolved, Kills
<1>8. \A c \in Calls : PredictionCallOK(calls[c])' /\ PredictionSerialCallOK(calls[c])'
  BY <1>1, <1>7
<1>9. PredictionRowsOK'
  BY <1>1 DEF PredictionsInv, PredictionRowsOK, Seen
<1>10. ASSUME use'.load = 1 PROVE OneCallInFlight' /\ PredictionSerialRowsOK'
  <2>1. OneCallInFlight'
    BY <1>1, PredictionsIdle DEF OneCallInFlight
  <2> QED BY <1>1, <1>4, <1>10, <2>1 DEF PredictionsInv, PredictionSerialRowsOK, Resolved, Kills
<1> QED BY <1>5, <1>6, <1>8, <1>9, <1>10 DEF PredictionsInv

LEMMA PredictionsInitInv ==
  ASSUME P!PredictionsConstants, P!PredictionsInit
  PROVE  PredictionsInv
<1>1. use \in P!Use /\ use.crashes = use.restarts /\ use.restarts \in Nat
  BY DEF P!PredictionsInit, P!PredictionsConstants, P!Use
<1> DEFINE NewMemos == [action : STRING, decision : {"none"}]
<1>2. use.memos \in Seq(DecisionMemoRow) /\ \A m \in DOMAIN use.memos : use.memos[m].decision = "none"
  <2>1. use.memos \in Seq(NewMemos)
    BY <1>1 DEF P!Use
  <2>2. \A memo \in NewMemos : memo \in DecisionMemoRow /\ memo.decision = "none"
    BY DEF DecisionMemoRow
  <2> HIDE DEF NewMemos
  <2>3. PICK n \in Nat : n = Len(use.memos)
    BY <2>1
  <2>4. DOMAIN use.memos = 1 .. n /\ use.memos \in [1 .. n -> NewMemos]
    BY <2>1, <2>3
  <2>5. use.memos \in [1 .. n -> DecisionMemoRow]
    BY <2>2, <2>4
  <2>6. use.memos \in Seq(DecisionMemoRow)
    BY <2>5
  <2> QED BY <2>2, <2>4, <2>6
<1>4. /\ db = [now |-> 0, predictions |-> <<>>, metrics |-> <<>>, lessons |-> <<>>, outcomes |-> <<>>, memos |-> use.memos, product |-> "LIVE"]
      /\ calls = [c \in Calls |-> P!Idle] /\ history = <<>>
  BY DEF P!PredictionsInit
<1>5. db \in PredictionTables /\ db.product = "LIVE" /\ db.predictions = <<>> /\ db.metrics = <<>> /\ db.lessons = <<>> /\ db.memos = use.memos
  BY <1>2, <1>4 DEF PredictionTables
<1>6. PredictionsTypes
  BY <1>1, <1>4, <1>5, PredictionsIdle DEF PredictionsTypes
<1>7. \A c \in Calls : calls[c].at = "idle" /\ PredictionCallOK(calls[c]) /\ PredictionSerialCallOK(calls[c])
  BY <1>4, <1>6, PredictionsIdle, PredictionIdleOK
<1>8. PredictionRowsOK
  BY <1>4, <1>5 DEF PredictionRowsOK
<1>9. LessonsAreCounted
  BY <1>5 DEF LessonsAreCounted
<1>10. KillsPause
  BY <1>2, <1>5 DEF KillsPause, Kills
<1>11. OneCallInFlight
  BY <1>7 DEF OneCallInFlight
<1>12. PredictionSerialRowsOK
  BY <1>4, <1>5 DEF PredictionSerialRowsOK
<1> QED BY <1>6, <1>7, <1>8, <1>9, <1>10, <1>11, <1>12 DEF PredictionsInv

LEMMA PredictionsNextInv ==
  ASSUME P!PredictionsConstants, PredictionsInv, P!PredictionsNext \/ UNCHANGED P!vars
  PROVE  PredictionsInv'
<1>1. CASE P!PredictionsNext
  <2>1. ASSUME NEW c \in Calls, P!Step(c) PROVE PredictionsInv'
    BY <2>1, SweepCandidatesInv, ResolveReadInv, ResolveWriteInv, CreateLessonInv, PredictionDecisionInv, PauseReadInv, PauseInv,
       EvaluateExpectationInv DEF P!Step
  <2>2. ASSUME NEW c \in Calls, P!Request(c) PROVE PredictionsInv'
    BY <2>2, ResolveAllDueInv, ResolveInv, MemoRequests, EvaluateOutcomeInv DEF P!Request
  <2>3. CASE P!Restart
    BY <2>3, PredictionRestartInv
  <2>4. CASE \/ \E type \in use.types, value \in use.values : P!RecordMetric(type, value) \/ \E end \in 0 .. MaxTime : P!Record(type, value, end)
             \/ P!RecordExpectation \/ P!Tick
    BY <2>4, AsideSteps
  <2> QED BY <1>1, <2>1, <2>2, <2>3, <2>4 DEF P!PredictionsNext
<1>2. CASE UNCHANGED P!vars
  <2>1. UNCHANGED <<use, db, calls, history>>
    BY <1>2 DEF P!vars
  <2>2. PredictionsTypes' /\ PredictionRowsOK' /\ \A c \in Calls : PredictionCallOK(calls[c])'
    BY <2>1 DEF PredictionsInv, PredictionsTypes, PredictionRowsOK, PredictionCallOK, Seen
  <2>3. use'.restarts = use'.crashes => LessonsAreCounted' /\ KillsPause'
    BY <2>1 DEF PredictionsInv, LessonsAreCounted, LessonsOf, Coming, Off, WasOff, KillsPause, Kills
  <2>4. use'.load = 1 => OneCallInFlight' /\ PredictionSerialRowsOK' /\ \A c \in Calls : PredictionSerialCallOK(calls[c])'
    BY <2>1 DEF PredictionsInv, OneCallInFlight, PredictionSerialRowsOK, PredictionSerialCallOK, Kills, Resolved
  <2> QED BY <2>2, <2>3, <2>4 DEF PredictionsInv
<1> QED BY <1>1, <1>2

LEMMA PredictionsInvImplies ==
  ASSUME P!PredictionsConstants, PredictionsInv
  PROVE  P!PredictionsAreNotBackdated /\ P!BadPredictionsAreLessons /\ P!MemoDecisionsTakeEffect
<1>1. P!PredictionsAreNotBackdated
  BY DEF PredictionsInv, PredictionRowsOK, Seen, P!PredictionsAreNotBackdated
<1>2. P!BadPredictionsAreLessons
  <2>1. ASSUME use.restarts = use.crashes, NEW p \in DOMAIN db.predictions
        PROVE  Cardinality({l \in DOMAIN db.lessons : db.lessons[l].prediction = p})
                 + Cardinality({c \in Calls : calls[c].at = "lesson" /\ calls[c].m = 0 /\ calls[c].p = p})
               = Cardinality({i \in {j \in DOMAIN history :
                                       P!ShouldGenerateLearningRecord(db.predictions[history[j].p].value, history[j].value)} :
                                history[i].p = p})
    <3>1. Cardinality(LessonsOf(p)) + Cardinality(Coming(p)) = Cardinality(Off(p))
      BY <2>1, Zenon DEF PredictionsInv, LessonsAreCounted
    <3>2. Off(p) = {i \in {j \in DOMAIN history :
                             P!ShouldGenerateLearningRecord(db.predictions[history[j].p].value, history[j].value)} :
                      history[i].p = p}
      BY DEF Off, WasOff
    <3> QED BY <3>1, <3>2 DEF LessonsOf, Coming
  <2>2. use.load = 1 => \A i, j \in DOMAIN history : history[i].p = history[j].p /\ history[j].by = "sweep" => i >= j
    BY DEF PredictionsInv, PredictionSerialRowsOK
  <2> QED BY <2>1, <2>2, PredictionCounts DEF P!BadPredictionsAreLessons
<1>3. P!MemoDecisionsTakeEffect
  BY DEF PredictionsInv, KillsPause, Kills, PredictionSerialRowsOK, P!MemoDecisionsTakeEffect
<1> QED BY <1>1, <1>2, <1>3

-----------------------------------------------------------------------------
(* Discovery memos.                                                        *)

LEMMA DiscoveryCounts == \A S : (V!IsFiniteSet(S) <=> IsFiniteSet(S)) /\ V!Cardinality(S) = Cardinality(S)
BY DEF V!IsFiniteSet, IsFiniteSet, V!Cardinality, Cardinality

(* The decision on a discovery memo and what is announced of it.           *)
DiscoveryMemoRow == [decision : {"none"} \cup V!CUSTOMER_DISCOVERY_HUMAN_DECISIONS, validated : BOOLEAN]
DiscoveryMemoPlaces == {"decide", "announce"}
DiscoveryShaped(call) == {"at", "m", "decision"} \subseteq DOMAIN call

DiscoveryTypes ==
  /\ {"load", "crashes", "restarts"} \subseteq DOMAIN use
  /\ use.load \in Nat /\ use.restarts \in Nat /\ use.crashes \in Nat /\ use.crashes <= use.restarts
  /\ "memos" \in DOMAIN db /\ db.memos \in Seq(DiscoveryMemoRow)
  /\ DOMAIN calls = Calls /\ \A c \in Calls : DiscoveryShaped(calls[c])
  /\ \A c \in Calls : calls[c].at = "decide" => calls[c].decision \in V!CUSTOMER_DISCOVERY_HUMAN_DECISIONS

Announcing(m) == \E c \in Calls : calls[c].at = "announce" /\ calls[c].m = m

MemosOK ==
  \A m \in DOMAIN db.memos :
    /\ db.memos[m].validated => db.memos[m].decision = "APPROVE"
    /\ db.memos[m].decision = "APPROVE" /\ use.restarts = use.crashes => db.memos[m].validated \/ Announcing(m)
MemoCallOK(call) ==
  /\ call.at \in DiscoveryMemoPlaces => call.m \in DOMAIN db.memos
  /\ call.at = "decide" => db.memos[call.m].decision = "none"
  /\ call.at = "announce" => db.memos[call.m].decision = "APPROVE"

DiscoveryInv ==
  /\ DiscoveryTypes
  /\ use.load = 1 => OneCallInFlight /\ MemosOK /\ \A c \in Calls : MemoCallOK(calls[c])

-----------------------------------------------------------------------------
LEMMA DiscoveryIdle == DiscoveryShaped(V!Idle) /\ V!Idle.at = "idle"
BY DEF V!Idle, DiscoveryShaped

LEMMA DiscoveryMayFacts ==
  ASSUME V!DiscoveryConstants, DiscoveryTypes, NEW op, V!May(op)
  PROVE  /\ use.load = 1 => \A d \in Calls : calls[d].at = "idle"
         /\ DOMAIN use' = DOMAIN use /\ use'.load = use.load /\ use'.crashes = use.crashes /\ use'.restarts = use.restarts
<1> DEFINE busy == {d \in Calls : calls[d].at # "idle"}
<1>1. IsFiniteSet(busy)
  BY DiscoveryCounts, FS_Subset DEF V!DiscoveryConstants
<1>2. Cardinality(busy) < use.load
  BY DiscoveryCounts DEF V!May
<1>3. Cardinality(busy) \in Nat
  BY <1>1, FS_CardinalityType
<1>4. use.load = 1 => Cardinality(busy) = 0
  BY <1>2, <1>3
<1>5. Cardinality(busy) = 0 => busy = {}
  BY <1>1, FS_EmptySet
<1>6. DOMAIN use' = DOMAIN use /\ use'.load = use.load /\ use'.crashes = use.crashes /\ use'.restarts = use.restarts
  BY DEF V!May, DiscoveryTypes
<1> QED BY <1>4, <1>5, <1>6

UseKept == DOMAIN use' = DOMAIN use /\ use'.load = use.load /\ use'.crashes = use.crashes /\ use'.restarts = use.restarts

LEMMA DiscoveryFaultFacts ==
  ASSUME DiscoveryTypes, V!Fault \/ UNCHANGED use
  PROVE  UseKept
BY DEF V!Fault, DiscoveryTypes, UseKept

(* A step that has nothing to do with memos.                               *)
LEMMA NoMemo ==
  ASSUME DiscoveryInv, UseKept, "memos" \in DOMAIN db', db'.memos = db.memos,
         NEW c \in Calls, NEW next, V!GoTo(c, next), DiscoveryShaped(next), next.at \notin DiscoveryMemoPlaces, calls[c].at \notin DiscoveryMemoPlaces,
         calls[c].at # "idle" \/ (use.load = 1 => \A d \in Calls : calls[d].at = "idle")
  PROVE  DiscoveryInv'
<1>1. DOMAIN calls' = Calls /\ calls'[c] = next /\ \A d \in Calls \ {c} : calls'[d] = calls[d]
  BY DEF V!GoTo, DiscoveryInv, DiscoveryTypes
<1>2. DiscoveryTypes'
  BY <1>1 DEF DiscoveryInv, DiscoveryTypes, UseKept, DiscoveryShaped, DiscoveryMemoPlaces
<1>3. ASSUME use.load = 1 PROVE OneCallInFlight' /\ MemosOK' /\ \A d \in Calls : MemoCallOK(calls[d])'
  <2>1. \A d \in Calls \ {c} : calls'[d].at = "idle"
    BY <1>1, <1>3 DEF DiscoveryInv, OneCallInFlight
  <2>2. OneCallInFlight'
    BY <1>1, <2>1 DEF OneCallInFlight
  <2>3. \A d \in Calls : MemoCallOK(calls[d])'
    BY <1>1, <2>1 DEF MemoCallOK, DiscoveryMemoPlaces
  <2>4. \A m : Announcing(m) => Announcing(m)'
    BY <1>1 DEF Announcing, DiscoveryMemoPlaces
  <2>5. MemosOK'
    BY <1>3, <2>4 DEF DiscoveryInv, MemosOK, UseKept
  <2> QED BY <2>2, <2>3, <2>5
<1> QED BY <1>2, <1>3 DEF DiscoveryInv, UseKept

LEMMA NoDiscoveryCall ==
  ASSUME DiscoveryInv, UseKept, "memos" \in DOMAIN db', db'.memos = db.memos, UNCHANGED calls
  PROVE  DiscoveryInv'
<1>1. DiscoveryTypes'
  BY DEF DiscoveryInv, DiscoveryTypes, UseKept, DiscoveryShaped
<1>2. use.load = 1 => OneCallInFlight' /\ MemosOK' /\ \A d \in Calls : MemoCallOK(calls[d])'
  BY DEF DiscoveryInv, OneCallInFlight, MemosOK, MemoCallOK, Announcing, UseKept
<1> QED BY <1>1, <1>2 DEF DiscoveryInv, UseKept

LEMMA DiscoveryMemoStays ==
  ASSUME DiscoveryTypes, NEW field, NEW value, field # "memos", db' = [db EXCEPT ![field] = value]
  PROVE  "memos" \in DOMAIN db' /\ db'.memos = db.memos
BY DEF DiscoveryTypes

LEMMA EvidenceSteps ==
  ASSUME DiscoveryInv, NEW c \in Calls,
         V!CollectEvidence(c) \/ V!AttachEvidence(c) \/ V!CreateCustomerEvidence(c) \/ V!MarkPromoted(c) \/ V!ListForInteraction(c) \/ V!Answer(c)
  PROVE  DiscoveryInv'
<1>1. PICK call : call = calls[c] /\ DiscoveryShaped(call)
  BY DEF DiscoveryInv, DiscoveryTypes
<1>2. DiscoveryTypes
  BY DEF DiscoveryInv
<1>3. UseKept
  BY DiscoveryFaultFacts DEF DiscoveryInv, V!CollectEvidence, V!AttachEvidence, V!CreateCustomerEvidence, V!MarkPromoted, V!ListForInteraction, V!Answer
<1>4. "memos" \in DOMAIN db' /\ db'.memos = db.memos
  BY <1>2 DEF DiscoveryTypes, V!CollectEvidence, V!AttachEvidence, V!CreateCustomerEvidence, V!MarkPromoted, V!ListForInteraction, V!Answer
<1>5. \E next : V!GoTo(c, next) /\ DiscoveryShaped(next) /\ next.at \in {"attach", "wrap", "promote", "idle", "gather", "answer"}
  <2>1. CASE V!CollectEvidence(c)
    <3>1. PICK row : row = Len(db.evidence) + 1
      OBVIOUS
    <3> DEFINE next == [call EXCEPT !.at = "attach", !.e = row]
    <3>2. DiscoveryShaped(next) /\ next.at = "attach"
      BY <1>1 DEF DiscoveryShaped
    <3>3. V!GoTo(c, next)
      BY <1>1, <2>1, <3>1 DEF V!CollectEvidence
    <3> HIDE DEF next
    <3> QED BY <3>2, <3>3
  <2>2. CASE V!AttachEvidence(c)
    BY <1>1, <2>2 DEF V!AttachEvidence, DiscoveryShaped
  <2>3. CASE V!CreateCustomerEvidence(c)
    BY <1>1, <2>3 DEF V!CreateCustomerEvidence, DiscoveryShaped
  <2>4. CASE V!MarkPromoted(c) \/ V!Answer(c)
    BY <2>4, DiscoveryIdle DEF V!MarkPromoted, V!Answer, V!Return
  <2>5. CASE V!ListForInteraction(c)
    <3>1. CASE call.todo = <<>>
      <4> DEFINE next == [call EXCEPT !.at = "answer"]
      <4>1. DiscoveryShaped(next) /\ next.at = "answer"
        BY <1>1 DEF DiscoveryShaped
      <4>2. V!GoTo(c, next)
        BY <1>1, <2>5, <3>1 DEF V!ListForInteraction
      <4> HIDE DEF next
      <4> QED BY <4>1, <4>2
    <3>2. CASE call.todo # <<>>
      <4> DEFINE next == [call EXCEPT !.todo = Tail(call.todo), !.read = call.read \cup V!FindingsOf(Head(call.todo))]
      <4>1. DiscoveryShaped(next) /\ next.at = "gather"
        BY <1>1, <2>5 DEF V!ListForInteraction, DiscoveryShaped
      <4>2. V!GoTo(c, next)
        BY <1>1, <2>5, <3>2 DEF V!ListForInteraction
      <4> HIDE DEF next
      <4> QED BY <4>1, <4>2
    <3> QED BY <3>1, <3>2
  <2> QED BY <2>1, <2>2, <2>3, <2>4, <2>5
<1>6. calls[c].at \in {"collect", "attach", "wrap", "promote", "gather", "answer"}
  BY DEF V!CollectEvidence, V!AttachEvidence, V!CreateCustomerEvidence, V!MarkPromoted, V!ListForInteraction, V!Answer
<1> QED BY <1>3, <1>4, <1>5, <1>6, NoMemo DEF DiscoveryMemoPlaces


LEMMA ProfileSteps ==
  ASSUME DiscoveryInv, NEW c \in Calls,
         V!CreateProfile(c) \/ V!WireRead(c) \/ V!WireField(c) \/ V!WireEnd(c) \/ V!FindAgent(c) \/ V!CreateAgent(c) \/ V!GrantReadWeb(c) \/ V!FindProfile(c)
  PROVE  DiscoveryInv'
<1>1. PICK call : call = calls[c] /\ DiscoveryShaped(call)
  BY DEF DiscoveryInv, DiscoveryTypes
<1>2. DiscoveryTypes
  BY DEF DiscoveryInv
<1>3. UseKept
  BY DiscoveryFaultFacts, <1>2 DEF V!CreateProfile, V!WireRead, V!WireField, V!WireEnd, V!FindAgent, V!CreateAgent, V!GrantReadWeb, V!FindProfile
<1>4. "memos" \in DOMAIN db' /\ db'.memos = db.memos
  BY <1>2 DEF DiscoveryTypes, V!CreateProfile, V!WireRead, V!WireField, V!WireEnd, V!FindAgent, V!CreateAgent, V!GrantReadWeb, V!FindProfile
<1>5. \E next : V!GoTo(c, next) /\ DiscoveryShaped(next) /\ next.at \in {"profile", "wireRead", "wire", "idle", "research", "agents", "findProfile", "grant", "createAgent"}
  <2>1. CASE V!CreateProfile(c)
    <3>1. PICK row : row = Len(db.profiles) + 1
      OBVIOUS
    <3> DEFINE next == [call EXCEPT !.at = "wireRead", !.i = row]
    <3>2. DiscoveryShaped(next) /\ next.at = "wireRead"
      BY <1>1 DEF DiscoveryShaped
    <3>3. V!GoTo(c, next)
      BY <1>1, <2>1, <3>1 DEF V!CreateProfile
    <3> HIDE DEF next
    <3> QED BY <3>2, <3>3
  <2>2. CASE V!WireRead(c)
    <3>1. PICK known, todo : known = Len(db.claims) /\ todo = <<"role", "problemExposure", "likelyFrequency">>
      OBVIOUS
    <3> DEFINE next == [call EXCEPT !.at = "wire", !.known = known, !.todo = todo]
    <3>2. DiscoveryShaped(next) /\ next.at = "wire"
      BY <1>1 DEF DiscoveryShaped
    <3>3. V!GoTo(c, next)
      BY <1>1, <2>2, <3>1 DEF V!WireRead
    <3> HIDE DEF next
    <3> QED BY <3>2, <3>3
  <2>3. CASE V!WireField(c)
    <3> DEFINE next == [call EXCEPT !.todo = Tail(call.todo)]
    <3>2. DiscoveryShaped(next) /\ next.at = "wire"
      BY <1>1, <2>3 DEF DiscoveryShaped, V!WireField
    <3>3. V!GoTo(c, next)
      BY <1>1, <2>3 DEF V!WireField
    <3> HIDE DEF next
    <3> QED BY <3>2, <3>3
  <2>4. CASE V!WireEnd(c)
    <3> DEFINE next == [V!Idle EXCEPT !.at = "research", !.op = "run"]
    <3>2. DiscoveryShaped(next) /\ next.at = "research"
      BY DiscoveryIdle DEF DiscoveryShaped
    <3>3. V!GoTo(c, next) \/ V!GoTo(c, V!Idle)
      BY <2>4 DEF V!WireEnd, V!Return
    <3> HIDE DEF next
    <3> QED BY <3>2, <3>3, DiscoveryIdle
  <2>5. CASE V!FindAgent(c)
    <3> DEFINE granted == [call EXCEPT !.at = "findProfile"]
               grant == [call EXCEPT !.at = "grant"]
               found == [call EXCEPT !.todo = Tail(call.todo)]
               missing == [call EXCEPT !.at = "createAgent"]
    <3>1. /\ DiscoveryShaped(granted) /\ granted.at = "findProfile" /\ DiscoveryShaped(grant) /\ grant.at = "grant"
          /\ DiscoveryShaped(found) /\ found.at = "agents" /\ DiscoveryShaped(missing) /\ missing.at = "createAgent"
      BY <1>1, <2>5 DEF DiscoveryShaped, V!FindAgent
    <3>2. V!GoTo(c, granted) \/ V!GoTo(c, grant) \/ V!GoTo(c, found) \/ V!GoTo(c, missing)
      <4>1. CASE call.todo = <<>>
        BY <1>1, <2>5, <4>1 DEF V!FindAgent
      <4>2. CASE call.todo # <<>> /\ V!Registered(Head(call.todo))
        BY <1>1, <2>5, <4>2 DEF V!FindAgent
      <4>3. CASE call.todo # <<>> /\ ~V!Registered(Head(call.todo))
        BY <1>1, <2>5, <4>3 DEF V!FindAgent
      <4> QED BY <4>1, <4>2, <4>3
    <3> HIDE DEF granted, grant, found, missing
    <3> QED BY <3>1, <3>2
  <2>6. CASE V!CreateAgent(c)
    <3> DEFINE next == [call EXCEPT !.at = "agents", !.todo = Tail(call.todo)]
    <3>2. DiscoveryShaped(next) /\ next.at = "agents"
      BY <1>1 DEF DiscoveryShaped
    <3>3. V!GoTo(c, next)
      BY <1>1, <2>6 DEF V!CreateAgent
    <3> HIDE DEF next
    <3> QED BY <3>2, <3>3
  <2>7. CASE V!GrantReadWeb(c)
    <3> DEFINE next == [call EXCEPT !.at = "findProfile"]
    <3>2. DiscoveryShaped(next) /\ next.at = "findProfile"
      BY <1>1 DEF DiscoveryShaped
    <3>3. V!GoTo(c, next)
      BY <1>1, <2>7 DEF V!GrantReadWeb
    <3> HIDE DEF next
    <3> QED BY <3>2, <3>3
  <2>8. CASE V!FindProfile(c)
    <3>1. CASE V!GoTo(c, [calls[c] EXCEPT !.at = "research"])
      <4> DEFINE next == [call EXCEPT !.at = "research"]
      <4>2. DiscoveryShaped(next) /\ next.at = "research"
        BY <1>1 DEF DiscoveryShaped
      <4>3. V!GoTo(c, next)
        BY <1>1, <3>1
      <4> HIDE DEF next
      <4> QED BY <4>2, <4>3
    <3>2. CASE \E profile : V!GoTo(c, [calls[c] EXCEPT !.at = "profile", !.profile = profile])
      <4>1. PICK profile : V!GoTo(c, [calls[c] EXCEPT !.at = "profile", !.profile = profile])
        BY <3>2
      <4> DEFINE next == [call EXCEPT !.at = "profile", !.profile = profile]
      <4>2. DiscoveryShaped(next) /\ next.at = "profile"
        BY <1>1 DEF DiscoveryShaped
      <4>3. V!GoTo(c, next)
        BY <1>1, <4>1
      <4> HIDE DEF next
      <4> QED BY <4>2, <4>3
    <3> QED BY <2>8, <3>1, <3>2 DEF V!FindProfile
  <2> QED BY <2>1, <2>2, <2>3, <2>4, <2>5, <2>6, <2>7, <2>8
<1>6. calls[c].at \in {"profile", "wireRead", "wire", "agents", "createAgent", "grant", "findProfile"}
  BY DEF V!CreateProfile, V!WireRead, V!WireField, V!WireEnd, V!FindAgent, V!CreateAgent, V!GrantReadWeb, V!FindProfile
<1> QED BY <1>3, <1>4, <1>5, <1>6, NoMemo DEF DiscoveryMemoPlaces

LEMMA DiscoveryResearchSteps ==
  ASSUME DiscoveryInv, NEW c \in Calls,
         V!ResearchFinds(c) \/ V!ResearchEnds(c) \/ V!RefreshProspects(c) \/ (\E p, verdict : V!QualifyProspect(c, p, verdict))
  PROVE  DiscoveryInv'
<1>1. PICK call : call = calls[c] /\ DiscoveryShaped(call)
  BY DEF DiscoveryInv, DiscoveryTypes
<1>2. DiscoveryTypes
  BY DEF DiscoveryInv
<1>3. /\ UseKept /\ "memos" \in DOMAIN db' /\ db'.memos = db.memos
      /\ \E next : V!GoTo(c, next) /\ DiscoveryShaped(next) /\ next.at \in {"research", "qualify", "draft"}
  <2>1. CASE V!ResearchFinds(c)
    <3>1. /\ \E known : db' = [db EXCEPT !.prospects = known]
          /\ \E orgs : use' = [use EXCEPT !.unfound = @ \ orgs]
          /\ \E found : V!GoTo(c, [calls[c] EXCEPT !.found = found, !.rounds = @ + 1])
      BY <2>1, Zenon DEF V!ResearchFinds
    <3>5. PICK found : V!GoTo(c, [calls[c] EXCEPT !.found = found, !.rounds = @ + 1])
      BY <3>1
    <3>2. UseKept /\ "memos" \in DOMAIN db' /\ db'.memos = db.memos
      BY <1>2, <3>1 DEF UseKept, DiscoveryTypes
    <3> DEFINE next == [call EXCEPT !.found = found, !.rounds = @ + 1]
    <3>3. DiscoveryShaped(next) /\ next.at = "research"
      BY <1>1, <2>1 DEF DiscoveryShaped, V!ResearchFinds
    <3>4. V!GoTo(c, next)
      BY <1>1, <3>5
    <3> HIDE DEF next
    <3> QED BY <3>2, <3>3, <3>4
  <2>2. CASE V!ResearchEnds(c)
    <3>1. UseKept /\ "memos" \in DOMAIN db' /\ db'.memos = db.memos
      BY <1>2, <2>2, DiscoveryFaultFacts DEF V!ResearchEnds, DiscoveryTypes
    <3> DEFINE next == [call EXCEPT !.at = "qualify", !.left = call.found]
    <3>3. DiscoveryShaped(next) /\ next.at = "qualify"
      BY <1>1 DEF DiscoveryShaped
    <3>4. V!GoTo(c, next)
      BY <1>1, <2>2 DEF V!ResearchEnds
    <3> HIDE DEF next
    <3> QED BY <3>1, <3>3, <3>4
  <2>3. CASE V!RefreshProspects(c)
    <3>1. UseKept /\ "memos" \in DOMAIN db' /\ db'.memos = db.memos
      BY <1>2, <2>3, DiscoveryFaultFacts DEF V!RefreshProspects, DiscoveryTypes
    <3>2. PICK left : V!GoTo(c, [calls[c] EXCEPT !.at = "draft", !.left = left])
      BY <2>3, Zenon DEF V!RefreshProspects
    <3> DEFINE next == [call EXCEPT !.at = "draft", !.left = left]
    <3>3. DiscoveryShaped(next) /\ next.at = "draft"
      BY <1>1 DEF DiscoveryShaped
    <3>4. V!GoTo(c, next)
      BY <1>1, <3>2
    <3> HIDE DEF next
    <3> QED BY <3>1, <3>3, <3>4
  <2>4. ASSUME NEW p, NEW verdict, V!QualifyProspect(c, p, verdict)
        PROVE  /\ UseKept /\ "memos" \in DOMAIN db' /\ db'.memos = db.memos
               /\ \E next : V!GoTo(c, next) /\ DiscoveryShaped(next) /\ next.at \in {"research", "qualify", "draft"}
    <3>1. UseKept /\ "memos" \in DOMAIN db' /\ db'.memos = db.memos
      BY <1>2, <2>4, DiscoveryFaultFacts DEF V!QualifyProspect, DiscoveryTypes
    <3> DEFINE next == [call EXCEPT !.left = call.left \ {p}]
    <3>3. DiscoveryShaped(next) /\ next.at = "qualify"
      BY <1>1, <2>4 DEF DiscoveryShaped, V!QualifyProspect
    <3>4. V!GoTo(c, next)
      BY <1>1, <2>4 DEF V!QualifyProspect
    <3> HIDE DEF next
    <3> QED BY <3>1, <3>3, <3>4
  <2> QED BY <2>1, <2>2, <2>3, <2>4
<1>4. calls[c].at \in {"research", "qualify"}
  BY DEF V!ResearchFinds, V!ResearchEnds, V!RefreshProspects, V!QualifyProspect
<1> QED BY <1>3, <1>4, NoMemo DEF DiscoveryMemoPlaces

LEMMA DiscoveryDraftSteps ==
  ASSUME DiscoveryInv, NEW c \in Calls, (\E p : V!DraftMessage(c, p)) \/ V!RequestApproval(c) \/ V!Report(c) \/ V!ReportSent(c) \/ V!AgentThrows(c)
  PROVE  DiscoveryInv'
<1>1. PICK call : call = calls[c] /\ DiscoveryShaped(call)
  BY DEF DiscoveryInv, DiscoveryTypes
<1>2. DiscoveryTypes
  BY DEF DiscoveryInv
<1>3. \A p : DiscoveryShaped(V!NextCandidate(call, p)) /\ V!NextCandidate(call, p).at = "draft"
  BY <1>1 DEF V!NextCandidate, DiscoveryShaped
<1>4. /\ UseKept /\ "memos" \in DOMAIN db' /\ db'.memos = db.memos
      /\ \E next : V!GoTo(c, next) /\ DiscoveryShaped(next) /\ next.at \in {"draft", "request", "report", "idle"}
  <2>1. ASSUME NEW p, V!DraftMessage(c, p)
        PROVE  /\ UseKept /\ "memos" \in DOMAIN db' /\ db'.memos = db.memos
               /\ \E next : V!GoTo(c, next) /\ DiscoveryShaped(next) /\ next.at \in {"draft", "request", "report", "idle"}
    <3>1. CASE V!GoTo(c, V!NextCandidate(calls[c], p)) /\ UNCHANGED db /\ (V!Fault \/ UNCHANGED use)
      <4>1. UseKept
        BY <1>2, <3>1, DiscoveryFaultFacts
      <4> QED BY <1>1, <1>2, <1>3, <3>1, <4>1 DEF DiscoveryTypes
    <3>2. CASE /\ db' = [db EXCEPT !.messages = Append(@, [prospect |-> p, requests |-> 0]),
                                   !.prospects[p].status = "DRAFT_READY"]
               /\ V!GoTo(c, [calls[c] EXCEPT !.at = "request", !.m = Len(db.messages) + 1])
               /\ UNCHANGED use
      <4>1. UseKept /\ "memos" \in DOMAIN db' /\ db'.memos = db.memos
        BY <1>2, <3>2 DEF UseKept, DiscoveryTypes
      <4>2. PICK row : row = Len(db.messages) + 1
        OBVIOUS
      <4> DEFINE next == [call EXCEPT !.at = "request", !.m = row]
      <4>3. DiscoveryShaped(next) /\ next.at = "request"
        BY <1>1 DEF DiscoveryShaped
      <4>4. V!GoTo(c, next)
        BY <1>1, <3>2, <4>2
      <4> HIDE DEF next
      <4> QED BY <4>1, <4>3, <4>4
    <3> QED BY <2>1, <3>1, <3>2, Zenon DEF V!DraftMessage
  <2>2. CASE V!RequestApproval(c)
    <3>1. UseKept
      BY <1>2, <2>2, DiscoveryFaultFacts DEF V!RequestApproval
    <3>2. "memos" \in DOMAIN db' /\ db'.memos = db.memos
      BY <1>2, <2>2 DEF V!RequestApproval, DiscoveryTypes
    <3>3. \E p : V!GoTo(c, V!NextCandidate(call, p))
      BY <1>1, <2>2, Zenon DEF V!RequestApproval
    <3> QED BY <1>3, <3>1, <3>2, <3>3
  <2>3. CASE V!Report(c)
    <3>1. UseKept /\ "memos" \in DOMAIN db' /\ db'.memos = db.memos
      BY <1>2, <2>3 DEF V!Report, UseKept, DiscoveryTypes
    <3> DEFINE next == [call EXCEPT !.at = "report"]
    <3>3. DiscoveryShaped(next) /\ next.at = "report"
      BY <1>1 DEF DiscoveryShaped
    <3>4. V!GoTo(c, next)
      BY <1>1, <2>3 DEF V!Report
    <3> HIDE DEF next
    <3> QED BY <3>1, <3>3, <3>4
  <2>4. CASE V!ReportSent(c) \/ V!AgentThrows(c)
    <3>1. UseKept
      BY <1>2, <2>4, DiscoveryFaultFacts DEF V!ReportSent, V!AgentThrows
    <3>2. "memos" \in DOMAIN db' /\ db'.memos = db.memos /\ V!GoTo(c, V!Idle)
      BY <1>2, <2>4 DEF V!ReportSent, V!AgentThrows, V!Return, DiscoveryTypes
    <3> QED BY <3>1, <3>2, DiscoveryIdle
  <2> QED BY <2>1, <2>2, <2>3, <2>4
<1>5. calls[c].at \in {"draft", "request", "report", "profile", "research", "qualify"}
  BY DEF V!DraftMessage, V!RequestApproval, V!Report, V!ReportSent, V!AgentThrows
<1> QED BY <1>4, <1>5, NoMemo DEF DiscoveryMemoPlaces

LEMMA DiscoveryRequests ==
  ASSUME V!DiscoveryConstants, DiscoveryInv, NEW c \in Calls,
         \/ V!Evaluate(c) \/ V!RunIcpAnalyst(c) \/ V!RunExperiment(c)
         \/ \E i, field, provenance, strength : V!AttachFinding(c, i, field, provenance, strength)
  PROVE  DiscoveryInv'
<1>1. DiscoveryTypes
  BY DEF DiscoveryInv
<1>2. calls[c].at = "idle" /\ \E op : V!May(op)
  BY DEF V!Evaluate, V!RunIcpAnalyst, V!RunExperiment, V!AttachFinding, V!Begin
<1>3. UseKept /\ (use.load = 1 => \A d \in Calls : calls[d].at = "idle")
  BY <1>1, <1>2, DiscoveryMayFacts DEF UseKept
<1>4. "memos" \in DOMAIN db' /\ db'.memos = db.memos
  BY <1>1 DEF V!Evaluate, V!RunIcpAnalyst, V!RunExperiment, V!AttachFinding, DiscoveryTypes
<1>5. UNCHANGED calls \/ \E next : V!GoTo(c, next) /\ DiscoveryShaped(next) /\ next.at \in {"gather", "profile", "agents", "collect"}
  <2>1. CASE V!Evaluate(c)
    <3>1. PICK seen, todo : V!GoTo(c, [V!Idle EXCEPT !.at = "gather", !.seen = seen, !.todo = todo])
      BY <2>1, Zenon DEF V!Evaluate
    <3> DEFINE next == [V!Idle EXCEPT !.at = "gather", !.seen = seen, !.todo = todo]
    <3>2. DiscoveryShaped(next) /\ next.at = "gather"
      BY DEF DiscoveryShaped, V!Idle
    <3>3. V!GoTo(c, next)
      BY <3>1
    <3> HIDE DEF next
    <3> QED BY <3>2, <3>3
  <2>2. CASE V!RunIcpAnalyst(c)
    <3>1. PICK profile : V!GoTo(c, [V!Idle EXCEPT !.at = "profile", !.op = "icp", !.profile = profile])
      BY <2>2, Zenon DEF V!RunIcpAnalyst
    <3> DEFINE next == [V!Idle EXCEPT !.at = "profile", !.op = "icp", !.profile = profile]
    <3>2. DiscoveryShaped(next) /\ next.at = "profile"
      BY DEF DiscoveryShaped, V!Idle
    <3>3. V!GoTo(c, next)
      BY <3>1
    <3> HIDE DEF next
    <3> QED BY <3>2, <3>3
  <2>3. CASE V!RunExperiment(c)
    <3>1. PICK todo : V!GoTo(c, [V!Idle EXCEPT !.at = "agents", !.op = "run", !.todo = todo])
      BY <2>3, Zenon DEF V!RunExperiment
    <3> DEFINE next == [V!Idle EXCEPT !.at = "agents", !.op = "run", !.todo = todo]
    <3>2. DiscoveryShaped(next) /\ next.at = "agents"
      BY DEF DiscoveryShaped, V!Idle
    <3>3. V!GoTo(c, next)
      BY <3>1
    <3> HIDE DEF next
    <3> QED BY <3>2, <3>3
  <2>4. CASE \E i, field, provenance, strength : V!AttachFinding(c, i, field, provenance, strength)
    <3>1. UNCHANGED calls \/ \E i, f : V!GoTo(c, [V!Idle EXCEPT !.at = "collect", !.i = i, !.f = f])
      BY <2>4, Zenon DEF V!AttachFinding
    <3>2. ASSUME NEW i, NEW f, V!GoTo(c, [V!Idle EXCEPT !.at = "collect", !.i = i, !.f = f])
          PROVE  \E next : V!GoTo(c, next) /\ DiscoveryShaped(next) /\ next.at \in {"gather", "profile", "agents", "collect"}
      <4> DEFINE next == [V!Idle EXCEPT !.at = "collect", !.i = i, !.f = f]
      <4>2. DiscoveryShaped(next) /\ next.at = "collect"
        BY DEF DiscoveryShaped, V!Idle
      <4>3. V!GoTo(c, next)
        BY <3>2
      <4> HIDE DEF next
      <4> QED BY <4>2, <4>3
    <3> QED BY <3>1, <3>2
  <2> QED BY <2>1, <2>2, <2>3, <2>4
<1>6. CASE UNCHANGED calls
  BY <1>3, <1>4, <1>6, NoDiscoveryCall
<1>7. CASE ~ UNCHANGED calls
  BY <1>2, <1>3, <1>4, <1>5, <1>7, NoMemo DEF DiscoveryMemoPlaces
<1> QED BY <1>6, <1>7

LEMMA DiscoveryOperations ==
  ASSUME V!DiscoveryConstants, DiscoveryInv,
         \/ \E p : V!MarkDoNotContact(p) \/ \E reality : V!Record(p, reality)
         \/ \E i, outcome : V!SetOutcome(i, outcome)
         \/ \E k, status : V!ValidateClaim(k, status)
         \/ V!EndExperiment
  PROVE  DiscoveryInv'
<1>1. DiscoveryTypes
  BY DEF DiscoveryInv
<1>2. UNCHANGED calls /\ \E op : V!May(op)
  BY DEF V!MarkDoNotContact, V!Record, V!SetOutcome, V!ValidateClaim, V!EndExperiment
<1>3. UseKept
  BY <1>1, <1>2, DiscoveryMayFacts DEF UseKept
<1>4. "memos" \in DOMAIN db' /\ db'.memos = db.memos
  BY <1>1 DEF V!MarkDoNotContact, V!Record, V!SetOutcome, V!ValidateClaim, V!EndExperiment, DiscoveryTypes
<1> QED BY <1>2, <1>3, <1>4, NoDiscoveryCall

LEMMA CompileMemoKeeps ==
  ASSUME V!DiscoveryConstants, DiscoveryInv, V!CompileMemo
  PROVE  DiscoveryInv'
<1>1. DiscoveryTypes /\ db.memos \in Seq(DiscoveryMemoRow)
  BY DEF DiscoveryInv, DiscoveryTypes
<1>2. UseKept /\ UNCHANGED calls
  BY <1>1, DiscoveryMayFacts DEF V!CompileMemo, UseKept
<1>3. V!NewMemo \in DiscoveryMemoRow /\ V!NewMemo.decision = "none" /\ ~V!NewMemo.validated
  BY DEF V!NewMemo, DiscoveryMemoRow
<1>4. Append(db.memos, V!NewMemo) \in Seq(DiscoveryMemoRow)
  BY <1>1, <1>3
<1>5. PICK memos \in Seq(DiscoveryMemoRow) : memos = Append(db.memos, V!NewMemo)
  BY <1>4, Zenon
<1>6. /\ DOMAIN memos = DOMAIN db.memos \cup {Len(db.memos) + 1}
      /\ memos[Len(db.memos) + 1] = V!NewMemo /\ \A m \in DOMAIN db.memos : memos[m] = db.memos[m]
  BY <1>1, <1>3, <1>5
<1>7. "memos" \in DOMAIN db' /\ db'.memos = memos
  BY <1>1, <1>5 DEF V!CompileMemo, DiscoveryTypes
<1>8. DiscoveryTypes'
  BY <1>1, <1>2, <1>5, <1>7 DEF DiscoveryTypes, UseKept, DiscoveryShaped
<1>9. ASSUME use.load = 1 PROVE OneCallInFlight' /\ MemosOK' /\ \A d \in Calls : MemoCallOK(calls[d])'
  <2>1. OneCallInFlight /\ MemosOK /\ \A d \in Calls : MemoCallOK(calls[d])
    BY <1>9 DEF DiscoveryInv
  <2>2. OneCallInFlight'
    BY <1>2, <2>1 DEF OneCallInFlight
  <2>3. \A d \in Calls : MemoCallOK(calls[d])'
    <3> SUFFICES ASSUME NEW d \in Calls PROVE MemoCallOK(calls[d])'
      OBVIOUS
    <3>1. PICK call : call = calls[d] /\ call = calls'[d] /\ MemoCallOK(call)
      BY <1>2, <2>1
    <3>2. MemoCallOK(call)'
      BY <1>6, <1>7, <3>1 DEF MemoCallOK, DiscoveryMemoPlaces
    <3> QED BY <3>1, <3>2 DEF MemoCallOK
  <2>4. \A m : Announcing(m) => Announcing(m)'
    BY <1>2 DEF Announcing
  <2>5. MemosOK'
    BY <1>2, <1>3, <1>6, <1>7, <2>1, <2>4 DEF MemosOK, UseKept
  <2> QED BY <2>2, <2>3, <2>5
<1> QED BY <1>2, <1>8, <1>9 DEF DiscoveryInv, UseKept

LEMMA DecideMemoKeeps ==
  ASSUME V!DiscoveryConstants, DiscoveryInv, NEW c \in Calls, NEW m \in DOMAIN db.memos, NEW decision \in V!CUSTOMER_DISCOVERY_HUMAN_DECISIONS,
         V!DecideMemo(c, m, decision)
  PROVE  DiscoveryInv'
<1>1. DiscoveryTypes
  BY DEF DiscoveryInv
<1>2. UseKept /\ UNCHANGED db /\ (use.load = 1 => \A d \in Calls : calls[d].at = "idle") /\ db.memos[m].decision = "none"
  BY <1>1, DiscoveryMayFacts DEF V!DecideMemo, V!Begin, UseKept
<1> DEFINE next == [V!Idle EXCEPT !.at = "decide", !.m = m, !.decision = decision]
<1>3. V!GoTo(c, next) /\ DiscoveryShaped(next) /\ next.at = "decide" /\ next.m = m /\ next.decision = decision
  BY DEF V!DecideMemo, V!Idle, DiscoveryShaped
<1> HIDE DEF next
<1>4. DOMAIN calls' = Calls /\ calls'[c] = next /\ \A d \in Calls \ {c} : calls'[d] = calls[d]
  BY <1>1, <1>3 DEF V!GoTo, DiscoveryTypes
<1>5. DiscoveryTypes'
  BY <1>1, <1>2, <1>3, <1>4 DEF DiscoveryTypes, UseKept, DiscoveryShaped
<1>6. ASSUME use.load = 1 PROVE OneCallInFlight' /\ MemosOK' /\ \A d \in Calls : MemoCallOK(calls[d])'
  <2>1. OneCallInFlight'
    BY <1>2, <1>4, <1>6 DEF OneCallInFlight
  <2>2. \A d \in Calls : MemoCallOK(calls[d])'
    BY <1>2, <1>3, <1>4, <1>6 DEF MemoCallOK, DiscoveryMemoPlaces
  <2>3. \A k : ~Announcing(k)
    BY <1>2, <1>6 DEF Announcing
  <2>4. MemosOK'
    BY <1>2, <1>6, <2>3 DEF DiscoveryInv, MemosOK, UseKept
  <2> QED BY <2>1, <2>2, <2>4
<1> QED BY <1>2, <1>5, <1>6 DEF DiscoveryInv, UseKept

(* The decision is recorded, or the announcement: one field of one memo.   *)
LEMMA MemoWritten ==
  ASSUME NEW memos \in Seq(DiscoveryMemoRow), NEW m \in DOMAIN memos, NEW row \in DiscoveryMemoRow
  PROVE  [memos EXCEPT ![m] = row] \in Seq(DiscoveryMemoRow)
OBVIOUS

LEMMA MemoFields ==
  ASSUME NEW memo \in DiscoveryMemoRow, NEW decision \in V!CUSTOMER_DISCOVERY_HUMAN_DECISIONS
  PROVE  [memo EXCEPT !.decision = decision] \in DiscoveryMemoRow
BY DEF DiscoveryMemoRow

LEMMA MemoAnnounced ==
  ASSUME NEW memo \in DiscoveryMemoRow
  PROVE  [memo EXCEPT !.validated = TRUE] \in DiscoveryMemoRow
BY DEF DiscoveryMemoRow

(* Writing to a row there is not changes nothing.                          *)
LEMMA MemoOutside ==
  ASSUME NEW memos \in Seq(DiscoveryMemoRow), NEW m, m \notin DOMAIN memos, NEW row
  PROVE  [memos EXCEPT ![m] = row] = memos
OBVIOUS

LEMMA RecordHumanDecisionKeeps ==
  ASSUME DiscoveryInv, NEW c \in Calls, V!RecordHumanDecision(c)
  PROVE  DiscoveryInv'
<1>1. DiscoveryTypes /\ db.memos \in Seq(DiscoveryMemoRow) /\ DiscoveryShaped(calls[c])
  BY DEF DiscoveryInv, DiscoveryTypes
<1>2. PICK call : call = calls[c] /\ call.at = "decide" /\ DiscoveryShaped(call) /\ call.decision \in V!CUSTOMER_DISCOVERY_HUMAN_DECISIONS
  BY <1>1 DEF V!RecordHumanDecision, DiscoveryTypes
<1>3. UseKept
  BY <1>1, DiscoveryFaultFacts DEF V!RecordHumanDecision
<1> DEFINE next == IF call.decision = "APPROVE" THEN [call EXCEPT !.at = "announce"] ELSE V!Idle
<1>4. /\ V!GoTo(c, next) /\ DiscoveryShaped(next) /\ next.at \in {"announce", "idle"}
      /\ next.at = "announce" <=> call.decision = "APPROVE"
      /\ next.at = "announce" => next.m = call.m
  BY <1>2, DiscoveryIdle DEF V!RecordHumanDecision, V!Return, DiscoveryShaped
<1> HIDE DEF next
<1>5. DOMAIN calls' = Calls /\ calls'[c] = next /\ \A d \in Calls \ {c} : calls'[d] = calls[d]
  BY <1>1, <1>4 DEF V!GoTo, DiscoveryTypes
<1>6. [db.memos EXCEPT ![call.m].decision = call.decision] \in Seq(DiscoveryMemoRow)
  <2>1. CASE call.m \in DOMAIN db.memos
    <3>1. db.memos[call.m] \in DiscoveryMemoRow
      BY <1>1, <2>1
    <3>2. [db.memos[call.m] EXCEPT !.decision = call.decision] \in DiscoveryMemoRow
      BY <1>2, <3>1, MemoFields, Zenon
    <3> QED BY <1>1, <2>1, <3>2, MemoWritten, Zenon
  <2>2. CASE call.m \notin DOMAIN db.memos
    <3>1. [db.memos EXCEPT ![call.m].decision = call.decision] = db.memos
      BY <1>1, <2>2, MemoOutside, Zenon
    <3> QED BY <1>1, <3>1, Zenon
  <2> QED BY <2>1, <2>2
<1>7. PICK memos \in Seq(DiscoveryMemoRow) : memos = [db.memos EXCEPT ![call.m].decision = call.decision]
  BY <1>6, Zenon
<1>8. "memos" \in DOMAIN db' /\ db'.memos = memos
  BY <1>1, <1>2, <1>7 DEF V!RecordHumanDecision, DiscoveryTypes
<1>9. /\ DOMAIN memos = DOMAIN db.memos /\ \A m \in DOMAIN db.memos \ {call.m} : memos[m] = db.memos[m]
      /\ call.m \in DOMAIN db.memos => memos[call.m].decision = call.decision /\ memos[call.m].validated = db.memos[call.m].validated
  BY <1>1, <1>7 DEF DiscoveryMemoRow
<1>10. DiscoveryTypes'
  BY <1>1, <1>3, <1>4, <1>5, <1>7, <1>8 DEF DiscoveryTypes, UseKept, DiscoveryShaped
<1>11. ASSUME use.load = 1 PROVE OneCallInFlight' /\ MemosOK' /\ \A d \in Calls : MemoCallOK(calls[d])'
  <2>1. MemosOK /\ MemoCallOK(call) /\ \A d \in Calls \ {c} : calls[d].at = "idle"
    BY <1>2, <1>11 DEF DiscoveryInv, OneCallInFlight
  <2>2. OneCallInFlight'
    BY <1>5, <2>1 DEF OneCallInFlight
  <2>3. call.m \in DOMAIN db.memos /\ db.memos[call.m].decision = "none"
    BY <1>2, <2>1 DEF MemoCallOK, DiscoveryMemoPlaces
  <2>4. \A d \in Calls : MemoCallOK(calls[d])'
    BY <1>4, <1>5, <1>8, <1>9, <2>1, <2>3 DEF MemoCallOK, DiscoveryMemoPlaces
  <2>5. \A m : ~Announcing(m)
    BY <1>2, <2>1 DEF Announcing
  <2>6. call.decision = "APPROVE" => Announcing(call.m)'
    BY <1>4, <1>5 DEF Announcing
  <2>7. MemosOK'
    BY <1>3, <1>8, <1>9, <2>1, <2>3, <2>5, <2>6 DEF MemosOK, UseKept
  <2> QED BY <2>2, <2>4, <2>7
<1> QED BY <1>3, <1>10, <1>11 DEF DiscoveryInv, UseKept

LEMMA AnnounceValidatedKeeps ==
  ASSUME DiscoveryInv, NEW c \in Calls, V!AnnounceValidated(c)
  PROVE  DiscoveryInv'
<1>1. DiscoveryTypes /\ db.memos \in Seq(DiscoveryMemoRow)
  BY DEF DiscoveryInv, DiscoveryTypes
<1>2. PICK call : call = calls[c] /\ call.at = "announce"
  BY DEF V!AnnounceValidated
<1>3. UseKept
  BY <1>1, DiscoveryFaultFacts DEF V!AnnounceValidated
<1>5. DOMAIN calls' = Calls /\ calls'[c] = V!Idle /\ \A d \in Calls \ {c} : calls'[d] = calls[d]
  BY <1>1 DEF V!GoTo, V!Return, V!AnnounceValidated, DiscoveryTypes
<1>6. [db.memos EXCEPT ![call.m].validated = TRUE] \in Seq(DiscoveryMemoRow)
  <2>1. CASE call.m \in DOMAIN db.memos
    <3>1. db.memos[call.m] \in DiscoveryMemoRow
      BY <1>1, <2>1
    <3>2. [db.memos[call.m] EXCEPT !.validated = TRUE] \in DiscoveryMemoRow
      BY <1>2, <3>1, MemoAnnounced, Zenon
    <3> QED BY <1>1, <2>1, <3>2, MemoWritten, Zenon
  <2>2. CASE call.m \notin DOMAIN db.memos
    <3>1. [db.memos EXCEPT ![call.m].validated = TRUE] = db.memos
      BY <1>1, <2>2, MemoOutside, Zenon
    <3> QED BY <1>1, <3>1, Zenon
  <2> QED BY <2>1, <2>2
<1>7. PICK memos \in Seq(DiscoveryMemoRow) : memos = [db.memos EXCEPT ![call.m].validated = TRUE]
  BY <1>6, Zenon
<1>8. "memos" \in DOMAIN db' /\ db'.memos = memos
  BY <1>1, <1>2, <1>7 DEF V!AnnounceValidated, DiscoveryTypes
<1>9. /\ DOMAIN memos = DOMAIN db.memos /\ \A m \in DOMAIN db.memos \ {call.m} : memos[m] = db.memos[m]
      /\ call.m \in DOMAIN db.memos => memos[call.m].decision = db.memos[call.m].decision /\ memos[call.m].validated = TRUE
  BY <1>1, <1>7 DEF DiscoveryMemoRow
<1>10. DiscoveryTypes'
  BY <1>1, <1>3, <1>5, <1>7, <1>8, DiscoveryIdle DEF DiscoveryTypes, UseKept, DiscoveryShaped
<1>11. ASSUME use.load = 1 PROVE OneCallInFlight' /\ MemosOK' /\ \A d \in Calls : MemoCallOK(calls[d])'
  <2>1. MemosOK /\ MemoCallOK(call) /\ \A d \in Calls \ {c} : calls[d].at = "idle"
    BY <1>2, <1>11 DEF DiscoveryInv, OneCallInFlight
  <2>2. OneCallInFlight'
    BY <1>5, <2>1 DEF OneCallInFlight
  <2>3. call.m \in DOMAIN db.memos /\ db.memos[call.m].decision = "APPROVE"
    BY <1>2, <2>1 DEF MemoCallOK, DiscoveryMemoPlaces
  <2>4. \A d \in Calls : MemoCallOK(calls[d])'
    BY <1>5, <2>1, DiscoveryIdle DEF MemoCallOK, DiscoveryMemoPlaces
  <2>5. \A m : Announcing(m) => m = call.m
    BY <1>2, <2>1 DEF Announcing
  <2>7. MemosOK'
    BY <1>3, <1>8, <1>9, <2>1, <2>3, <2>5 DEF MemosOK, UseKept
  <2> QED BY <2>2, <2>4, <2>7
<1> QED BY <1>3, <1>10, <1>11 DEF DiscoveryInv, UseKept

LEMMA DiscoveryRestarts ==
  ASSUME DiscoveryInv, V!Restart
  PROVE  DiscoveryInv'
<1>1. DiscoveryTypes
  BY DEF DiscoveryInv
<1>2. /\ DOMAIN use' = DOMAIN use /\ use'.load = use.load /\ use'.restarts = use.restarts /\ use'.crashes = use.crashes - 1 /\ use.crashes > 0
      /\ DOMAIN calls' = Calls /\ \A c \in Calls : calls'[c] = V!Idle
      /\ UNCHANGED db
  BY <1>1 DEF V!Restart, DiscoveryTypes
<1>3. DiscoveryTypes'
  BY <1>1, <1>2, DiscoveryIdle DEF DiscoveryTypes
<1>4. use'.crashes # use'.restarts
  BY <1>1, <1>2 DEF DiscoveryTypes
<1>5. ASSUME use.load = 1 PROVE OneCallInFlight' /\ MemosOK' /\ \A d \in Calls : MemoCallOK(calls[d])'
  <2>1. OneCallInFlight'
    BY <1>2, DiscoveryIdle DEF OneCallInFlight
  <2>2. \A d \in Calls : MemoCallOK(calls[d])'
    BY <1>2, DiscoveryIdle DEF MemoCallOK, DiscoveryMemoPlaces
  <2>3. MemosOK'
    BY <1>2, <1>4, <1>5 DEF DiscoveryInv, MemosOK
  <2> QED BY <2>1, <2>2, <2>3
<1> QED BY <1>2, <1>3, <1>5 DEF DiscoveryInv

LEMMA DiscoveryInitInv ==
  ASSUME V!DiscoveryConstants, V!DiscoveryInit
  PROVE  DiscoveryInv
<1>1. db.memos = <<>> /\ "memos" \in DOMAIN db /\ calls = [c \in Calls |-> V!Idle]
  BY DEF V!DiscoveryInit
<1>2. use \in DiscoveryUses
  BY DEF V!DiscoveryInit
<1>3. {"load", "crashes", "restarts"} \subseteq DOMAIN use /\ use.load \in Nat /\ use.restarts \in Nat /\ use.crashes = use.restarts
  <2>1. /\ {"load", "crashes", "restarts", "faults", "mishaps", "unfound", "target", "prospects", "agents"} \subseteq DOMAIN use
        /\ use.load \in Nat /\ use.restarts \in Nat /\ use.crashes = use.restarts
    BY <1>2, Zenon DEF V!DiscoveryConstants
  <2> QED BY <2>1
<1>4. db.memos \in Seq(DiscoveryMemoRow)
  BY <1>1
<1>5. DiscoveryTypes
  BY <1>1, <1>3, <1>4, DiscoveryIdle DEF DiscoveryTypes
<1>6. OneCallInFlight /\ MemosOK /\ \A d \in Calls : MemoCallOK(calls[d])
  BY <1>1, DiscoveryIdle DEF OneCallInFlight, MemosOK, MemoCallOK, DiscoveryMemoPlaces
<1> QED BY <1>5, <1>6 DEF DiscoveryInv

LEMMA DiscoveryNextInv ==
  ASSUME V!DiscoveryConstants, DiscoveryInv, V!CustomerDiscoveryNext \/ UNCHANGED V!vars
  PROVE  DiscoveryInv'
<1>1. CASE UNCHANGED V!vars
  <2>1. UseKept /\ "memos" \in DOMAIN db' /\ db'.memos = db.memos /\ UNCHANGED calls
    BY <1>1 DEF V!vars, UseKept, DiscoveryInv, DiscoveryTypes
  <2> QED BY <2>1, NoDiscoveryCall
<1>2. ASSUME NEW c \in Calls, V!Step(c) PROVE DiscoveryInv'
  <2>1. CASE V!CollectEvidence(c) \/ V!AttachEvidence(c) \/ V!CreateCustomerEvidence(c) \/ V!MarkPromoted(c) \/ V!ListForInteraction(c) \/ V!Answer(c)
    BY <2>1, EvidenceSteps
  <2>2. CASE V!CreateProfile(c) \/ V!WireRead(c) \/ V!WireField(c) \/ V!WireEnd(c) \/ V!FindAgent(c) \/ V!CreateAgent(c) \/ V!GrantReadWeb(c) \/ V!FindProfile(c)
    BY <2>2, ProfileSteps
  <2>3. CASE V!ResearchFinds(c) \/ V!ResearchEnds(c) \/ V!RefreshProspects(c) \/ (\E p, verdict : V!QualifyProspect(c, p, verdict))
    BY <2>3, DiscoveryResearchSteps
  <2>4. CASE (\E p : V!DraftMessage(c, p)) \/ V!RequestApproval(c) \/ V!Report(c) \/ V!ReportSent(c) \/ V!AgentThrows(c)
    BY <2>4, DiscoveryDraftSteps
  <2>5. CASE V!RecordHumanDecision(c)
    BY <2>5, RecordHumanDecisionKeeps
  <2>6. CASE V!AnnounceValidated(c)
    BY <2>6, AnnounceValidatedKeeps
  <2> QED BY <1>2, <2>1, <2>2, <2>3, <2>4, <2>5, <2>6, Zenon DEF V!Step
<1>3. ASSUME NEW c \in Calls, V!Request(c) PROVE DiscoveryInv'
  <2>1. CASE \E m \in DOMAIN db.memos, decision \in V!CUSTOMER_DISCOVERY_HUMAN_DECISIONS : V!DecideMemo(c, m, decision)
    BY <2>1, DecideMemoKeeps
  <2>2. CASE \/ V!Evaluate(c) \/ V!RunIcpAnalyst(c) \/ V!RunExperiment(c)
             \/ \E i, field, provenance, strength : V!AttachFinding(c, i, field, provenance, strength)
    BY <2>2, DiscoveryRequests
  <2> QED BY <1>3, <2>1, <2>2, Zenon DEF V!Request
<1>4. CASE \/ \E p \in DOMAIN db.prospects : V!MarkDoNotContact(p) \/ \E reality \in {"REAL", "SIMULATED"} : V!Record(p, reality)
           \/ \E i \in DOMAIN db.interactions, outcome \in V!CUSTOMER_DISCOVERY_INTERACTION_OUTCOMES : V!SetOutcome(i, outcome)
           \/ \E k \in DOMAIN db.claims, status \in {"SUPPORTED", "CONTRADICTED"} : V!ValidateClaim(k, status)
           \/ V!EndExperiment
  <2>1. \/ \E p : V!MarkDoNotContact(p) \/ \E reality : V!Record(p, reality)
        \/ \E i, outcome : V!SetOutcome(i, outcome)
        \/ \E k, status : V!ValidateClaim(k, status)
        \/ V!EndExperiment
    BY <1>4, Zenon
  <2> QED BY <2>1, DiscoveryOperations
<1>5. CASE V!CompileMemo
  BY <1>5, CompileMemoKeeps
<1>6. CASE V!Restart
  BY <1>6, DiscoveryRestarts
<1> QED BY <1>1, <1>2, <1>3, <1>4, <1>5, <1>6, Zenon DEF V!CustomerDiscoveryNext

LEMMA DiscoveryInvImplies ==
  ASSUME DiscoveryInv
  PROVE  V!ApprovedMemosAreAnnounced
BY DEF DiscoveryInv, MemosOK, Announcing, V!ApprovedMemosAreAnnounced

-----------------------------------------------------------------------------
(* The runs of a discovery experiment.                                     *)

AgentRole == {"ICP Analyst", "Prospect Researcher", "Prospect Qualification", "Message Drafter"}
DiscoveryMessage == [prospect : Nat, requests : Nat]
RunPlaces == {"research", "qualify", "draft", "request", "report"}
RunShaped(call) == {"at", "op", "todo", "found", "left", "rounds", "m"} \subseteq DOMAIN call

RunUse(u) ==
  /\ {"load", "faults", "mishaps", "unfound", "target"} \subseteq DOMAIN u
  /\ u.load \in Nat /\ u.faults \in Nat /\ u.mishaps \in Nat /\ u.faults <= u.mishaps
  /\ IsFiniteSet(u.unfound) /\ u.target \in Nat
RunTables(tables) ==
  /\ {"prospects", "messages", "agents", "experiment"} \subseteq DOMAIN tables
  /\ \E names : tables.prospects \in Seq(V!ProspectRow(names))
  /\ tables.messages \in Seq(DiscoveryMessage)
  /\ tables.agents \in Seq(AgentRole)

Untroubled == use.faults = use.mishaps /\ db.experiment = "ACTIVE"
LeftAlone(p) == db.prospects[p].status \in {"REJECTED", "DO_NOT_CONTACT"}
PutToHuman(p) == \E m \in DOMAIN db.messages : db.messages[m].prospect = p /\ db.messages[m].requests = 1

(* What a run has found, and how far it is with each prospect.             *)
RunCallOK(call) ==
  /\ call.found \subseteq DOMAIN db.prospects /\ IsFiniteSet(call.found) /\ call.left \subseteq call.found
  /\ call.rounds \in Nat /\ call.rounds <= Cardinality(call.found) /\ call.rounds <= use.target
  /\ call.at \notin RunPlaces => call.found = {}
  /\ call.at \in {"agents", "createAgent"} => call.todo \in Seq(AgentRole)
  /\ call.at = "createAgent" => call.todo # <<>>
  /\ call.at = "request" =>
       /\ call.m \in DOMAIN db.messages /\ db.messages[call.m].requests = 0
       /\ db.messages[call.m].prospect \in call.found
  /\ call.at = "research" => \A p \in call.found : db.prospects[p].status \in {"DISCOVERED", "DO_NOT_CONTACT"}
  /\ call.at = "qualify" => \A p \in call.left : db.prospects[p].status \in {"DISCOVERED", "DO_NOT_CONTACT"}
  /\ call.at = "draft" => \A p \in call.left : db.prospects[p].status \in {"QUALIFIED", "DO_NOT_CONTACT"}
  /\ call.at = "request" =>
       \A p \in call.left \ {db.messages[call.m].prospect} : db.prospects[p].status \in {"QUALIFIED", "DO_NOT_CONTACT"}
  /\ Untroubled =>
       \A p \in call.found :
         \/ LeftAlone(p) \/ PutToHuman(p)
         \/ call.at = "research"
         \/ call.at = "qualify" /\ (p \in call.left \/ db.prospects[p].status = "QUALIFIED")
         \/ call.at \in {"draft", "request"} /\ p \in call.left
         \/ call.at = "request" /\ db.messages[call.m].prospect = p

MessagesOK ==
  /\ \A m \in DOMAIN db.messages :
       /\ db.messages[m].requests <= 1
       /\ db.messages[m].prospect \in DOMAIN db.prospects
       /\ db.prospects[db.messages[m].prospect].status \notin {"DISCOVERED", "QUALIFIED"}
  /\ \A m, n \in DOMAIN db.messages : db.messages[m].prospect = db.messages[n].prospect => m = n

Registry == \A a, b \in DOMAIN db.agents : db.agents[a] = db.agents[b] => a = b

RunsApart == \A c, d \in Calls : c # d => calls[c].found \cap calls[d].found = {}

RunsInv ==
  /\ RunUse(use) /\ RunTables(db)
  /\ DOMAIN calls = Calls /\ \A c \in Calls : RunShaped(calls[c]) /\ RunCallOK(calls[c])
  /\ MessagesOK /\ RunsApart
  /\ use.load = 1 =>
       /\ OneCallInFlight /\ Registry
       /\ \A c \in Calls : calls[c].at = "createAgent" => \A a \in DOMAIN db.agents : db.agents[a] # Head(calls[c].todo)

-----------------------------------------------------------------------------
(* Steps seen by the calls that do not take them.                          *)

RunsGoOn(mine) ==
  /\ use'.target = use.target /\ use'.load = use.load
  /\ Untroubled' => Untroubled
  /\ \A p \in DOMAIN db.prospects \ mine :
       /\ p \in DOMAIN db'.prospects
       /\ db'.prospects[p].status \in {db.prospects[p].status, "DO_NOT_CONTACT"}
  /\ \A m \in DOMAIN db.messages :
       /\ m \in DOMAIN db'.messages /\ db'.messages[m].prospect = db.messages[m].prospect
       /\ db.messages[m].prospect \notin mine => db'.messages[m].requests = db.messages[m].requests

LEMMA RunCallStays ==
  ASSUME NEW call, NEW mine, RunCallOK(call), RunsGoOn(mine), call.found \cap mine = {}
  PROVE  RunCallOK(call)'
<1>1. \A p \in call.found :
        /\ p \in DOMAIN db.prospects /\ p \in DOMAIN db'.prospects
        /\ db'.prospects[p].status \in {db.prospects[p].status, "DO_NOT_CONTACT"}
  BY DEF RunCallOK, RunsGoOn
<1>2. call.found \subseteq DOMAIN db'.prospects
  BY <1>1
<1>3. call.at = "request" =>
        /\ call.m \in DOMAIN db'.messages /\ db'.messages[call.m].requests = 0
        /\ db'.messages[call.m].prospect = db.messages[call.m].prospect /\ db'.messages[call.m].prospect \in call.found
  BY DEF RunCallOK, RunsGoOn
<1>4. /\ call.at = "research" => \A p \in call.found : db'.prospects[p].status \in {"DISCOVERED", "DO_NOT_CONTACT"}
      /\ call.at = "qualify" => \A p \in call.left : db'.prospects[p].status \in {"DISCOVERED", "DO_NOT_CONTACT"}
      /\ call.at = "draft" => \A p \in call.left : db'.prospects[p].status \in {"QUALIFIED", "DO_NOT_CONTACT"}
      /\ call.at = "request" =>
           \A p \in call.left \ {db.messages[call.m].prospect} : db'.prospects[p].status \in {"QUALIFIED", "DO_NOT_CONTACT"}
  BY <1>1 DEF RunCallOK
<1>5. ASSUME Untroubled', NEW p \in call.found
      PROVE  \/ LeftAlone(p)' \/ PutToHuman(p)'
             \/ call.at = "research"
             \/ call.at = "qualify" /\ (p \in call.left \/ db'.prospects[p].status = "QUALIFIED")
             \/ call.at \in {"draft", "request"} /\ p \in call.left
             \/ call.at = "request" /\ db'.messages[call.m].prospect = p
  <2>1. LeftAlone(p) => LeftAlone(p)'
    BY <1>1 DEF LeftAlone
  <2>2. PutToHuman(p) => PutToHuman(p)'
    BY DEF PutToHuman, RunsGoOn
  <2>3. db.prospects[p].status = "QUALIFIED" => db'.prospects[p].status = "QUALIFIED" \/ LeftAlone(p)'
    BY <1>1 DEF LeftAlone
  <2>4. Untroubled
    BY <1>5 DEF RunsGoOn
  <2>5. \/ LeftAlone(p) \/ PutToHuman(p)
        \/ call.at = "research"
        \/ call.at = "qualify" /\ (p \in call.left \/ db.prospects[p].status = "QUALIFIED")
        \/ call.at \in {"draft", "request"} /\ p \in call.left
        \/ call.at = "request" /\ db.messages[call.m].prospect = p
    BY <1>5, <2>4 DEF RunCallOK
  <2> QED BY <1>3, <2>1, <2>2, <2>3, <2>5
<1>6. use'.target = use.target
  BY DEF RunsGoOn
<1> QED BY <1>2, <1>3, <1>4, <1>5, <1>6 DEF RunCallOK

(* A step of one call.                                                     *)
LEMMA RunMoves ==
  ASSUME RunsInv, NEW c \in Calls, NEW next, V!GoTo(c, next), RunShaped(next),
         RunUse(use)', RunTables(db)', MessagesOK', RunsGoOn(calls[c].found), RunCallOK(next)',
         \A p \in next.found : p \in calls[c].found \/ p \notin DOMAIN db.prospects,
         use.load = 1 =>
           /\ calls[c].at # "idle" \/ \A d \in Calls : calls[d].at = "idle"
           /\ Registry'
           /\ next.at = "createAgent" => \A a \in DOMAIN db'.agents : db'.agents[a] # Head(next.todo)
  PROVE  RunsInv'
<1>1. DOMAIN calls' = Calls /\ calls'[c] = next /\ \A d \in Calls \ {c} : calls'[d] = calls[d]
  BY DEF V!GoTo, RunsInv
<1>2. ASSUME NEW d \in Calls \ {c} PROVE RunShaped(calls[d])' /\ RunCallOK(calls[d])'
  <2>1. PICK call : call = calls[d]
    OBVIOUS
  <2>2. RunShaped(call) /\ RunCallOK(call) /\ call.found \cap calls[c].found = {}
    BY <1>2, <2>1 DEF RunsInv, RunsApart
  <2>3. RunCallOK(call)'
    BY <2>2, RunCallStays
  <2>4. calls'[d] = call
    BY <1>1, <1>2, <2>1
  <2> QED BY <2>2, <2>3, <2>4 DEF RunShaped, RunCallOK
<1>3. \A d \in Calls : RunShaped(calls[d])' /\ RunCallOK(calls[d])'
  <2>1. RunShaped(calls[c])' /\ RunCallOK(calls[c])'
    BY <1>1 DEF RunShaped, RunCallOK
  <2> QED BY <1>2, <2>1
<1>4. RunsApart'
  <2>1. ASSUME NEW d \in Calls, d # c PROVE calls'[d].found \cap calls'[c].found = {}
    BY <1>1, <2>1 DEF RunsInv, RunsApart, RunCallOK
  <2>2. ASSUME NEW d \in Calls, NEW e \in Calls, d # e PROVE calls'[d].found \cap calls'[e].found = {}
    BY <1>1, <2>1, <2>2 DEF RunsInv, RunsApart
  <2> QED BY <2>2 DEF RunsApart
<1>5. ASSUME use'.load = 1
      PROVE  /\ OneCallInFlight' /\ Registry'
             /\ \A d \in Calls : calls'[d].at = "createAgent" => \A a \in DOMAIN db'.agents : db'.agents[a] # Head(calls'[d].todo)
  <2>1. use.load = 1
    BY <1>5 DEF RunsGoOn
  <2>2. \A d \in Calls \ {c} : calls'[d].at = "idle"
    BY <1>1, <2>1 DEF RunsInv, OneCallInFlight
  <2> QED BY <1>1, <2>1, <2>2 DEF OneCallInFlight
<1> QED BY <1>1, <1>3, <1>4, <1>5 DEF RunsInv

(* A step that no call takes.                                              *)
LEMMA RunsWait ==
  ASSUME RunsInv, UNCHANGED calls, RunUse(use)', RunTables(db)', MessagesOK', RunsGoOn({}), db'.agents = db.agents
  PROVE  RunsInv'
<1>1. ASSUME NEW d \in Calls PROVE RunShaped(calls[d])' /\ RunCallOK(calls[d])'
  <2>1. PICK call : call = calls[d]
    OBVIOUS
  <2>2. RunShaped(call) /\ RunCallOK(call)
    BY <2>1 DEF RunsInv
  <2>3. RunCallOK(call)'
    BY <2>2, RunCallStays
  <2> QED BY <2>1, <2>2, <2>3 DEF RunShaped, RunCallOK
<1>2. RunsApart'
  BY DEF RunsInv, RunsApart
<1>3. use'.load = use.load
  BY DEF RunsGoOn
<1> QED BY <1>1, <1>2, <1>3 DEF RunsInv, OneCallInFlight, Registry

(* A call that has found nothing yet.                                      *)
EmptyHanded(call) ==
  /\ RunShaped(call) /\ call.found = {} /\ call.left = {} /\ call.rounds = 0
  /\ call.at \notin {"agents", "createAgent", "request"}

LEMMA EmptyHandedOK ==
  ASSUME NEW call, EmptyHanded(call), RunUse(use)'
  PROVE  RunCallOK(call)'
<1>1. IsFiniteSet({}) /\ Cardinality({}) = 0
  BY FS_EmptySet
<1> QED BY <1>1 DEF EmptyHanded, RunCallOK, RunUse

LEMMA HiringOK ==
  ASSUME NEW call, RunShaped(call), call.found = {}, call.left = {}, call.rounds = 0, call.at \in {"agents", "createAgent"},
         call.todo \in Seq(AgentRole), call.at = "createAgent" => call.todo # <<>>, RunUse(use)'
  PROVE  RunCallOK(call)'
<1>1. IsFiniteSet({}) /\ Cardinality({}) = 0
  BY FS_EmptySet
<1> QED BY <1>1 DEF RunCallOK, RunUse, RunPlaces

LEMMA FoundNothing ==
  ASSUME RunsInv, NEW c \in Calls, calls[c].at \notin RunPlaces
  PROVE  RunShaped(calls[c]) /\ calls[c].found = {} /\ calls[c].left = {} /\ calls[c].rounds = 0
<1>1. Cardinality({}) = 0
  BY FS_EmptySet
<1>2. RunShaped(calls[c]) /\ RunCallOK(calls[c])
  BY DEF RunsInv
<1>3. calls[c].found = {} /\ calls[c].left = {}
  BY <1>2 DEF RunCallOK
<1>4. calls[c].rounds \in Nat /\ calls[c].rounds <= 0
  BY <1>1, <1>2, <1>3 DEF RunCallOK
<1> QED BY <1>2, <1>3, <1>4

LEMMA RunsIdle == EmptyHanded(V!Idle) /\ V!Idle.at = "idle"
BY DEF V!Idle, EmptyHanded, RunShaped

RunUseKept ==
  /\ DOMAIN use' = DOMAIN use /\ use'.load = use.load /\ use'.mishaps = use.mishaps /\ use'.unfound = use.unfound /\ use'.target = use.target
  /\ use'.faults = use.faults \/ (use.faults > 0 /\ use'.faults = use.faults - 1)
RunTablesKept ==
  /\ {"prospects", "messages", "agents", "experiment"} \subseteq DOMAIN db'
  /\ db'.prospects = db.prospects /\ db'.messages = db.messages /\ db'.agents = db.agents
  /\ db'.experiment = "ACTIVE" => db.experiment = "ACTIVE"

LEMMA RunMayFacts ==
  ASSUME V!DiscoveryConstants, RunsInv, NEW op, V!May(op)
  PROVE  RunUseKept /\ (use.load = 1 => \A d \in Calls : calls[d].at = "idle")
<1> DEFINE busy == {d \in Calls : calls[d].at # "idle"}
<1>1. IsFiniteSet(busy)
  BY DiscoveryCounts, FS_Subset DEF V!DiscoveryConstants
<1>2. Cardinality(busy) < use.load
  BY DiscoveryCounts DEF V!May
<1>3. Cardinality(busy) \in Nat
  BY <1>1, FS_CardinalityType
<1>4. use.load = 1 => Cardinality(busy) = 0
  BY <1>2, <1>3
<1>5. Cardinality(busy) = 0 => busy = {}
  BY <1>1, FS_EmptySet
<1>6. RunUseKept
  BY DEF V!May, RunsInv, RunUse, RunUseKept
<1> QED BY <1>4, <1>5, <1>6

LEMMA RunFaultFacts ==
  ASSUME RunsInv, V!Fault \/ UNCHANGED use
  PROVE  RunUseKept
BY DEF V!Fault, RunsInv, RunUse, RunUseKept

LEMMA RunUseStays ==
  ASSUME RunsInv, RunUseKept
  PROVE  /\ RunUse(use)' /\ use'.target = use.target /\ use'.load = use.load
         /\ use'.faults = use'.mishaps => use.faults = use.mishaps
BY DEF RunsInv, RunUse, RunUseKept

LEMMA RunTablesStay ==
  ASSUME RunsInv, RunUseKept, RunTablesKept, NEW mine
  PROVE  RunTables(db)' /\ MessagesOK' /\ RunsGoOn(mine) /\ (Registry => Registry')
<1>1. RunTables(db)'
  BY DEF RunsInv, RunTables, RunTablesKept
<1>2. MessagesOK'
  BY DEF RunsInv, MessagesOK, RunTablesKept
<1>3. RunsGoOn(mine)
  BY RunUseStays DEF RunTablesKept, RunsGoOn, Untroubled
<1> QED BY <1>1, <1>2, <1>3 DEF RunTablesKept, Registry

(* A step that has nothing to do with runs.                                *)
LEMMA RunAside ==
  ASSUME RunsInv, RunUseKept, RunTablesKept, NEW c \in Calls, NEW next, V!GoTo(c, next), EmptyHanded(next),
         calls[c].at # "idle" \/ (use.load = 1 => \A d \in Calls : calls[d].at = "idle")
  PROVE  RunsInv'
<1>1. RunUse(use)'
  BY RunUseStays
<1>2. RunTables(db)' /\ MessagesOK' /\ RunsGoOn(calls[c].found) /\ (Registry => Registry')
  BY RunTablesStay
<1>3. RunCallOK(next)'
  BY <1>1, EmptyHandedOK
<1>4. RunShaped(next) /\ next.found = {} /\ next.at # "createAgent"
  BY DEF EmptyHanded
<1>5. use.load = 1 => Registry
  BY DEF RunsInv
<1> QED BY <1>1, <1>2, <1>3, <1>4, <1>5, RunMoves

LEMMA RunStill ==
  ASSUME RunsInv, RunUseKept, RunTablesKept, UNCHANGED calls
  PROVE  RunsInv'
BY RunUseStays, RunTablesStay, RunsWait DEF RunTablesKept

LEMMA RunEvidenceSteps ==
  ASSUME RunsInv, NEW c \in Calls,
         V!CollectEvidence(c) \/ V!AttachEvidence(c) \/ V!CreateCustomerEvidence(c) \/ V!MarkPromoted(c) \/ V!ListForInteraction(c) \/ V!Answer(c)
  PROVE  RunsInv'
<1>0. calls[c].at \in {"collect", "attach", "wrap", "promote", "gather", "answer"}
  BY DEF V!CollectEvidence, V!AttachEvidence, V!CreateCustomerEvidence, V!MarkPromoted, V!ListForInteraction, V!Answer
<1>1. PICK call : call = calls[c] /\ RunShaped(call) /\ call.found = {} /\ call.left = {} /\ call.rounds = 0
  BY <1>0, FoundNothing DEF RunPlaces
<1>2. RunsInv /\ RunTables(db)
  BY DEF RunsInv
<1>3. RunUseKept
  BY RunFaultFacts DEF RunsInv, V!CollectEvidence, V!AttachEvidence, V!CreateCustomerEvidence, V!MarkPromoted, V!ListForInteraction, V!Answer
<1>4. RunTablesKept
  BY <1>2 DEF RunTables, RunTablesKept, V!CollectEvidence, V!AttachEvidence, V!CreateCustomerEvidence, V!MarkPromoted, V!ListForInteraction, V!Answer
<1>5. \E next : V!GoTo(c, next) /\ EmptyHanded(next) /\ next.at \in {"attach", "wrap", "promote", "idle", "gather", "answer"}
  <2>1. CASE V!CollectEvidence(c)
    <3>1. PICK row : row = Len(db.evidence) + 1
      OBVIOUS
    <3> DEFINE next == [call EXCEPT !.at = "attach", !.e = row]
    <3>2. EmptyHanded(next) /\ next.at = "attach"
      BY <1>1 DEF EmptyHanded, RunShaped
    <3>3. V!GoTo(c, next)
      BY <1>1, <2>1, <3>1 DEF V!CollectEvidence
    <3> HIDE DEF next
    <3> QED BY <3>2, <3>3
  <2>2. CASE V!AttachEvidence(c)
    BY <1>1, <2>2 DEF V!AttachEvidence, EmptyHanded, RunShaped
  <2>3. CASE V!CreateCustomerEvidence(c)
    BY <1>1, <2>3 DEF V!CreateCustomerEvidence, EmptyHanded, RunShaped
  <2>4. CASE V!MarkPromoted(c) \/ V!Answer(c)
    BY <2>4, RunsIdle DEF V!MarkPromoted, V!Answer, V!Return
  <2>5. CASE V!ListForInteraction(c)
    <3>1. CASE call.todo = <<>>
      <4> DEFINE next == [call EXCEPT !.at = "answer"]
      <4>1. EmptyHanded(next) /\ next.at = "answer"
        BY <1>1 DEF EmptyHanded, RunShaped
      <4>2. V!GoTo(c, next)
        BY <1>1, <2>5, <3>1 DEF V!ListForInteraction
      <4> HIDE DEF next
      <4> QED BY <4>1, <4>2
    <3>2. CASE call.todo # <<>>
      <4> DEFINE next == [call EXCEPT !.todo = Tail(call.todo), !.read = call.read \cup V!FindingsOf(Head(call.todo))]
      <4>1. EmptyHanded(next) /\ next.at = "gather"
        BY <1>1, <2>5 DEF V!ListForInteraction, EmptyHanded, RunShaped
      <4>2. V!GoTo(c, next)
        BY <1>1, <2>5, <3>2 DEF V!ListForInteraction
      <4> HIDE DEF next
      <4> QED BY <4>1, <4>2
    <3> QED BY <3>1, <3>2
  <2> QED BY <2>1, <2>2, <2>3, <2>4, <2>5
<1> QED BY <1>3, <1>4, <1>5, <1>0, RunAside

LEMMA RunProfileSteps ==
  ASSUME RunsInv, NEW c \in Calls,
         V!CreateProfile(c) \/ V!WireRead(c) \/ V!WireField(c) \/ V!WireEnd(c) \/ V!GrantReadWeb(c) \/ V!FindProfile(c)
  PROVE  RunsInv'
<1>0. calls[c].at \in {"profile", "wireRead", "wire", "grant", "findProfile"}
  BY DEF V!CreateProfile, V!WireRead, V!WireField, V!WireEnd, V!GrantReadWeb, V!FindProfile
<1>1. PICK call : call = calls[c] /\ RunShaped(call) /\ call.found = {} /\ call.left = {} /\ call.rounds = 0
  BY <1>0, FoundNothing DEF RunPlaces
<1>2. RunsInv /\ RunTables(db)
  BY DEF RunsInv
<1>3. RunUseKept
  BY RunFaultFacts, <1>2 DEF V!CreateProfile, V!WireRead, V!WireField, V!WireEnd, V!GrantReadWeb, V!FindProfile
<1>4. RunTablesKept
  BY <1>2 DEF RunTables, RunTablesKept, V!CreateProfile, V!WireRead, V!WireField, V!WireEnd, V!GrantReadWeb, V!FindProfile
<1>5. \E next : V!GoTo(c, next) /\ EmptyHanded(next) /\ next.at \in {"profile", "wireRead", "wire", "idle", "research", "findProfile"}
  <2>1. CASE V!CreateProfile(c)
    <3>1. PICK row : row = Len(db.profiles) + 1
      OBVIOUS
    <3> DEFINE next == [call EXCEPT !.at = "wireRead", !.i = row]
    <3>2. EmptyHanded(next) /\ next.at = "wireRead"
      BY <1>1 DEF EmptyHanded, RunShaped
    <3>3. V!GoTo(c, next)
      BY <1>1, <2>1, <3>1 DEF V!CreateProfile
    <3> HIDE DEF next
    <3> QED BY <3>2, <3>3
  <2>2. CASE V!WireRead(c)
    <3>1. PICK known, todo : known = Len(db.claims) /\ todo = <<"role", "problemExposure", "likelyFrequency">>
      OBVIOUS
    <3> DEFINE next == [call EXCEPT !.at = "wire", !.known = known, !.todo = todo]
    <3>2. EmptyHanded(next) /\ next.at = "wire"
      BY <1>1 DEF EmptyHanded, RunShaped
    <3>3. V!GoTo(c, next)
      BY <1>1, <2>2, <3>1 DEF V!WireRead
    <3> HIDE DEF next
    <3> QED BY <3>2, <3>3
  <2>3. CASE V!WireField(c)
    <3> DEFINE next == [call EXCEPT !.todo = Tail(call.todo)]
    <3>2. EmptyHanded(next) /\ next.at = "wire"
      BY <1>1, <2>3 DEF EmptyHanded, RunShaped, V!WireField
    <3>3. V!GoTo(c, next)
      BY <1>1, <2>3 DEF V!WireField
    <3> HIDE DEF next
    <3> QED BY <3>2, <3>3
  <2>4. CASE V!WireEnd(c)
    <3> DEFINE next == [V!Idle EXCEPT !.at = "research", !.op = "run"]
    <3>2. EmptyHanded(next) /\ next.at = "research"
      BY RunsIdle DEF EmptyHanded, RunShaped
    <3>3. V!GoTo(c, next) \/ V!GoTo(c, V!Idle)
      BY <2>4 DEF V!WireEnd, V!Return
    <3> HIDE DEF next
    <3> QED BY <3>2, <3>3, RunsIdle
  <2>5. CASE V!GrantReadWeb(c)
    <3> DEFINE next == [call EXCEPT !.at = "findProfile"]
    <3>2. EmptyHanded(next) /\ next.at = "findProfile"
      BY <1>1 DEF EmptyHanded, RunShaped
    <3>3. V!GoTo(c, next)
      BY <1>1, <2>5 DEF V!GrantReadWeb
    <3> HIDE DEF next
    <3> QED BY <3>2, <3>3
  <2>6. CASE V!FindProfile(c)
    <3>1. CASE V!GoTo(c, [calls[c] EXCEPT !.at = "research"])
      <4> DEFINE next == [call EXCEPT !.at = "research"]
      <4>2. EmptyHanded(next) /\ next.at = "research"
        BY <1>1 DEF EmptyHanded, RunShaped
      <4>3. V!GoTo(c, next)
        BY <1>1, <3>1
      <4> HIDE DEF next
      <4> QED BY <4>2, <4>3
    <3>2. CASE \E profile : V!GoTo(c, [calls[c] EXCEPT !.at = "profile", !.profile = profile])
      <4>1. PICK profile : V!GoTo(c, [calls[c] EXCEPT !.at = "profile", !.profile = profile])
        BY <3>2
      <4> DEFINE next == [call EXCEPT !.at = "profile", !.profile = profile]
      <4>2. EmptyHanded(next) /\ next.at = "profile"
        BY <1>1 DEF EmptyHanded, RunShaped
      <4>3. V!GoTo(c, next)
        BY <1>1, <4>1
      <4> HIDE DEF next
      <4> QED BY <4>2, <4>3
    <3> QED BY <2>6, <3>1, <3>2 DEF V!FindProfile
  <2> QED BY <2>1, <2>2, <2>3, <2>4, <2>5, <2>6
<1> QED BY <1>3, <1>4, <1>5, <1>0, RunAside

LEMMA Roster == V!Roles \in Seq(AgentRole)
BY DEF V!Roles, AgentRole

LEMMA FindAgentKeeps ==
  ASSUME RunsInv, NEW c \in Calls, V!FindAgent(c)
  PROVE  RunsInv'
<1>0. calls[c].at = "agents"
  BY DEF V!FindAgent
<1>1. PICK call : call = calls[c] /\ RunShaped(call) /\ call.found = {} /\ call.left = {} /\ call.rounds = 0
  BY <1>0, FoundNothing DEF RunPlaces
<1>2. call.todo \in Seq(AgentRole)
  BY <1>0, <1>1 DEF RunsInv, RunCallOK
<1>3. RunUseKept /\ RunTablesKept
  BY RunFaultFacts DEF V!FindAgent, RunsInv, RunTables, RunTablesKept
<1>4. CASE call.todo = <<>>
  <2> DEFINE granted == [call EXCEPT !.at = "findProfile"]
             grant == [call EXCEPT !.at = "grant"]
  <2>1. EmptyHanded(granted) /\ EmptyHanded(grant)
    BY <1>1 DEF EmptyHanded, RunShaped
  <2>2. V!GoTo(c, granted) \/ V!GoTo(c, grant)
    BY <1>1, <1>4 DEF V!FindAgent
  <2> HIDE DEF granted, grant
  <2> QED BY <1>0, <1>3, <2>1, <2>2, RunAside
<1>5. ASSUME call.todo # <<>>, NEW next, V!GoTo(c, next), RunShaped(next), next.found = {}, next.left = {}, next.rounds = 0,
             next.at \in {"agents", "createAgent"}, next.todo \in Seq(AgentRole), next.at = "createAgent" => next.todo # <<>>,
             next.at = "createAgent" => \A a \in DOMAIN db.agents : db.agents[a] # Head(next.todo)
      PROVE  RunsInv'
  <2>1. RunUse(use)'
    BY <1>3, RunUseStays
  <2>2. RunTables(db)' /\ MessagesOK' /\ RunsGoOn(calls[c].found) /\ (Registry => Registry')
    BY <1>3, RunTablesStay
  <2>3. RunCallOK(next)'
    BY <1>5, <2>1, HiringOK
  <2>4. use.load = 1 => Registry
    BY DEF RunsInv
  <2>5. db'.agents = db.agents
    BY <1>3 DEF RunTablesKept
  <2> QED BY <1>0, <1>5, <2>1, <2>2, <2>3, <2>4, <2>5, RunMoves
<1>6. CASE call.todo # <<>> /\ V!Registered(Head(call.todo))
  <2> DEFINE next == [call EXCEPT !.todo = Tail(call.todo)]
  <2>1. RunShaped(next) /\ next.found = {} /\ next.left = {} /\ next.rounds = 0 /\ next.at = "agents" /\ next.todo \in Seq(AgentRole)
    BY <1>0, <1>1, <1>2, <1>6 DEF RunShaped
  <2>2. V!GoTo(c, next)
    BY <1>1, <1>6 DEF V!FindAgent
  <2> HIDE DEF next
  <2> QED BY <1>5, <1>6, <2>1, <2>2
<1>7. CASE call.todo # <<>> /\ ~V!Registered(Head(call.todo))
  <2> DEFINE next == [call EXCEPT !.at = "createAgent"]
  <2>1. RunShaped(next) /\ next.found = {} /\ next.left = {} /\ next.rounds = 0 /\ next.at = "createAgent" /\ next.todo = call.todo
    BY <1>1 DEF RunShaped
  <2>2. V!GoTo(c, next)
    BY <1>1, <1>7 DEF V!FindAgent
  <2>3. \A a \in DOMAIN db.agents : db.agents[a] # Head(call.todo)
    BY <1>7 DEF V!Registered
  <2> HIDE DEF next
  <2> QED BY <1>2, <1>5, <1>7, <2>1, <2>2, <2>3
<1> QED BY <1>4, <1>6, <1>7

LEMMA CreateAgentKeeps ==
  ASSUME RunsInv, NEW c \in Calls, V!CreateAgent(c)
  PROVE  RunsInv'
<1>0. calls[c].at = "createAgent"
  BY DEF V!CreateAgent
<1>1. PICK call : call = calls[c] /\ RunShaped(call) /\ call.found = {} /\ call.left = {} /\ call.rounds = 0
  BY <1>0, FoundNothing DEF RunPlaces
<1>2. call.todo \in Seq(AgentRole) /\ call.todo # <<>>
  BY <1>0, <1>1 DEF RunsInv, RunCallOK
<1>3. PICK role \in AgentRole : role = Head(call.todo)
  BY <1>2
<1>4. PICK old \in Seq(AgentRole) : old = db.agents
  BY DEF RunsInv, RunTables
<1>50. Append(old, role) \in Seq(AgentRole)
  BY <1>3, <1>4
<1>5. PICK agents \in Seq(AgentRole) : agents = Append(old, role)
  BY <1>50, Zenon
<1>6. db' = [db EXCEPT !.agents = agents]
  BY <1>1, <1>3, <1>4, <1>5 DEF V!CreateAgent
<1>7. /\ {"prospects", "messages", "agents", "experiment"} \subseteq DOMAIN db'
      /\ db'.prospects = db.prospects /\ db'.messages = db.messages /\ db'.experiment = db.experiment /\ db'.agents = agents
  BY <1>6 DEF RunsInv, RunTables
<1>8. UNCHANGED use
  BY DEF V!CreateAgent
<1>9. RunTables(db)' /\ RunUse(use)' /\ MessagesOK'
  BY <1>7, <1>8 DEF RunsInv, RunTables, RunUse, MessagesOK
<1>10. RunsGoOn(calls[c].found)
  BY <1>7, <1>8 DEF RunsGoOn, Untroubled
<1>11. use.load = 1 => Registry'
  <2>1. use.load = 1 => Registry /\ \A a \in DOMAIN old : old[a] # role
    BY <1>0, <1>1, <1>3, <1>4 DEF RunsInv
  <2> QED BY <1>4, <1>5, <1>7, <2>1 DEF Registry
<1> DEFINE next == [call EXCEPT !.at = "agents", !.todo = Tail(call.todo)]
<1>12. RunShaped(next) /\ next.found = {} /\ next.left = {} /\ next.rounds = 0 /\ next.at = "agents" /\ next.todo \in Seq(AgentRole)
  BY <1>1, <1>2 DEF RunShaped
<1>13. V!GoTo(c, next)
  BY <1>1 DEF V!CreateAgent
<1> HIDE DEF next
<1>14. RunCallOK(next)'
  BY <1>9, <1>12, HiringOK
<1> QED BY <1>0, <1>9, <1>10, <1>11, <1>12, <1>13, <1>14, RunMoves

LEMMA RefreshProspectsKeeps ==
  ASSUME RunsInv, NEW c \in Calls, V!RefreshProspects(c)
  PROVE  RunsInv'
<1>1. PICK call : call = calls[c] /\ RunShaped(call) /\ RunCallOK(call) /\ call.at = "qualify" /\ call.left = {}
  BY DEF RunsInv, V!RefreshProspects
<1>2. RunUseKept /\ RunTablesKept
  BY RunFaultFacts DEF V!RefreshProspects, RunsInv, RunTables, RunTablesKept
<1>20. PICK qualified : qualified = {p \in call.found : db.prospects[p].status = "QUALIFIED"}
  OBVIOUS
<1> DEFINE next == [call EXCEPT !.at = "draft", !.left = qualified]
<1>3. V!GoTo(c, next)
  BY <1>1, <1>20, Zenon DEF V!RefreshProspects
<1>4. RunShaped(next) /\ next.at = "draft" /\ next.left = qualified /\ next.found = call.found /\ next.rounds = call.rounds
  BY <1>1 DEF RunShaped
<1>5. /\ qualified \subseteq call.found /\ \A p \in qualified : db.prospects[p].status = "QUALIFIED"
      /\ \A p \in call.found : db.prospects[p].status = "QUALIFIED" => p \in qualified
  BY <1>20
<1> HIDE DEF next
<1>6. RunCallOK(next)
  BY <1>1, <1>4, <1>5 DEF RunCallOK, RunPlaces
<1>7. RunUse(use)' /\ RunTables(db)' /\ MessagesOK' /\ RunsGoOn({}) /\ RunsGoOn(calls[c].found) /\ (Registry => Registry')
  BY <1>2, RunTablesStay, RunUseStays
<1>8. RunCallOK(next)'
  BY <1>6, <1>7, RunCallStays
<1>9. use.load = 1 => Registry
  BY DEF RunsInv
<1> QED BY <1>1, <1>3, <1>4, <1>7, <1>8, <1>9, RunMoves

LEMMA ResearchEndsKeeps ==
  ASSUME RunsInv, NEW c \in Calls, V!ResearchEnds(c)
  PROVE  RunsInv'
<1>1. PICK call : call = calls[c] /\ RunShaped(call) /\ RunCallOK(call) /\ call.at = "research"
  BY DEF RunsInv, V!ResearchEnds
<1>2. RunUseKept /\ RunTablesKept
  BY RunFaultFacts DEF V!ResearchEnds, RunsInv, RunTables, RunTablesKept
<1> DEFINE next == [call EXCEPT !.at = "qualify", !.left = call.found]
<1>3. V!GoTo(c, next)
  BY <1>1 DEF V!ResearchEnds
<1>4. RunShaped(next) /\ next.at = "qualify" /\ next.left = call.found /\ next.found = call.found /\ next.rounds = call.rounds
  BY <1>1 DEF RunShaped
<1> HIDE DEF next
<1>6. RunCallOK(next)
  BY <1>1, <1>4 DEF RunCallOK, RunPlaces
<1>7. RunUse(use)' /\ RunTables(db)' /\ MessagesOK' /\ RunsGoOn({}) /\ RunsGoOn(calls[c].found) /\ (Registry => Registry')
  BY <1>2, RunTablesStay, RunUseStays
<1>8. RunCallOK(next)'
  BY <1>6, <1>7, RunCallStays
<1>9. use.load = 1 => Registry
  BY DEF RunsInv
<1> QED BY <1>1, <1>3, <1>4, <1>7, <1>8, <1>9, RunMoves

LEMMA ReportKeeps ==
  ASSUME RunsInv, NEW c \in Calls, V!Report(c)
  PROVE  RunsInv'
<1>1. PICK call : call = calls[c] /\ RunShaped(call) /\ RunCallOK(call) /\ call.at = "draft" /\ call.left = {}
  BY DEF RunsInv, V!Report
<1>2. RunUseKept /\ RunTablesKept
  BY RunFaultFacts DEF V!Report, RunsInv, RunTables, RunTablesKept
<1> DEFINE next == [call EXCEPT !.at = "report"]
<1>3. V!GoTo(c, next)
  BY <1>1 DEF V!Report
<1>4. RunShaped(next) /\ next.at = "report" /\ next.left = {} /\ next.found = call.found /\ next.rounds = call.rounds
  BY <1>1 DEF RunShaped
<1> HIDE DEF next
<1>6. RunCallOK(next)
  BY <1>1, <1>4 DEF RunCallOK, RunPlaces
<1>7. RunUse(use)' /\ RunTables(db)' /\ MessagesOK' /\ RunsGoOn({}) /\ RunsGoOn(calls[c].found) /\ (Registry => Registry')
  BY <1>2, RunTablesStay, RunUseStays
<1>8. RunCallOK(next)'
  BY <1>6, <1>7, RunCallStays
<1>9. use.load = 1 => Registry
  BY DEF RunsInv
<1> QED BY <1>1, <1>3, <1>4, <1>7, <1>8, <1>9, RunMoves

LEMMA RunReturns ==
  ASSUME RunsInv, NEW c \in Calls, V!ReportSent(c) \/ V!AgentThrows(c)
  PROVE  RunsInv'
<1>1. RunUseKept /\ RunTablesKept
  BY RunFaultFacts DEF V!ReportSent, V!AgentThrows, RunsInv, RunTables, RunTablesKept
<1>2. V!GoTo(c, V!Idle) /\ calls[c].at # "idle"
  BY DEF V!ReportSent, V!AgentThrows, V!Return
<1> QED BY <1>1, <1>2, RunsIdle, RunAside

(* Rows of a round of research, and of a change of a prospect's status.    *)
RowsFound(old, k, named) == old \o [n \in 1 .. k |-> V!NewProspect(named[n])]

Researched(rows, old, k) ==
  /\ \E all : rows \in Seq(V!ProspectRow(all))
  /\ Len(rows) = Len(old) + k
  /\ \A p \in DOMAIN old : p \in DOMAIN rows /\ rows[p] = old[p]
  /\ \A n \in 1 .. k : Len(old) + n \in DOMAIN rows /\ rows[Len(old) + n].status = "DISCOVERED"

LEMMA ProspectsFound ==
  ASSUME NEW names, NEW old \in Seq(V!ProspectRow(names)), NEW k \in Nat, NEW named
  PROVE  Researched(RowsFound(old, k, named), old, k)
<1> DEFINE all == names \cup {named[n] : n \in 1 .. k}
           new == [n \in 1 .. k |-> V!NewProspect(named[n])]
           rows == old \o new
<1>1. V!ProspectRow(names) \subseteq V!ProspectRow(all)
  BY DEF V!ProspectRow
<1>2. old \in Seq(V!ProspectRow(all))
  BY <1>1, SeqMonotonic
<1>3. \A n \in 1 .. k : named[n] \in all
  OBVIOUS
<1>4. \A n \in 1 .. k : V!NewProspect(named[n]) \in V!ProspectRow(all) /\ V!NewProspect(named[n]).status = "DISCOVERED"
  BY <1>3 DEF V!NewProspect, V!ProspectRow, V!PROSPECT_STATUSES
<1>5. new \in [1 .. k -> V!ProspectRow(all)]
  BY <1>4
<1>6. new \in Seq(V!ProspectRow(all)) /\ Len(new) = k
  BY <1>5, SeqDef
<1>7. \A n \in 1 .. k : new[n] = V!NewProspect(named[n])
  OBVIOUS
<1> HIDE DEF all, new
<1>8. /\ rows \in Seq(V!ProspectRow(all)) /\ Len(rows) = Len(old) + k
      /\ \A i \in 1 .. Len(old) + k : rows[i] = IF i <= Len(old) THEN old[i] ELSE new[i - Len(old)]
  BY <1>2, <1>6, ConcatProperties
<1>9. PICK l \in Nat : l = Len(old) /\ DOMAIN old = 1 .. l
  OBVIOUS
<1>10. DOMAIN rows = 1 .. l + k
  BY <1>8, <1>9
<1> HIDE DEF rows
<1>11. \A p \in DOMAIN old : p \in DOMAIN rows /\ rows[p] = old[p]
  BY <1>8, <1>9, <1>10
<1>12. ASSUME NEW n \in 1 .. k PROVE l + n \in DOMAIN rows /\ rows[l + n].status = "DISCOVERED"
  <2>1. l + n \in 1 .. l + k /\ ~(l + n <= l) /\ l + n - l = n
    BY <1>9
  <2>2. rows[l + n] = new[n]
    BY <1>8, <1>9, <2>1
  <2> QED BY <1>4, <1>7, <1>10, <2>1, <2>2
<1>13. Researched(rows, old, k)
  BY <1>8, <1>9, <1>11, <1>12 DEF Researched
<1> QED BY <1>13, Zenon DEF rows, new, RowsFound

LEMMA StatusWritten ==
  ASSUME NEW names, NEW old \in Seq(V!ProspectRow(names)), NEW p \in DOMAIN old, NEW status \in V!PROSPECT_STATUSES
  PROVE  LET rows == [old EXCEPT ![p].status = status]
         IN  /\ rows \in Seq(V!ProspectRow(names)) /\ DOMAIN rows = DOMAIN old
             /\ rows[p].status = status
             /\ \A q \in DOMAIN old : q # p => rows[q] = old[q]
<1>1. PICK was \in V!ProspectRow(names) : was = old[p]
  OBVIOUS
<1>2. PICK row \in V!ProspectRow(names) : row = [was EXCEPT !.status = status]
  BY DEF V!ProspectRow
<1>3. row.status = status
  BY <1>2 DEF V!ProspectRow
<1>4. [old EXCEPT ![p].status = status] = [old EXCEPT ![p] = row]
  BY <1>1, <1>2
<1> QED BY <1>3, <1>4

LEMMA ResearchFindsKeeps ==
  ASSUME RunsInv, NEW c \in Calls, V!ResearchFinds(c)
  PROVE  RunsInv'
<1>1. PICK call : call = calls[c] /\ RunShaped(call) /\ RunCallOK(call) /\ call.at = "research" /\ V!MoreResearch(call)
  BY DEF RunsInv, V!ResearchFinds
<1>2. PICK names, old : old \in Seq(V!ProspectRow(names)) /\ old = db.prospects
  BY DEF RunsInv, RunTables
<1>3. PICK orgs, named :
        /\ orgs \subseteq use.unfound /\ orgs # {}
        /\ db' = [db EXCEPT !.prospects = @ \o [n \in 1 .. V!Cardinality(orgs) |-> V!NewProspect(named[n])]]
        /\ use' = [use EXCEPT !.unfound = @ \ orgs]
        /\ V!GoTo(c, [calls[c] EXCEPT !.found = @ \cup {Len(db.prospects) + n : n \in 1 .. V!Cardinality(orgs)}, !.rounds = @ + 1])
  BY Zenon DEF V!ResearchFinds
<1>4. IsFiniteSet(orgs) /\ Cardinality(orgs) \in Nat /\ Cardinality(orgs) # 0
  BY <1>3, FS_Subset, FS_CardinalityType, FS_EmptySet DEF RunsInv, RunUse
<1>5. PICK k \in Nat : k = V!Cardinality(orgs) /\ k > 0
  BY <1>4, DiscoveryCounts
<1>6. PICK rows : rows = RowsFound(old, k, named)
  OBVIOUS
<1>7. /\ \E all : rows \in Seq(V!ProspectRow(all))
      /\ Len(rows) = Len(old) + k
      /\ \A p \in DOMAIN old : p \in DOMAIN rows /\ rows[p] = old[p]
      /\ \A n \in 1 .. k : Len(old) + n \in DOMAIN rows /\ rows[Len(old) + n].status = "DISCOVERED"
  <2>1. k \in Nat /\ old \in Seq(V!ProspectRow(names))
    BY <1>2, <1>5
  <2>2. Researched(RowsFound(old, k, named), old, k)
    BY <2>1, ProspectsFound, Zenon
  <2>3. Researched(rows, old, k)
    BY <1>6, <2>2, Zenon
  <2> QED BY <2>3 DEF Researched
<1>8. db' = [db EXCEPT !.prospects = rows]
  BY <1>2, <1>3, <1>5, <1>6 DEF RowsFound
<1>9. /\ {"prospects", "messages", "agents", "experiment"} \subseteq DOMAIN db' /\ db'.prospects = rows
      /\ db'.messages = db.messages /\ db'.experiment = db.experiment /\ db'.agents = db.agents
  BY <1>8 DEF RunsInv, RunTables
<1>10. RunTables(db)'
  BY <1>7, <1>9 DEF RunsInv, RunTables
<1>11. RunUse(use)' /\ use'.target = use.target /\ use'.load = use.load /\ use'.faults = use.faults /\ use'.mishaps = use.mishaps
  <2>1. IsFiniteSet(use.unfound \ orgs)
    BY FS_Subset DEF RunsInv, RunUse
  <2> QED BY <1>3, <2>1 DEF RunsInv, RunUse
<1>12. MessagesOK'
  BY <1>2, <1>7, <1>9 DEF RunsInv, MessagesOK
<1>13. RunsGoOn(calls[c].found)
  BY <1>2, <1>7, <1>9, <1>11 DEF RunsGoOn, Untroubled
<1>14. PICK l \in Nat : l = Len(old) /\ DOMAIN old = 1 .. l
  BY <1>2
<1>15. PICK new : new = {l + n : n \in 1 .. k}
  OBVIOUS
<1> DEFINE next == [call EXCEPT !.found = call.found \cup new, !.rounds = call.rounds + 1]
<1>16. V!GoTo(c, next)
  BY <1>1, <1>2, <1>3, <1>5, <1>14, <1>15
<1>17. RunShaped(next) /\ next.at = "research" /\ next.found = call.found \cup new /\ next.left = call.left /\ next.rounds = call.rounds + 1
  BY <1>1 DEF RunShaped
<1> HIDE DEF next
<1>18. \A p \in new : p \notin DOMAIN old /\ p \in DOMAIN rows /\ rows[p].status = "DISCOVERED"
  BY <1>5, <1>7, <1>14, <1>15
<1>19. call.found \subseteq DOMAIN old /\ IsFiniteSet(call.found) /\ call.rounds \in Nat /\ call.rounds <= Cardinality(call.found)
       /\ \A p \in call.found : old[p].status \in {"DISCOVERED", "DO_NOT_CONTACT"}
  BY <1>1, <1>2 DEF RunCallOK
<1>20. IsFiniteSet(call.found \cup new) /\ call.rounds + 1 <= Cardinality(call.found \cup new)
  <2>1. new \subseteq 1 .. l + k
    BY <1>14, <1>15
  <2>2. IsFiniteSet(1 .. l + k)
    BY FS_Interval
  <2>3. IsFiniteSet(new)
    BY <2>1, <2>2, FS_Subset
  <2>4. IsFiniteSet(call.found \cup new)
    BY <1>19, <2>3, FS_Union
  <2>5. l + 1 \in new
    BY <1>5, <1>15
  <2>6. l + 1 \notin call.found
    BY <1>18, <1>19, <2>5
  <2>7. Cardinality(call.found \cup {l + 1}) = Cardinality(call.found) + 1
    BY <1>19, <2>6, FS_AddElement
  <2>8. Cardinality(call.found \cup {l + 1}) <= Cardinality(call.found \cup new)
    BY <2>4, <2>5, FS_Subset
  <2>9. Cardinality(call.found) \in Nat /\ Cardinality(call.found \cup new) \in Nat
    BY <1>19, <2>4, FS_CardinalityType
  <2> QED BY <1>19, <2>4, <2>7, <2>8, <2>9
<1>21. call.rounds + 1 <= use.target
  <2>1. Cardinality(call.found) < use.target /\ Cardinality(call.found) \in Nat
    BY <1>1, <1>19, DiscoveryCounts, FS_CardinalityType DEF V!MoreResearch
  <2> QED BY <1>19, <2>1 DEF RunsInv, RunUse
<1>22. RunCallOK(next)'
  <2>1. call.found \cup new \subseteq DOMAIN rows /\ \A p \in call.found \cup new : rows[p].status \in {"DISCOVERED", "DO_NOT_CONTACT"}
    BY <1>7, <1>18, <1>19
  <2>2. call.left \subseteq call.found
    BY <1>1 DEF RunCallOK
  <2> QED BY <1>9, <1>11, <1>17, <1>19, <1>20, <1>21, <2>1, <2>2 DEF RunCallOK, RunPlaces
<1>23. \A p \in next.found : p \in calls[c].found \/ p \notin DOMAIN db.prospects
  BY <1>1, <1>2, <1>17, <1>18
<1>24. use.load = 1 => Registry'
  BY <1>9 DEF RunsInv, Registry
<1> QED BY <1>1, <1>10, <1>11, <1>12, <1>13, <1>16, <1>17, <1>22, <1>23, <1>24, RunMoves

LEMMA QualifyProspectKeeps ==
  ASSUME RunsInv, NEW c \in Calls, NEW p \in calls[c].left, NEW verdict \in {"QUALIFIED", "REJECTED", "FAILED"}, V!QualifyProspect(c, p, verdict)
  PROVE  RunsInv'
<1>1. PICK call : call = calls[c] /\ RunShaped(call) /\ RunCallOK(call) /\ call.at = "qualify" /\ p \in call.left
  BY DEF RunsInv, V!QualifyProspect
<1>2. PICK names, old : old \in Seq(V!ProspectRow(names)) /\ old = db.prospects
  BY DEF RunsInv, RunTables
<1>3. p \in DOMAIN old /\ p \in call.found
  BY <1>1, <1>2 DEF RunCallOK
<1> DEFINE next == [call EXCEPT !.left = call.left \ {p}]
<1>4. V!GoTo(c, next)
  BY <1>1 DEF V!QualifyProspect
<1>5. RunShaped(next) /\ next.at = "qualify" /\ next.left = call.left \ {p} /\ next.found = call.found /\ next.rounds = call.rounds
  BY <1>1 DEF RunShaped
<1> HIDE DEF next
<1>6. RunUseKept
  BY RunFaultFacts DEF V!QualifyProspect
<1>7. CASE ~(old[p].status = "DISCOVERED" /\ verdict # "FAILED")
  <2>1. UNCHANGED db
    BY <1>2, <1>7 DEF V!QualifyProspect
  <2>2. RunTablesKept
    BY <2>1 DEF RunsInv, RunTables, RunTablesKept
  <2>3. RunUse(use)' /\ RunTables(db)' /\ MessagesOK' /\ RunsGoOn(calls[c].found) /\ (Registry => Registry')
    BY <1>6, <2>2, RunTablesStay, RunUseStays
  <2>4. Untroubled' => Untroubled /\ verdict # "FAILED"
    BY <1>6, <2>1, <2>3 DEF V!QualifyProspect, V!Fault, RunsInv, RunUse, Untroubled, RunUseKept
  <2>5. Untroubled' => db.prospects[p].status = "DO_NOT_CONTACT"
    BY <1>1, <1>2, <1>7, <2>4 DEF RunCallOK
  <2>6. RunCallOK(next)'
    <3>1. ASSUME Untroubled', NEW q \in call.found
          PROVE  LeftAlone(q)' \/ PutToHuman(q)' \/ (q \in call.left \ {p} \/ db'.prospects[q].status = "QUALIFIED")
      BY <1>1, <2>1, <2>4, <2>5, <3>1 DEF RunCallOK, LeftAlone, PutToHuman
    <3> QED BY <1>1, <1>5, <2>1, <2>3, <3>1 DEF RunCallOK, RunPlaces, RunsGoOn
  <2>7. use.load = 1 => Registry
    BY DEF RunsInv
  <2> QED BY <1>1, <1>4, <1>5, <2>3, <2>6, <2>7, RunMoves
<1>8. CASE old[p].status = "DISCOVERED" /\ verdict # "FAILED"
  <2>1. verdict \in {"QUALIFIED", "REJECTED"} /\ verdict \in V!PROSPECT_STATUSES
    BY <1>8 DEF V!PROSPECT_STATUSES
  <2>2. PICK rows : rows = [old EXCEPT ![p].status = verdict]
    OBVIOUS
  <2>3. /\ rows \in Seq(V!ProspectRow(names)) /\ DOMAIN rows = DOMAIN old /\ rows[p].status = verdict
        /\ \A q \in DOMAIN old : q # p => rows[q] = old[q]
    BY <1>2, <1>3, <2>1, <2>2, StatusWritten
  <2>4. db' = [db EXCEPT !.prospects = rows]
    BY <1>2, <1>8, <2>2 DEF V!QualifyProspect
  <2>5. /\ {"prospects", "messages", "agents", "experiment"} \subseteq DOMAIN db' /\ db'.prospects = rows
        /\ db'.messages = db.messages /\ db'.experiment = db.experiment /\ db'.agents = db.agents
    BY <2>4 DEF RunsInv, RunTables
  <2>6. RunTables(db)' /\ RunUse(use)' /\ use'.target = use.target /\ use'.load = use.load /\ (Untroubled' => Untroubled)
    BY <1>6, <2>3, <2>5, RunUseStays DEF RunsInv, RunTables, Untroubled
  <2>7. MessagesOK'
    BY <1>2, <1>8, <2>3, <2>5 DEF RunsInv, MessagesOK
  <2>8. RunsGoOn(calls[c].found)
    BY <1>1, <1>2, <1>3, <2>3, <2>5, <2>6 DEF RunsGoOn
  <2>9. RunCallOK(next)'
    <3>1. ASSUME Untroubled', NEW q \in call.found
          PROVE  LeftAlone(q)' \/ PutToHuman(q)' \/ (q \in call.left \ {p} \/ db'.prospects[q].status = "QUALIFIED")
      <4>1. CASE q = p
        BY <2>1, <2>3, <2>5, <4>1 DEF LeftAlone
      <4>2. CASE q # p
        <5>1. LeftAlone(q) \/ PutToHuman(q) \/ (q \in call.left \/ db.prospects[q].status = "QUALIFIED")
          BY <1>1, <2>6, <3>1 DEF RunCallOK
        <5>2. db'.prospects[q] = db.prospects[q] /\ db'.messages = db.messages
          BY <1>1, <1>2, <2>3, <2>5, <4>2 DEF RunCallOK
        <5> QED BY <4>2, <5>1, <5>2 DEF LeftAlone, PutToHuman
      <4> QED BY <4>1, <4>2
    <3>2. \A q \in call.left \ {p} : db'.prospects[q].status \in {"DISCOVERED", "DO_NOT_CONTACT"}
      BY <1>1, <1>2, <2>3, <2>5 DEF RunCallOK
    <3>3. call.found \subseteq DOMAIN db'.prospects
      BY <1>1, <1>2, <2>3, <2>5 DEF RunCallOK
    <3> QED BY <1>1, <1>5, <2>6, <3>1, <3>2, <3>3 DEF RunCallOK, RunPlaces
  <2>10. use.load = 1 => Registry'
    BY <2>5 DEF RunsInv, Registry
  <2> QED BY <1>1, <1>4, <1>5, <2>6, <2>7, <2>8, <2>9, <2>10, RunMoves
<1> QED BY <1>7, <1>8

LEMMA DraftMessageKeeps ==
  ASSUME RunsInv, NEW c \in Calls, NEW p \in calls[c].left, V!DraftMessage(c, p)
  PROVE  RunsInv'
<1>1. PICK call : call = calls[c] /\ RunShaped(call) /\ RunCallOK(call) /\ call.at = "draft" /\ p \in call.left
  BY DEF RunsInv, V!DraftMessage
<1>2. PICK names, old : old \in Seq(V!ProspectRow(names)) /\ old = db.prospects
  BY DEF RunsInv, RunTables
<1>3. p \in DOMAIN old /\ p \in call.found
  BY <1>1, <1>2 DEF RunCallOK
<1>4. CASE /\ db.experiment = "ACTIVE" /\ db.prospects[p].status = "QUALIFIED"
           /\ db' = [db EXCEPT !.messages = Append(@, [prospect |-> p, requests |-> 0]), !.prospects[p].status = "DRAFT_READY"]
           /\ V!GoTo(c, [call EXCEPT !.at = "request", !.m = Len(db.messages) + 1])
           /\ UNCHANGED use
  <2>1. PICK rows : rows = [old EXCEPT ![p].status = "DRAFT_READY"]
    OBVIOUS
  <2>2. /\ rows \in Seq(V!ProspectRow(names)) /\ DOMAIN rows = DOMAIN old /\ rows[p].status = "DRAFT_READY"
        /\ \A q \in DOMAIN old : q # p => rows[q] = old[q]
    <3>1. "DRAFT_READY" \in V!PROSPECT_STATUSES
      BY DEF V!PROSPECT_STATUSES
    <3> QED BY <1>2, <1>3, <2>1, <3>1, StatusWritten
  <2>3. PICK had \in Seq(DiscoveryMessage) : had = db.messages
    BY DEF RunsInv, RunTables
  <2>4. PICK l \in Nat : l = Len(had) /\ DOMAIN had = 1 .. l
    BY <2>3
  <2>5. p \in Nat
    BY <1>2, <1>3
  <2>6. PICK message \in DiscoveryMessage : message = [prospect |-> p, requests |-> 0]
    BY <2>5 DEF DiscoveryMessage
  <2>7. message.prospect = p /\ message.requests = 0
    BY <2>6
  <2>8. Append(had, message) \in Seq(DiscoveryMessage)
    BY <2>3, <2>6
  <2>9. PICK messages \in Seq(DiscoveryMessage) : messages = Append(had, message)
    BY <2>8, Zenon
  <2>10. DOMAIN messages = 1 .. l + 1 /\ messages[l + 1] = message /\ \A m \in DOMAIN had : m \in DOMAIN messages /\ messages[m] = had[m]
    BY <2>3, <2>4, <2>6, <2>9
  <2>11. db' = [db EXCEPT !.messages = messages, !.prospects = rows]
    BY <1>2, <1>4, <2>1, <2>3, <2>6, <2>9
  <2>12. /\ {"prospects", "messages", "agents", "experiment"} \subseteq DOMAIN db' /\ db'.prospects = rows /\ db'.messages = messages
         /\ db'.experiment = db.experiment /\ db'.agents = db.agents
    BY <2>11 DEF RunsInv, RunTables
  <2>13. RunTables(db)' /\ RunUse(use)' /\ use'.target = use.target /\ use'.load = use.load /\ (Untroubled' => Untroubled)
    BY <1>4, <2>2, <2>12 DEF RunsInv, RunTables, RunUse, Untroubled
  <2>14. \A m \in DOMAIN had : had[m].prospect # p /\ had[m].prospect \in DOMAIN old /\ old[had[m].prospect].status \notin {"DISCOVERED", "QUALIFIED"}
    BY <1>2, <1>4, <2>3 DEF RunsInv, MessagesOK
  <2>15. MessagesOK'
    <3>1. \A m \in DOMAIN messages : m \in DOMAIN had \/ m = l + 1
      BY <2>4, <2>10
    <3>2. \A m \in DOMAIN messages :
            /\ messages[m].requests <= 1 /\ messages[m].prospect \in DOMAIN rows
            /\ rows[messages[m].prospect].status \notin {"DISCOVERED", "QUALIFIED"}
      BY <1>2, <1>3, <2>2, <2>3, <2>7, <2>10, <2>14, <3>1 DEF RunsInv, MessagesOK
    <3>3. \A m, n \in DOMAIN messages : messages[m].prospect = messages[n].prospect => m = n
      BY <2>3, <2>7, <2>10, <2>14, <3>1 DEF RunsInv, MessagesOK
    <3> QED BY <2>12, <3>2, <3>3 DEF MessagesOK
  <2>16. RunsGoOn(calls[c].found)
    BY <1>1, <1>2, <1>3, <2>2, <2>3, <2>10, <2>12, <2>13 DEF RunsGoOn
  <2> DEFINE next == [call EXCEPT !.at = "request", !.m = l + 1]
  <2>17. V!GoTo(c, next)
    BY <1>4, <2>3, <2>4
  <2>18. RunShaped(next) /\ next.at = "request" /\ next.m = l + 1 /\ next.left = call.left /\ next.found = call.found /\ next.rounds = call.rounds
    BY <1>1 DEF RunShaped
  <2> HIDE DEF next
  <2>19. RunCallOK(next)'
    <3>1. l + 1 \in DOMAIN messages
      BY <2>10
    <3>2. ASSUME Untroubled', NEW q \in call.found
          PROVE  LeftAlone(q)' \/ PutToHuman(q)' \/ q \in call.left
      <4>1. CASE q = p
        BY <1>1, <4>1
      <4>2. CASE q # p
        <5>1. LeftAlone(q) \/ PutToHuman(q) \/ q \in call.left
          BY <1>1, <2>13, <3>2 DEF RunCallOK
        <5>2. db'.prospects[q] = db.prospects[q]
          BY <1>1, <1>2, <2>2, <2>12, <4>2 DEF RunCallOK
        <5>3. PutToHuman(q) => PutToHuman(q)'
          BY <2>3, <2>10, <2>12 DEF PutToHuman
        <5> QED BY <5>1, <5>2, <5>3 DEF LeftAlone
      <4> QED BY <4>1, <4>2
    <3>3. \A q \in call.left \ {p} : db'.prospects[q].status \in {"QUALIFIED", "DO_NOT_CONTACT"}
      BY <1>1, <1>2, <2>2, <2>12 DEF RunCallOK
    <3>4. call.found \subseteq DOMAIN db'.prospects
      BY <1>1, <1>2, <2>2, <2>12 DEF RunCallOK
    <3> QED BY <1>1, <1>3, <2>7, <2>10, <2>12, <2>13, <2>18, <3>1, <3>2, <3>3, <3>4 DEF RunCallOK, RunPlaces
  <2>20. use.load = 1 => Registry'
    BY <2>12 DEF RunsInv, Registry
  <2> QED BY <1>1, <2>13, <2>15, <2>16, <2>17, <2>18, <2>19, <2>20, RunMoves
<1>5. CASE /\ UNCHANGED db /\ V!GoTo(c, V!NextCandidate(call, p))
           /\ \/ (db.experiment # "ACTIVE" \/ db.prospects[p].status # "QUALIFIED") /\ UNCHANGED use
              \/ V!Fault
  <2>1. RunUseKept /\ RunTablesKept
    BY <1>5, RunFaultFacts DEF RunsInv, RunTables, RunTablesKept
  <2>2. RunUse(use)' /\ RunTables(db)' /\ MessagesOK' /\ RunsGoOn(calls[c].found) /\ (Registry => Registry')
    BY <2>1, RunTablesStay, RunUseStays
  <2>3. Untroubled' => Untroubled /\ db.prospects[p].status = "DO_NOT_CONTACT"
    <3>1. V!Fault => ~ Untroubled'
      BY DEF V!Fault, RunsInv, RunUse, Untroubled
    <3>2. db.prospects[p].status \in {"QUALIFIED", "DO_NOT_CONTACT"}
      BY <1>1 DEF RunCallOK
    <3> QED BY <1>5, <3>1, <3>2 DEF Untroubled
  <2> DEFINE next == V!NextCandidate(call, p)
  <2>4. RunShaped(next) /\ next.at = "draft" /\ next.left = call.left \ {p} /\ next.found = call.found /\ next.rounds = call.rounds
    BY <1>1 DEF RunShaped, V!NextCandidate
  <2> HIDE DEF next
  <2>5. RunCallOK(next)'
    <3>1. ASSUME Untroubled', NEW q \in call.found
          PROVE  LeftAlone(q)' \/ PutToHuman(q)' \/ q \in call.left \ {p}
      BY <1>1, <1>5, <2>3, <3>1 DEF RunCallOK, LeftAlone, PutToHuman
    <3>2. use'.target = use.target
      BY <2>2 DEF RunsGoOn
    <3> QED BY <1>1, <1>5, <2>4, <3>1, <3>2 DEF RunCallOK, RunPlaces
  <2>6. use.load = 1 => Registry
    BY DEF RunsInv
  <2>7. V!GoTo(c, next)
    BY <1>5 DEF next
  <2> QED BY <1>1, <2>2, <2>4, <2>5, <2>6, <2>7, RunMoves
<1> QED BY <1>1, <1>4, <1>5, Zenon DEF V!DraftMessage

LEMMA RequestApprovalKeeps ==
  ASSUME RunsInv, NEW c \in Calls, V!RequestApproval(c)
  PROVE  RunsInv'
<1>1. PICK call : call = calls[c] /\ RunShaped(call) /\ RunCallOK(call) /\ call.at = "request"
  BY DEF RunsInv, V!RequestApproval
<1>2. PICK names, old : old \in Seq(V!ProspectRow(names)) /\ old = db.prospects
  BY DEF RunsInv, RunTables
<1>3. PICK had \in Seq(DiscoveryMessage) : had = db.messages
  BY DEF RunsInv, RunTables
<1>4. PICK m \in DOMAIN had : m = call.m
  BY <1>1, <1>3 DEF RunCallOK
<1>5. PICK p : p = had[m].prospect
  OBVIOUS
<1>6. had[m].requests = 0 /\ p \in call.found /\ p \in DOMAIN old
  BY <1>1, <1>2, <1>3, <1>4, <1>5 DEF RunCallOK
<1>7. \A q \in call.left \ {p} : old[q].status \in {"QUALIFIED", "DO_NOT_CONTACT"}
  BY <1>1, <1>2, <1>3, <1>4, <1>5 DEF RunCallOK
<1> DEFINE next == V!NextCandidate(call, p)
<1>8. RunShaped(next) /\ next.at = "draft" /\ next.left = call.left \ {p} /\ next.found = call.found /\ next.rounds = call.rounds
  BY <1>1 DEF RunShaped, V!NextCandidate
<1> HIDE DEF next
<1>9. /\ V!GoTo(c, next)
      /\ \/ /\ db' = [db EXCEPT !.messages[m].requests = @ + 1,
                                !.prospects[p].status = IF @ = "DRAFT_READY" THEN "AWAITING_HUMAN_APPROVAL" ELSE @]
            /\ UNCHANGED use
         \/ V!Fault /\ UNCHANGED db
  BY <1>1, <1>3, <1>4, <1>5 DEF V!RequestApproval, next
<1>10. CASE V!Fault /\ UNCHANGED db
  <2>1. RunUseKept /\ RunTablesKept
    BY <1>10, RunFaultFacts DEF RunsInv, RunTables, RunTablesKept
  <2>2. RunUse(use)' /\ RunTables(db)' /\ MessagesOK' /\ RunsGoOn(calls[c].found) /\ (Registry => Registry')
    BY <2>1, RunTablesStay, RunUseStays
  <2>3. ~ Untroubled'
    BY <1>10 DEF V!Fault, RunsInv, RunUse, Untroubled
  <2>4. RunCallOK(next)'
    <3>1. use'.target = use.target
      BY <2>2 DEF RunsGoOn
    <3> QED BY <1>1, <1>2, <1>7, <1>8, <1>10, <2>3, <3>1 DEF RunCallOK, RunPlaces
  <2>5. use.load = 1 => Registry
    BY DEF RunsInv
  <2> QED BY <1>1, <1>8, <1>9, <2>2, <2>4, <2>5, RunMoves
<1>11. CASE /\ db' = [db EXCEPT !.messages[m].requests = @ + 1,
                                !.prospects[p].status = IF @ = "DRAFT_READY" THEN "AWAITING_HUMAN_APPROVAL" ELSE @]
            /\ UNCHANGED use
  <2>1. old[p].status \in V!PROSPECT_STATUSES \ {"DISCOVERED", "QUALIFIED"}
    <3>1. PICK row \in V!ProspectRow(names) : row = old[p]
      BY <1>2, <1>6
    <3>2. row.status \in V!PROSPECT_STATUSES
      BY DEF V!ProspectRow
    <3>3. old[p].status \notin {"DISCOVERED", "QUALIFIED"}
      BY <1>2, <1>3, <1>4, <1>5 DEF RunsInv, MessagesOK
    <3> QED BY <3>1, <3>2, <3>3
  <2>2. PICK status \in V!PROSPECT_STATUSES \ {"DISCOVERED", "QUALIFIED"} :
          status = IF old[p].status = "DRAFT_READY" THEN "AWAITING_HUMAN_APPROVAL" ELSE old[p].status
    BY <2>1 DEF V!PROSPECT_STATUSES
  <2>3. PICK rows : rows = [old EXCEPT ![p].status = status]
    OBVIOUS
  <2>4. /\ rows \in Seq(V!ProspectRow(names)) /\ DOMAIN rows = DOMAIN old /\ rows[p].status = status
        /\ \A q \in DOMAIN old : q # p => rows[q] = old[q]
    BY <1>2, <1>6, <2>2, <2>3, StatusWritten
  <2>5. PICK was \in DiscoveryMessage : was = had[m]
    BY <1>3, <1>4
  <2>6. PICK message \in DiscoveryMessage : message = [was EXCEPT !.requests = 1]
    BY <2>5 DEF DiscoveryMessage
  <2>7. message.requests = 1 /\ message.prospect = p
    BY <1>5, <2>5, <2>6 DEF DiscoveryMessage
  <2>80. [had EXCEPT ![m] = message] \in Seq(DiscoveryMessage)
    BY <1>3, <1>4, <2>6
  <2>8. PICK messages \in Seq(DiscoveryMessage) : messages = [had EXCEPT ![m] = message]
    BY <2>80, Zenon
  <2>9. DOMAIN messages = DOMAIN had /\ messages[m] = message /\ \A n \in DOMAIN had : n # m => messages[n] = had[n]
    BY <1>4, <2>8
  <2>10. [had EXCEPT ![m].requests = @ + 1] = messages
    BY <1>4, <1>6, <2>5, <2>6, <2>8
  <2>11. [old EXCEPT ![p].status = IF @ = "DRAFT_READY" THEN "AWAITING_HUMAN_APPROVAL" ELSE @] = rows
    BY <2>2, <2>3
  <2>12. db' = [db EXCEPT !.messages = messages, !.prospects = rows]
    BY <1>2, <1>3, <1>11, <2>10, <2>11
  <2>13. /\ {"prospects", "messages", "agents", "experiment"} \subseteq DOMAIN db' /\ db'.prospects = rows /\ db'.messages = messages
         /\ db'.experiment = db.experiment /\ db'.agents = db.agents
    BY <2>12 DEF RunsInv, RunTables
  <2>14. RunTables(db)' /\ RunUse(use)' /\ use'.target = use.target /\ use'.load = use.load /\ (Untroubled' => Untroubled)
    BY <1>11, <2>4, <2>13 DEF RunsInv, RunTables, RunUse, Untroubled
  <2>15. \A n \in DOMAIN had : n # m => had[n].prospect # p
    BY <1>3, <1>4, <1>5 DEF RunsInv, MessagesOK
  <2>16. \A n \in DOMAIN had : messages[n].prospect = had[n].prospect /\ (n = m \/ messages[n] = had[n])
    BY <1>5, <2>7, <2>9
  <2>17. MessagesOK'
    <3>1. \A n \in DOMAIN messages :
            /\ messages[n].requests <= 1 /\ messages[n].prospect \in DOMAIN rows
            /\ rows[messages[n].prospect].status \notin {"DISCOVERED", "QUALIFIED"}
      BY <1>2, <1>3, <1>6, <2>2, <2>4, <2>7, <2>9, <2>15 DEF RunsInv, MessagesOK
    <3>2. \A n, o \in DOMAIN messages : messages[n].prospect = messages[o].prospect => n = o
      BY <1>3, <2>9, <2>16 DEF RunsInv, MessagesOK
    <3> QED BY <2>13, <3>1, <3>2 DEF MessagesOK
  <2>18. RunsGoOn(calls[c].found)
    BY <1>1, <1>2, <1>3, <1>5, <1>6, <2>4, <2>9, <2>13, <2>14, <2>16 DEF RunsGoOn
  <2>19. RunCallOK(next)'
    <3>1. PutToHuman(p)'
      BY <1>4, <2>7, <2>9, <2>13 DEF PutToHuman
    <3>2. ASSUME Untroubled', NEW q \in call.found
          PROVE  LeftAlone(q)' \/ PutToHuman(q)' \/ q \in call.left \ {p}
      <4>1. CASE q # p
        <5>1. LeftAlone(q) \/ PutToHuman(q) \/ q \in call.left
          BY <1>1, <1>3, <1>4, <1>5, <2>14, <3>2, <4>1 DEF RunCallOK
        <5>2. db'.prospects[q] = db.prospects[q]
          BY <1>1, <1>2, <2>4, <2>13, <4>1 DEF RunCallOK
        <5>3. PutToHuman(q) => PutToHuman(q)'
          BY <1>3, <1>5, <2>9, <2>13, <4>1 DEF PutToHuman
        <5> QED BY <4>1, <5>1, <5>2, <5>3 DEF LeftAlone
      <4> QED BY <3>1, <4>1
    <3>3. call.found \subseteq DOMAIN db'.prospects /\ call.left \subseteq call.found
      BY <1>1, <1>2, <2>4, <2>13 DEF RunCallOK
    <3>4. \A q \in call.left \ {p} : db'.prospects[q].status \in {"QUALIFIED", "DO_NOT_CONTACT"}
      BY <1>2, <1>7, <2>4, <2>13, <3>3
    <3> QED BY <1>1, <1>8, <2>14, <3>2, <3>3, <3>4 DEF RunCallOK, RunPlaces
  <2>20. use.load = 1 => Registry'
    BY <2>13 DEF RunsInv, Registry
  <2> QED BY <1>1, <1>8, <1>9, <2>14, <2>17, <2>18, <2>19, <2>20, RunMoves
<1> QED BY <1>9, <1>10, <1>11

-----------------------------------------------------------------------------
(* Requests, operations of one step, and the whole.                        *)

LEMMA MarkDoNotContactKeeps ==
  ASSUME V!DiscoveryConstants, RunsInv, NEW p \in DOMAIN db.prospects, V!MarkDoNotContact(p)
  PROVE  RunsInv'
<1>1. PICK names, old : old \in Seq(V!ProspectRow(names)) /\ old = db.prospects
  BY DEF RunsInv, RunTables
<1>2. PICK rows : rows = [old EXCEPT ![p].status = "DO_NOT_CONTACT"]
  OBVIOUS
<1>3. /\ rows \in Seq(V!ProspectRow(names)) /\ DOMAIN rows = DOMAIN old /\ rows[p].status = "DO_NOT_CONTACT"
      /\ \A q \in DOMAIN old : q # p => rows[q] = old[q]
  <2>1. p \in DOMAIN old /\ "DO_NOT_CONTACT" \in V!PROSPECT_STATUSES
    BY <1>1 DEF V!PROSPECT_STATUSES
  <2> QED BY <1>1, <1>2, <2>1, StatusWritten
<1>4. db' = [db EXCEPT !.prospects = rows] /\ UNCHANGED calls
  BY <1>1, <1>2 DEF V!MarkDoNotContact
<1>5. /\ {"prospects", "messages", "agents", "experiment"} \subseteq DOMAIN db' /\ db'.prospects = rows
      /\ db'.messages = db.messages /\ db'.experiment = db.experiment /\ db'.agents = db.agents
  BY <1>4 DEF RunsInv, RunTables
<1>6. RunUseKept
  BY RunMayFacts DEF V!MarkDoNotContact
<1>7. RunTables(db)' /\ RunUse(use)' /\ use'.target = use.target /\ use'.load = use.load /\ (Untroubled' => Untroubled)
  BY <1>3, <1>5, <1>6, RunUseStays DEF RunsInv, RunTables, Untroubled
<1>8. MessagesOK'
  BY <1>1, <1>3, <1>5 DEF RunsInv, MessagesOK
<1>9. RunsGoOn({})
  BY <1>1, <1>3, <1>5, <1>7 DEF RunsGoOn
<1> QED BY <1>4, <1>5, <1>7, <1>8, <1>9, RunsWait

LEMMA RunOperations ==
  ASSUME V!DiscoveryConstants, RunsInv,
         \/ \E p, reality : V!Record(p, reality)
         \/ \E i, outcome : V!SetOutcome(i, outcome)
         \/ \E k, status : V!ValidateClaim(k, status)
         \/ V!EndExperiment \/ V!CompileMemo
  PROVE  RunsInv'
<1>1. UNCHANGED calls /\ \E op : V!May(op)
  BY DEF V!Record, V!SetOutcome, V!ValidateClaim, V!EndExperiment, V!CompileMemo
<1>2. RunUseKept
  BY <1>1, RunMayFacts
<1>3. RunTables(db)
  BY DEF RunsInv
<1>4. RunTablesKept
  BY <1>3 DEF V!Record, V!SetOutcome, V!ValidateClaim, V!EndExperiment, V!CompileMemo, RunTables, RunTablesKept
<1> QED BY <1>1, <1>2, <1>4, RunStill

LEMMA RunExperimentKeeps ==
  ASSUME V!DiscoveryConstants, RunsInv, NEW c \in Calls, V!RunExperiment(c)
  PROVE  RunsInv'
<1>1. calls[c].at = "idle" /\ V!May("run") /\ UNCHANGED db /\ V!GoTo(c, [V!Idle EXCEPT !.at = "agents", !.op = "run", !.todo = V!Roles])
  BY DEF V!RunExperiment, V!Begin
<1>2. RunUseKept /\ (use.load = 1 => \A d \in Calls : calls[d].at = "idle")
  BY <1>1, RunMayFacts
<1>3. RunTablesKept
  BY <1>1 DEF RunsInv, RunTables, RunTablesKept
<1>4. RunUse(use)' /\ RunTables(db)' /\ MessagesOK' /\ RunsGoOn(calls[c].found) /\ (Registry => Registry')
  BY <1>2, <1>3, RunTablesStay, RunUseStays
<1>5. PICK todo \in Seq(AgentRole) : todo = V!Roles
  BY Roster
<1> DEFINE next == [V!Idle EXCEPT !.at = "agents", !.op = "run", !.todo = todo]
<1>6. RunShaped(next) /\ next.found = {} /\ next.left = {} /\ next.rounds = 0 /\ next.at = "agents" /\ next.todo = todo
  BY DEF V!Idle, RunShaped
<1>7. V!GoTo(c, next)
  BY <1>1, <1>5
<1> HIDE DEF next
<1>8. RunCallOK(next)'
  BY <1>4, <1>5, <1>6, HiringOK
<1>9. use.load = 1 => Registry
  BY DEF RunsInv
<1> QED BY <1>2, <1>4, <1>6, <1>7, <1>8, <1>9, RunMoves

LEMMA RunMemoSteps ==
  ASSUME V!DiscoveryConstants, RunsInv, NEW c \in Calls,
         (\E m, decision : V!DecideMemo(c, m, decision)) \/ V!RecordHumanDecision(c) \/ V!AnnounceValidated(c)
  PROVE  RunsInv'
<1>1. RunUseKept /\ (calls[c].at # "idle" \/ (use.load = 1 => \A d \in Calls : calls[d].at = "idle"))
  BY RunMayFacts, RunFaultFacts DEF V!DecideMemo, V!RecordHumanDecision, V!AnnounceValidated, V!Begin
<1>2. RunTables(db)
  BY DEF RunsInv
<1>3. RunTablesKept
  BY <1>2 DEF V!DecideMemo, V!RecordHumanDecision, V!AnnounceValidated, RunTables, RunTablesKept
<1>4. \E next : V!GoTo(c, next) /\ EmptyHanded(next)
  <2>1. ASSUME NEW m, NEW decision, V!DecideMemo(c, m, decision) PROVE \E next : V!GoTo(c, next) /\ EmptyHanded(next)
    <3> DEFINE next == [V!Idle EXCEPT !.at = "decide", !.m = m, !.decision = decision]
    <3>1. EmptyHanded(next)
      BY DEF V!Idle, EmptyHanded, RunShaped
    <3>2. V!GoTo(c, next)
      BY <2>1 DEF V!DecideMemo
    <3> HIDE DEF next
    <3> QED BY <3>1, <3>2
  <2>2. CASE V!RecordHumanDecision(c)
    <3>1. PICK call : call = calls[c] /\ RunShaped(call) /\ call.found = {} /\ call.left = {} /\ call.rounds = 0
      BY <2>2, FoundNothing DEF RunPlaces, V!RecordHumanDecision
    <3> DEFINE next == [call EXCEPT !.at = "announce"]
    <3>2. EmptyHanded(next)
      BY <3>1 DEF EmptyHanded, RunShaped
    <3>3. V!GoTo(c, next) \/ V!GoTo(c, V!Idle)
      BY <2>2, <3>1 DEF V!RecordHumanDecision, V!Return
    <3> HIDE DEF next
    <3> QED BY <3>2, <3>3, RunsIdle
  <2>3. CASE V!AnnounceValidated(c)
    BY <2>3, RunsIdle DEF V!AnnounceValidated, V!Return
  <2> QED BY <2>1, <2>2, <2>3
<1> QED BY <1>1, <1>3, <1>4, RunAside

LEMMA RunRequests ==
  ASSUME V!DiscoveryConstants, RunsInv, NEW c \in Calls,
         \/ V!Evaluate(c) \/ V!RunIcpAnalyst(c)
         \/ \E i, field, provenance, strength : V!AttachFinding(c, i, field, provenance, strength)
  PROVE  RunsInv'
<1>1. calls[c].at = "idle" /\ \E op : V!May(op)
  BY DEF V!Evaluate, V!RunIcpAnalyst, V!AttachFinding, V!Begin
<1>2. RunUseKept /\ (use.load = 1 => \A d \in Calls : calls[d].at = "idle")
  BY <1>1, RunMayFacts
<1>3. RunTables(db)
  BY DEF RunsInv
<1>4. RunTablesKept
  BY <1>3 DEF V!Evaluate, V!RunIcpAnalyst, V!AttachFinding, RunTables, RunTablesKept
<1>5. UNCHANGED calls \/ \E next : V!GoTo(c, next) /\ EmptyHanded(next)
  <2>1. CASE V!Evaluate(c)
    <3>1. PICK seen, todo : V!GoTo(c, [V!Idle EXCEPT !.at = "gather", !.seen = seen, !.todo = todo])
      BY <2>1, Zenon DEF V!Evaluate
    <3> DEFINE next == [V!Idle EXCEPT !.at = "gather", !.seen = seen, !.todo = todo]
    <3>2. EmptyHanded(next)
      BY DEF V!Idle, EmptyHanded, RunShaped
    <3>3. V!GoTo(c, next)
      BY <3>1
    <3> HIDE DEF next
    <3> QED BY <3>2, <3>3
  <2>2. CASE V!RunIcpAnalyst(c)
    <3>1. PICK profile : V!GoTo(c, [V!Idle EXCEPT !.at = "profile", !.op = "icp", !.profile = profile])
      BY <2>2, Zenon DEF V!RunIcpAnalyst
    <3> DEFINE next == [V!Idle EXCEPT !.at = "profile", !.op = "icp", !.profile = profile]
    <3>2. EmptyHanded(next)
      BY DEF V!Idle, EmptyHanded, RunShaped
    <3>3. V!GoTo(c, next)
      BY <3>1
    <3> HIDE DEF next
    <3> QED BY <3>2, <3>3
  <2>3. ASSUME NEW i, NEW f, V!GoTo(c, [V!Idle EXCEPT !.at = "collect", !.i = i, !.f = f])
        PROVE  \E next : V!GoTo(c, next) /\ EmptyHanded(next)
    <3> DEFINE next == [V!Idle EXCEPT !.at = "collect", !.i = i, !.f = f]
    <3>2. EmptyHanded(next)
      BY DEF V!Idle, EmptyHanded, RunShaped
    <3>3. V!GoTo(c, next)
      BY <2>3
    <3> HIDE DEF next
    <3> QED BY <3>2, <3>3
  <2>4. CASE \E i, field, provenance, strength : V!AttachFinding(c, i, field, provenance, strength)
    <3>1. UNCHANGED calls \/ \E i, f : V!GoTo(c, [V!Idle EXCEPT !.at = "collect", !.i = i, !.f = f])
      BY <2>4, Zenon DEF V!AttachFinding
    <3> QED BY <2>3, <3>1
  <2> QED BY <2>1, <2>2, <2>4
<1>6. CASE UNCHANGED calls
  BY <1>2, <1>4, <1>6, RunStill
<1>7. CASE ~ UNCHANGED calls
  BY <1>2, <1>4, <1>5, <1>7, RunAside
<1> QED BY <1>6, <1>7

LEMMA RunsRestart ==
  ASSUME RunsInv, V!Restart
  PROVE  RunsInv'
<1>1. /\ RunUse(use)' /\ use'.target = use.target /\ use'.load = use.load /\ (use'.faults = use'.mishaps => use.faults = use.mishaps)
      /\ DOMAIN calls' = Calls /\ \A c \in Calls : calls'[c] = V!Idle
      /\ UNCHANGED db
  BY DEF V!Restart, RunsInv, RunUse
<1>2. RunTables(db)' /\ MessagesOK'
  BY <1>1 DEF RunsInv, RunTables, MessagesOK
<1>3. PICK idle : idle = V!Idle /\ EmptyHanded(idle) /\ idle.at = "idle"
  BY RunsIdle
<1>4. RunCallOK(idle)'
  BY <1>1, <1>3, EmptyHandedOK
<1>5. \A c \in Calls : RunShaped(calls[c])' /\ RunCallOK(calls[c])'
  BY <1>1, <1>3, <1>4 DEF EmptyHanded, RunShaped, RunCallOK
<1>6. RunsApart'
  BY <1>1, <1>3 DEF RunsApart, EmptyHanded
<1>7. use'.load = 1 => OneCallInFlight' /\ Registry' /\ \A c \in Calls : calls'[c].at # "createAgent"
  BY <1>1, <1>3 DEF RunsInv, OneCallInFlight, Registry
<1> QED BY <1>1, <1>2, <1>5, <1>6, <1>7 DEF RunsInv

LEMMA RunsInitInv ==
  ASSUME V!DiscoveryConstants, V!DiscoveryInit
  PROVE  RunsInv
<1>1. use \in DiscoveryUses /\ calls = [c \in Calls |-> V!Idle]
  BY DEF V!DiscoveryInit
<1>2. /\ {"prospects", "messages", "agents", "experiment"} \subseteq DOMAIN db
      /\ db.prospects = use.prospects /\ db.messages = <<>> /\ db.agents = use.agents
  BY DEF V!DiscoveryInit
<1>30. V!IsFiniteSet(use.unfound) <=> IsFiniteSet(use.unfound)
  BY DiscoveryCounts
<1>3. /\ {"load", "crashes", "restarts", "faults", "mishaps", "unfound", "target", "prospects", "agents"} \subseteq DOMAIN use
      /\ use.load \in Nat /\ use.mishaps \in Nat /\ use.faults = use.mishaps
      /\ IsFiniteSet(use.unfound) /\ use.target \in Nat
      /\ use.prospects \in Seq(V!ProspectRow({use.prospects[p].org : p \in DOMAIN use.prospects}))
      /\ use.agents \in Seq({V!Roles[n] : n \in DOMAIN V!Roles})
      /\ \A a, b \in DOMAIN use.agents : use.agents[a] = use.agents[b] => a = b
  BY <1>1, <1>30, Zenon DEF V!DiscoveryConstants
<1>4. RunUse(use)
  BY <1>3 DEF RunUse
<1>5. RunTables(db)
  <2>1. {V!Roles[n] : n \in DOMAIN V!Roles} \subseteq AgentRole
    BY Roster
  <2>2. use.agents \in Seq(AgentRole)
    BY <1>3, <2>1, SeqMonotonic
  <2>3. <<>> \in Seq(DiscoveryMessage)
    OBVIOUS
  <2>4. \E names : use.prospects \in Seq(V!ProspectRow(names))
    BY <1>3, Zenon
  <2> QED BY <1>2, <2>2, <2>3, <2>4 DEF RunTables
<1>6. MessagesOK
  BY <1>2 DEF MessagesOK
<1>7. Registry
  BY <1>2, <1>3 DEF Registry
<1>8. PICK idle : idle = V!Idle /\ EmptyHanded(idle) /\ idle.at = "idle"
  BY RunsIdle
<1>9. RunCallOK(idle)
  <2>1. IsFiniteSet({}) /\ Cardinality({}) = 0
    BY FS_EmptySet
  <2> QED BY <1>4, <1>8, <2>1 DEF EmptyHanded, RunCallOK, RunUse
<1>10. \A c \in Calls : calls[c] = idle
  BY <1>1, <1>8
<1>11. RunsApart /\ OneCallInFlight
  BY <1>8, <1>10 DEF RunsApart, EmptyHanded, OneCallInFlight
<1>12. RunShaped(idle)
  BY <1>8 DEF EmptyHanded
<1> QED BY <1>1, <1>4, <1>5, <1>6, <1>7, <1>8, <1>9, <1>10, <1>11, <1>12 DEF RunsInv

LEMMA RunsNextInv ==
  ASSUME V!DiscoveryConstants, RunsInv, V!CustomerDiscoveryNext \/ UNCHANGED V!vars
  PROVE  RunsInv'
<1>1. CASE UNCHANGED V!vars
  <2>1. RunUseKept /\ RunTablesKept /\ UNCHANGED calls
    BY <1>1 DEF V!vars, RunsInv, RunTables, RunUseKept, RunTablesKept
  <2> QED BY <2>1, RunStill
<1>2. ASSUME NEW c \in Calls, V!Step(c) PROVE RunsInv'
  <2>1. CASE V!CollectEvidence(c) \/ V!AttachEvidence(c) \/ V!CreateCustomerEvidence(c) \/ V!MarkPromoted(c) \/ V!ListForInteraction(c) \/ V!Answer(c)
    BY <2>1, RunEvidenceSteps
  <2>2. CASE V!CreateProfile(c) \/ V!WireRead(c) \/ V!WireField(c) \/ V!WireEnd(c) \/ V!GrantReadWeb(c) \/ V!FindProfile(c)
    BY <2>2, RunProfileSteps
  <2>3. CASE V!FindAgent(c) \/ V!CreateAgent(c)
    BY <2>3, FindAgentKeeps, CreateAgentKeeps
  <2>4. CASE V!ResearchFinds(c) \/ V!ResearchEnds(c) \/ V!RefreshProspects(c)
    BY <2>4, ResearchFindsKeeps, ResearchEndsKeeps, RefreshProspectsKeeps
  <2>5. ASSUME NEW p \in calls[c].left, V!DraftMessage(c, p) PROVE RunsInv'
    BY <2>5, DraftMessageKeeps
  <2>6. ASSUME NEW p \in calls[c].left, NEW verdict \in {"QUALIFIED", "REJECTED", "FAILED"}, V!QualifyProspect(c, p, verdict) PROVE RunsInv'
    BY <2>6, QualifyProspectKeeps
  <2>7. CASE V!RequestApproval(c) \/ V!Report(c) \/ V!ReportSent(c) \/ V!AgentThrows(c)
    BY <2>7, RequestApprovalKeeps, ReportKeeps, RunReturns
  <2>8. CASE V!RecordHumanDecision(c) \/ V!AnnounceValidated(c)
    BY <2>8, RunMemoSteps
  <2> QED BY <1>2, <2>1, <2>2, <2>3, <2>4, <2>5, <2>6, <2>7, <2>8, Zenon DEF V!Step
<1>3. ASSUME NEW c \in Calls, V!Request(c) PROVE RunsInv'
  <2>1. CASE \E m, decision : V!DecideMemo(c, m, decision)
    BY <2>1, RunMemoSteps
  <2>2. CASE \/ V!Evaluate(c) \/ V!RunIcpAnalyst(c)
             \/ \E i, field, provenance, strength : V!AttachFinding(c, i, field, provenance, strength)
    BY <2>2, RunRequests
  <2>3. CASE V!RunExperiment(c)
    BY <2>3, RunExperimentKeeps
  <2> QED BY <1>3, <2>1, <2>2, <2>3, Zenon DEF V!Request
<1>4. ASSUME NEW p \in DOMAIN db.prospects, V!MarkDoNotContact(p) PROVE RunsInv'
  BY <1>4, MarkDoNotContactKeeps
<1>5. CASE \/ \E p, reality : V!Record(p, reality)
           \/ \E i, outcome : V!SetOutcome(i, outcome)
           \/ \E k, status : V!ValidateClaim(k, status)
           \/ V!EndExperiment \/ V!CompileMemo
  BY <1>5, RunOperations
<1>6. CASE V!Restart
  BY <1>6, RunsRestart
<1> QED BY <1>1, <1>2, <1>3, <1>4, <1>5, <1>6, Zenon DEF V!CustomerDiscoveryNext

LEMMA RunsInvImplies ==
  ASSUME RunsInv
  PROVE  V!DiscoveryRunsStopAtTheHuman
<1>1. \A m, n \in DOMAIN db.messages : db.messages[m].requests <= 1 /\ (db.messages[m].prospect = db.messages[n].prospect => m = n)
  BY DEF RunsInv, MessagesOK
<1>2. \A c \in Calls : calls[c].rounds <= use.target
  BY DEF RunsInv, RunCallOK
<1>3. ASSUME NEW c \in Calls, calls[c].at = "report", use.faults = use.mishaps, db.experiment = "ACTIVE", NEW p \in calls[c].found
      PROVE  \/ db.prospects[p].status \in {"REJECTED", "DO_NOT_CONTACT"}
             \/ \E m \in DOMAIN db.messages : db.messages[m].prospect = p /\ db.messages[m].requests = 1
  BY <1>3 DEF RunsInv, RunCallOK, Untroubled, LeftAlone, PutToHuman
<1>4. use.load = 1 => \A a, b \in DOMAIN db.agents : db.agents[a] = db.agents[b] => a = b
  BY DEF RunsInv, Registry
<1> QED BY <1>1, <1>2, <1>3, <1>4 DEF V!DiscoveryRunsStopAtTheHuman

-----------------------------------------------------------------------------
(* Growth experiments.                                                     *)

LEMMA GrowthCounts == \A S : (G!IsFiniteSet(S) <=> IsFiniteSet(S)) /\ G!Cardinality(S) = Cardinality(S)
BY DEF G!IsFiniteSet, IsFiniteSet, G!Cardinality, Cardinality

ExperimentStatus == DOMAIN G!GROWTH_EXPERIMENT_TRANSITIONS
Verdicts == {"APPROVED", "REJECTED"}
GrowthCall ==
  [at : {"idle", "statusRead", "statusWrite", "ask", "bind", "apply", "run", "check", "start", "result", "end"},
   op : {"none", "propose", "request", "apply", "run", "complete"}, e : Nat, a : Nat,
   to : {"none", "ANALYZED", "AWAITING_APPROVAL"} \cup Verdicts, auto : BOOLEAN, saw : G!Observed]
ExperimentRow(T) == [status : ExperimentStatus, claim : T, approval : Nat]
Asked == [exp : Nat, status : {"PENDING", "APPROVED", "REJECTED", "EXPIRED"}, lapsed : BOOLEAN]
ExperimentRun == [exp : Nat, approval : Nat]
Outcome == [exp : Nat, confidence : {"LOW_CONFIDENCE", "HIGH_CONFIDENCE", "MODERATE"}, decision : {"INCONCLUSIVE", "POSITIVE", "NEGATIVE"}]

GrowthTables(T) == [experiments : Seq(ExperimentRow(T)), approvals : Seq(Asked), results : Seq(Outcome), halted : BOOLEAN]

GrowthTypes ==
  /\ use \in G!Use
  /\ \E T : db \in GrowthTables(T)
  /\ calls \in [Calls -> GrowthCall]
  /\ history \in Seq(ExperimentRun)

Ran(e) == \E i \in DOMAIN history : history[i].exp = e
ApprovedFor(a, e) == a \in DOMAIN db.approvals /\ db.approvals[a].exp = e /\ db.approvals[a].status = "APPROVED"
Put(e) == \E a \in DOMAIN db.approvals : db.approvals[a].exp = e

(* Whatever races: what a call carries was so when it was read, and is final. *)
GrowthCallOK(call) ==
  /\ call.at \notin {"idle", "apply"} => call.e \in DOMAIN db.experiments
  /\ call.at \in {"statusRead", "statusWrite"} =>
       CASE call.op = "propose" -> call.to = "ANALYZED"
         [] call.op = "request" -> call.to = "AWAITING_APPROVAL"
         [] OTHER               -> call.op = "apply" /\ call.to \in Verdicts
  /\ call.at = "apply" => call.op = "apply" /\ call.a \in DOMAIN db.approvals /\ db.approvals[call.a].status \in Verdicts
  /\ call.at = "bind" => call.a \in DOMAIN db.approvals
  /\ call.at = "start" => ApprovedFor(call.a, call.e)
  /\ call.at \in {"result", "end"} => Ran(call.e)

(* One call at a time: what it read of the status still holds.             *)
GrowthSerialCallOK(call) ==
  LET status == db.experiments[call.e].status
  IN  /\ call.at \in {"statusRead", "statusWrite"} /\ call.op = "propose" => status = "DRAFT"
      /\ call.at = "statusWrite" => call.to \in G!GROWTH_EXPERIMENT_TRANSITIONS[status]
      /\ call.at = "ask" => status = "AWAITING_APPROVAL" /\ ~Put(call.e)
      /\ call.at = "start" => status = "APPROVED"


GrowthRowsOK ==
  /\ \A e \in DOMAIN db.experiments : db.experiments[e].approval \in {0} \cup DOMAIN db.approvals
  /\ \A a \in DOMAIN db.approvals : db.approvals[a].exp \in DOMAIN db.experiments
  /\ \A i \in DOMAIN history : history[i].exp \in DOMAIN db.experiments /\ ApprovedFor(history[i].approval, history[i].exp)
  /\ \A e \in DOMAIN db.experiments : db.experiments[e].status \in {"RUNNING", "COMPLETED"} => Ran(e)

GrowthSerialRowsOK ==
  /\ \A i, j \in DOMAIN history : history[i].exp = history[j].exp => i = j
  /\ \A a, b \in DOMAIN db.approvals : db.approvals[a].exp = db.approvals[b].exp => a = b
  /\ \A e \in DOMAIN db.experiments :
       /\ Ran(e) => db.experiments[e].status \in {"RUNNING", "COMPLETED"}
       /\ Put(e) => db.experiments[e].status \notin {"DRAFT", "ANALYZED"}

GrowthInv ==
  /\ GrowthTypes
  /\ \A c \in Calls : GrowthCallOK(calls[c])
  /\ GrowthRowsOK
  /\ use.load = 1 => OneCallInFlight /\ GrowthSerialRowsOK /\ \A c \in Calls : GrowthSerialCallOK(calls[c])

-----------------------------------------------------------------------------
LEMMA GrowthIdle == G!Idle \in GrowthCall /\ G!Idle.at = "idle" /\ GrowthCallOK(G!Idle) /\ GrowthSerialCallOK(G!Idle)
<1>1. G!Idle \in GrowthCall /\ G!Idle.at = "idle"
  BY DEF G!Idle, GrowthCall, G!Observed
<1> QED BY <1>1 DEF GrowthCallOK, GrowthSerialCallOK

LEMMA GrowthRowFacts ==
  ASSUME GrowthTypes
  PROVE  /\ \A e \in DOMAIN db.experiments :
              e \in Nat /\ db.experiments[e].status \in ExperimentStatus /\ db.experiments[e].approval \in Nat
         /\ \A a \in DOMAIN db.approvals : a \in Nat /\ db.approvals[a] \in Asked
<1>1. PICK T : db \in GrowthTables(T)
  BY DEF GrowthTypes
<1>2. db.experiments \in Seq(ExperimentRow(T)) /\ db.approvals \in Seq(Asked)
  BY <1>1 DEF GrowthTables
<1>3. \A e \in DOMAIN db.experiments : e \in Nat /\ db.experiments[e] \in ExperimentRow(T)
  BY <1>2
<1> QED BY <1>2, <1>3 DEF ExperimentRow

LEMMA GrowthBeginFacts ==
  ASSUME G!GrowthConstants, GrowthTypes, NEW c \in Calls, NEW op, G!Begin(op, c)
  PROVE  calls[c].at = "idle" /\ (use.load = 1 => \A d \in Calls : calls[d].at = "idle")
<1> DEFINE busy == {d \in Calls : calls[d].at # "idle"}
<1>1. IsFiniteSet(busy)
  BY FS_Subset, GrowthCounts DEF G!GrowthConstants
<1>2. Cardinality(busy) < use.load /\ calls[c].at = "idle"
  BY GrowthCounts DEF G!Begin
<1>3. Cardinality(busy) \in Nat
  BY <1>1, FS_CardinalityType
<1>4. use.load = 1 => Cardinality(busy) = 0
  BY <1>2, <1>3
<1>5. Cardinality(busy) = 0 => busy = {}
  BY <1>1, FS_EmptySet
<1> QED BY <1>2, <1>4, <1>5

(* Rows stay, verdicts are final, and what was started was started.        *)
Grown ==
  /\ DOMAIN db.experiments \subseteq DOMAIN db'.experiments
  /\ \A a \in DOMAIN db.approvals :
       /\ a \in DOMAIN db'.approvals /\ db'.approvals[a].exp = db.approvals[a].exp
       /\ db.approvals[a].status \in Verdicts => db'.approvals[a].status = db.approvals[a].status
  /\ \A i \in DOMAIN history : i \in DOMAIN history' /\ history'[i] = history[i]

LEMMA GrownFacts ==
  ASSUME Grown
  PROVE  /\ \A e : Ran(e) => Ran(e)'
         /\ \A a, e : ApprovedFor(a, e) => ApprovedFor(a, e)'
BY DEF Grown, Ran, ApprovedFor, Verdicts

LEMMA GrowthCallStep ==
  ASSUME GrowthInv, NEW c \in Calls, NEW call \in GrowthCall, G!GoTo(c, call), Grown, use'.load = use.load,
         calls[c].at # "idle" \/ (use.load = 1 => \A d \in Calls : calls[d].at = "idle"),
         GrowthCallOK(call)', use.load = 1 => GrowthSerialCallOK(call)'
  PROVE  /\ calls' \in [Calls -> GrowthCall] /\ \A d \in Calls : GrowthCallOK(calls[d])'
         /\ use'.load = 1 => OneCallInFlight' /\ \A d \in Calls : GrowthSerialCallOK(calls[d])'
<1>1. /\ calls' \in [Calls -> GrowthCall] /\ calls'[c] = call
      /\ \A d \in Calls \ {c} : calls'[d] = calls[d]
  BY DEF G!GoTo, GrowthInv, GrowthTypes
<1>2. ASSUME NEW other \in GrowthCall, GrowthCallOK(other) PROVE GrowthCallOK(other)'
  BY <1>2, GrownFacts DEF GrowthCallOK, Grown
<1>3. ASSUME NEW d \in Calls \ {c} PROVE GrowthCallOK(calls[d])'
  <2>1. PICK other \in GrowthCall : other = calls[d]
    BY DEF GrowthInv, GrowthTypes
  <2>2. GrowthCallOK(other)
    BY <2>1 DEF GrowthInv
  <2>3. GrowthCallOK(other)'
    BY <1>2, <2>2
  <2> QED BY <1>1, <2>1, <2>3 DEF GrowthCallOK, Ran, ApprovedFor
<1>4. GrowthCallOK(calls[c])'
  BY <1>1 DEF GrowthCallOK, Ran, ApprovedFor
<1>5. ASSUME use.load = 1 PROVE OneCallInFlight' /\ \A d \in Calls : GrowthSerialCallOK(calls[d])'
  <2>1. \A d \in Calls \ {c} : calls[d].at = "idle"
    BY <1>5 DEF GrowthInv, OneCallInFlight
  <2>2. OneCallInFlight'
    BY <1>1, <2>1 DEF OneCallInFlight
  <2>3. \A d \in Calls \ {c} : GrowthSerialCallOK(calls[d])'
    BY <1>1, <2>1 DEF GrowthSerialCallOK
  <2>4. GrowthSerialCallOK(calls[c])'
    BY <1>1, <1>5 DEF GrowthSerialCallOK, Put
  <2> QED BY <2>2, <2>3, <2>4
<1> QED BY <1>1, <1>3, <1>4, <1>5

(* A call goes on without touching the tables.                             *)
LEMMA GrowthPassOn ==
  ASSUME GrowthInv, NEW c \in Calls, NEW call \in GrowthCall, G!GoTo(c, call), UNCHANGED <<db, history>>,
         use' \in G!Use, use'.load = use.load,
         calls[c].at # "idle" \/ (use.load = 1 => \A d \in Calls : calls[d].at = "idle"),
         GrowthCallOK(call), use.load = 1 => GrowthSerialCallOK(call)
  PROVE  GrowthInv'
<1>1. Grown
  BY DEF Grown
<1>2. GrowthCallOK(call)' /\ (use.load = 1 => GrowthSerialCallOK(call)')
  BY DEF GrowthCallOK, GrowthSerialCallOK, Ran, ApprovedFor, Put
<1>3. /\ calls' \in [Calls -> GrowthCall] /\ \A d \in Calls : GrowthCallOK(calls[d])'
      /\ use'.load = 1 => OneCallInFlight' /\ \A d \in Calls : GrowthSerialCallOK(calls[d])'
  BY <1>1, <1>2, GrowthCallStep
<1>4. GrowthTypes'
  BY <1>3 DEF GrowthInv, GrowthTypes
<1>5. GrowthRowsOK' /\ (use'.load = 1 => GrowthSerialRowsOK')
  BY DEF GrowthInv, GrowthRowsOK, GrowthSerialRowsOK, Ran, ApprovedFor, Put
<1> QED BY <1>3, <1>4, <1>5 DEF GrowthInv

LEMMA GrowthStepsThatRead ==
  ASSUME G!GrowthConstants, GrowthInv, NEW c \in Calls,
         \/ G!StatusRead(c) \/ G!AskNobody(c) \/ G!ApplyRead(c) \/ G!StopCheck(c) \/ G!StartCheck(c)
  PROVE  GrowthInv'
<1> USE GrowthIdle
<1>0. PICK call \in GrowthCall : call = calls[c]
  BY DEF GrowthInv, GrowthTypes
<1>1. GrowthCallOK(call) /\ (use.load = 1 => GrowthSerialCallOK(call)) /\ use \in G!Use
  BY <1>0 DEF GrowthInv, GrowthTypes
<1>2. CASE G!StatusRead(c)
  <2>1. CASE call.to \in G!GROWTH_EXPERIMENT_TRANSITIONS[db.experiments[call.e].status]
    <3> DEFINE next == [call EXCEPT !.at = "statusWrite"]
    <3>1. next \in GrowthCall /\ G!GoTo(c, next) /\ call.at = "statusRead" /\ UNCHANGED <<use, db, history>>
      BY <1>0, <1>2, <2>1 DEF G!StatusRead, GrowthCall
    <3>2. GrowthCallOK(next) /\ (use.load = 1 => GrowthSerialCallOK(next))
      BY <1>1, <2>1, <3>1 DEF GrowthCallOK, GrowthSerialCallOK, GrowthCall
    <3> HIDE DEF next
    <3> QED BY <1>0, <1>1, <3>1, <3>2, GrowthPassOn
  <2>2. CASE call.to \notin G!GROWTH_EXPERIMENT_TRANSITIONS[db.experiments[call.e].status]
    BY <1>0, <1>1, <1>2, <2>2, GrowthPassOn DEF G!StatusRead, G!Return
  <2> QED BY <2>1, <2>2
<1>3. CASE G!AskNobody(c)
  <2>1. use' \in G!Use /\ use'.load = use.load
    <3>1. PICK u \in G!Use : u = use
      BY <1>1
    <3>2. u.faults - 1 \in Nat
      BY <1>3, <3>1 DEF G!AskNobody, G!Use
    <3>3. [u EXCEPT !.faults = @ - 1] \in G!Use /\ [u EXCEPT !.faults = @ - 1].load = u.load
      BY <3>2 DEF G!Use
    <3> QED BY <1>3, <3>1, <3>3 DEF G!AskNobody
  <2> QED BY <1>1, <1>3, <2>1, GrowthPassOn DEF G!AskNobody, G!Return
<1>4. CASE G!ApplyRead(c)
  <2> DEFINE a == call.a
             e == db.approvals[a].exp
             status == db.experiments[e].status
             read == [call EXCEPT !.at = "statusRead", !.e = e, !.to = db.approvals[a].status]
             run == [call EXCEPT !.at = "run", !.e = e]
  <2>1. call.at = "apply" /\ UNCHANGED <<use, db, history>>
    BY <1>0, <1>4 DEF G!ApplyRead
  <2>2. /\ a \in DOMAIN db.approvals /\ db.approvals[a].status \in Verdicts /\ call.op = "apply"
        /\ e \in DOMAIN db.experiments /\ e \in Nat
    BY <1>1, <2>1, GrowthRowFacts DEF GrowthCallOK, GrowthInv, GrowthRowsOK
  <2>3. read \in GrowthCall /\ run \in GrowthCall /\ read.at = "statusRead" /\ run.at = "run"
    BY <2>2 DEF GrowthCall, Verdicts
  <2>4. GrowthCallOK(read) /\ GrowthCallOK(run) /\ GrowthSerialCallOK(read) /\ GrowthSerialCallOK(run)
    BY <2>2 DEF GrowthCallOK, GrowthSerialCallOK, GrowthCall
  <2>5. G!GoTo(c, read) \/ G!GoTo(c, run) \/ G!GoTo(c, G!Idle)
    BY <1>0, <1>4 DEF G!ApplyRead, G!Return
  <2> HIDE DEF read, run
  <2> QED BY <1>0, <1>1, <2>1, <2>3, <2>4, <2>5, GrowthPassOn
<1>5. CASE G!StopCheck(c)
  <2> DEFINE next == [call EXCEPT !.at = "check"]
  <2>1. call.at = "run" /\ UNCHANGED <<use, db, history>> /\ (G!GoTo(c, next) \/ G!GoTo(c, G!Idle))
    BY <1>0, <1>5 DEF G!StopCheck, G!Return
  <2>2. next \in GrowthCall /\ GrowthCallOK(next) /\ GrowthSerialCallOK(next)
    BY <1>1, <2>1 DEF GrowthCall, GrowthCallOK, GrowthSerialCallOK
  <2> HIDE DEF next
  <2> QED BY <1>0, <1>1, <2>1, <2>2, GrowthPassOn
<1>6. CASE G!StartCheck(c)
  <2> DEFINE a == db.experiments[call.e].approval
             next == [call EXCEPT !.at = "start", !.a = a]
  <2>1. call.at = "check" /\ UNCHANGED <<use, db, history>> /\ (G!GoTo(c, G!Idle) \/ (G!GoTo(c, next) /\ G!Startable(call.e)))
    BY <1>0, <1>6 DEF G!StartCheck, G!Return
  <2>2. CASE G!GoTo(c, G!Idle)
    BY <1>0, <1>1, <2>1, <2>2, GrowthPassOn
  <2>3. CASE G!GoTo(c, next) /\ G!Startable(call.e)
    <3>1. call.e \in DOMAIN db.experiments
      BY <1>1, <2>1 DEF GrowthCallOK
    <3>2. a \in Nat
      BY <3>1, GrowthRowFacts DEF GrowthInv
    <3>3. a \in DOMAIN db.approvals
      BY <2>3, <3>1 DEF GrowthInv, GrowthRowsOK, G!Startable
    <3>4. next \in GrowthCall /\ GrowthCallOK(next) /\ GrowthSerialCallOK(next)
      BY <2>1, <2>3, <3>1, <3>2, <3>3 DEF GrowthCall, GrowthCallOK, GrowthSerialCallOK, G!Startable, ApprovedFor
    <3> HIDE DEF next
    <3> QED BY <1>0, <1>1, <2>1, <2>3, <3>4, GrowthPassOn
  <2> QED BY <2>1, <2>2, <2>3
<1> QED BY <1>2, <1>3, <1>4, <1>5, <1>6

LEMMA GrowthStepsThatBegin ==
  ASSUME G!GrowthConstants, GrowthInv, NEW c \in Calls,
         \/ \E e \in DOMAIN db.experiments : G!RequestApproval(c, e) \/ G!ApproveToRun(c, e)
         \/ \E a \in DOMAIN db.approvals : G!ApplyDecision(c, a)
         \/ \E e \in DOMAIN db.experiments, saw \in use.measured : G!CompleteExperiment(c, e, saw)
  PROVE  GrowthInv'
<1> USE GrowthIdle
<1>1. use \in G!Use /\ GrowthTypes /\ DOMAIN db.experiments \subseteq Nat /\ DOMAIN db.approvals \subseteq Nat
  BY DEF GrowthInv, GrowthTypes, GrowthTables
<1>2. ASSUME NEW e \in DOMAIN db.experiments, G!RequestApproval(c, e) PROVE GrowthInv'
  <2> DEFINE next == [G!Idle EXCEPT !.at = "statusRead", !.op = "request", !.e = e, !.to = "AWAITING_APPROVAL"]
  <2>1. next \in GrowthCall /\ GrowthCallOK(next) /\ GrowthSerialCallOK(next)
    BY <1>1 DEF G!Idle, GrowthCall, G!Observed, GrowthCallOK, GrowthSerialCallOK
  <2>2. G!GoTo(c, next) /\ UNCHANGED <<use, db, history>>
    BY <1>2 DEF G!RequestApproval
  <2>3. calls[c].at = "idle" /\ (use.load = 1 => \A d \in Calls : calls[d].at = "idle")
    BY <1>1, <1>2, GrowthBeginFacts DEF G!RequestApproval
  <2> HIDE DEF next
  <2> QED BY <1>1, <2>1, <2>2, <2>3, GrowthPassOn
<1>3. ASSUME NEW e \in DOMAIN db.experiments, G!ApproveToRun(c, e) PROVE GrowthInv'
  <2> DEFINE next == [G!Idle EXCEPT !.at = "run", !.op = "run", !.e = e]
  <2>1. next \in GrowthCall /\ GrowthCallOK(next) /\ GrowthSerialCallOK(next)
    BY <1>1 DEF G!Idle, GrowthCall, G!Observed, GrowthCallOK, GrowthSerialCallOK
  <2>2. G!GoTo(c, next) /\ UNCHANGED <<use, db, history>>
    BY <1>3 DEF G!ApproveToRun
  <2>3. calls[c].at = "idle" /\ (use.load = 1 => \A d \in Calls : calls[d].at = "idle")
    BY <1>1, <1>3, GrowthBeginFacts DEF G!ApproveToRun
  <2> HIDE DEF next
  <2> QED BY <1>1, <2>1, <2>2, <2>3, GrowthPassOn
<1>4. ASSUME NEW a \in DOMAIN db.approvals, G!ApplyDecision(c, a) PROVE GrowthInv'
  <2> DEFINE next == [G!Idle EXCEPT !.at = "apply", !.op = "apply", !.a = a]
  <2>1. next \in GrowthCall /\ GrowthCallOK(next) /\ GrowthSerialCallOK(next)
    BY <1>1, <1>4 DEF G!Idle, GrowthCall, G!Observed, GrowthCallOK, GrowthSerialCallOK, G!ApplyDecision, Verdicts
  <2>2. G!GoTo(c, next) /\ UNCHANGED <<use, db, history>>
    BY <1>4 DEF G!ApplyDecision
  <2>3. calls[c].at = "idle" /\ (use.load = 1 => \A d \in Calls : calls[d].at = "idle")
    BY <1>1, <1>4, GrowthBeginFacts DEF G!ApplyDecision
  <2> HIDE DEF next
  <2> QED BY <1>1, <2>1, <2>2, <2>3, GrowthPassOn
<1>5. ASSUME NEW e \in DOMAIN db.experiments, NEW saw \in use.measured, G!CompleteExperiment(c, e, saw) PROVE GrowthInv'
  <2> DEFINE next == [G!Idle EXCEPT !.at = "result", !.op = "complete", !.e = e, !.saw = saw]
  <2>1. saw \in G!Observed
    BY <1>1 DEF G!Use
  <2>2. Ran(e)
    BY <1>5 DEF G!CompleteExperiment, GrowthInv, GrowthRowsOK
  <2>3. next \in GrowthCall /\ GrowthCallOK(next) /\ GrowthSerialCallOK(next)
    BY <1>1, <2>1, <2>2 DEF G!Idle, GrowthCall, GrowthCallOK, GrowthSerialCallOK
  <2>4. G!GoTo(c, next) /\ UNCHANGED <<use, db, history>>
    BY <1>5 DEF G!CompleteExperiment
  <2>5. calls[c].at = "idle" /\ (use.load = 1 => \A d \in Calls : calls[d].at = "idle")
    BY <1>1, <1>5, GrowthBeginFacts DEF G!CompleteExperiment
  <2> HIDE DEF next
  <2> QED BY <1>1, <2>3, <2>4, <2>5, GrowthPassOn
<1> QED BY <1>2, <1>3, <1>4, <1>5

-----------------------------------------------------------------------------
(* Steps that write.                                                       *)

LEMMA SettingStatus ==
  ASSUME GrowthTypes, NEW e \in DOMAIN db.experiments, NEW to \in ExperimentStatus, db' = [db EXCEPT !.experiments[e].status = to]
  PROVE  /\ \E T : db' \in GrowthTables(T)
         /\ db'.approvals = db.approvals /\ DOMAIN db'.experiments = DOMAIN db.experiments
         /\ db'.experiments[e].status = to /\ db'.experiments[e].approval = db.experiments[e].approval
         /\ \A x \in DOMAIN db.experiments : x # e => db'.experiments[x] = db.experiments[x]
<1>1. PICK T : db \in GrowthTables(T)
  BY DEF GrowthTypes
<1>2. db.experiments \in Seq(ExperimentRow(T)) /\ db.experiments[e] \in ExperimentRow(T)
  BY <1>1 DEF GrowthTables
<1>3. [db.experiments[e] EXCEPT !.status = to] \in ExperimentRow(T)
  BY <1>2 DEF ExperimentRow
<1>4. db'.experiments = [db.experiments EXCEPT ![e] = [db.experiments[e] EXCEPT !.status = to]]
  BY <1>1 DEF GrowthTables
<1>5. db'.experiments \in Seq(ExperimentRow(T))
  BY <1>2, <1>3, <1>4
<1>6. db' \in GrowthTables(T) /\ db'.approvals = db.approvals
  BY <1>1, <1>4, <1>5 DEF GrowthTables
<1> QED BY <1>2, <1>4, <1>6 DEF ExperimentRow

LEMMA StatusWriteInv ==
  ASSUME GrowthInv, NEW c \in Calls, G!StatusWrite(c)
  PROVE  GrowthInv'
<1> USE GrowthIdle
<1>0. PICK call \in GrowthCall : call = calls[c]
  BY DEF GrowthInv, GrowthTypes
<1> DEFINE e == call.e
           ask == [call EXCEPT !.at = "ask"]
           run == [call EXCEPT !.at = "run"]
<1>1. GrowthCallOK(call) /\ (use.load = 1 => GrowthSerialCallOK(call)) /\ GrowthTypes
  BY <1>0 DEF GrowthInv
<1>2. call.at = "statusWrite" /\ db' = [db EXCEPT !.experiments[e].status = call.to] /\ UNCHANGED <<use, history>>
  BY <1>0 DEF G!StatusWrite
<1>3. \/ call.op = "request" /\ G!GoTo(c, ask)
      \/ call.op = "apply" /\ G!GoTo(c, run)
      \/ G!GoTo(c, G!Idle)
  BY <1>0 DEF G!StatusWrite, G!Return
<1>4. e \in DOMAIN db.experiments /\ call.to \in {"ANALYZED", "AWAITING_APPROVAL", "APPROVED", "REJECTED"}
      /\ (call.op = "request" => call.to = "AWAITING_APPROVAL")
  BY <1>1, <1>2 DEF GrowthCallOK, Verdicts
<1>5. call.to \in ExperimentStatus
  BY <1>4 DEF ExperimentStatus, G!GROWTH_EXPERIMENT_TRANSITIONS
<1>6. /\ \E T : db' \in GrowthTables(T)
      /\ db'.approvals = db.approvals /\ DOMAIN db'.experiments = DOMAIN db.experiments
      /\ db'.experiments[e].status = call.to /\ db'.experiments[e].approval = db.experiments[e].approval
      /\ \A x \in DOMAIN db.experiments : x # e => db'.experiments[x] = db.experiments[x]
  BY <1>1, <1>2, <1>4, <1>5, SettingStatus
<1>7. Grown
  BY <1>2, <1>6 DEF Grown
<1>8. GrowthRowsOK'
  BY <1>2, <1>4, <1>6 DEF GrowthInv, GrowthRowsOK, Ran, ApprovedFor
<1>9. ASSUME use.load = 1 PROVE GrowthSerialRowsOK' /\ (call.op = "request" => ~Put(e)')
  <2>1. call.to \in G!GROWTH_EXPERIMENT_TRANSITIONS[db.experiments[e].status]
    BY <1>1, <1>2, <1>9 DEF GrowthSerialCallOK
  <2>2. db.experiments[e].status \in ExperimentStatus
    BY <1>1, <1>4, GrowthRowFacts
  <2>3. CASE call.op = "propose"
    <3>1. db.experiments[e].status = "DRAFT" /\ call.to = "ANALYZED"
      BY <1>1, <1>2, <1>9, <2>3 DEF GrowthCallOK, GrowthSerialCallOK
    <3>2. ~Put(e) /\ ~Ran(e)
      BY <1>4, <1>9, <3>1 DEF GrowthInv, GrowthSerialRowsOK
    <3> QED BY <1>2, <1>6, <1>9, <2>3, <3>2 DEF GrowthInv, GrowthSerialRowsOK, Put, Ran
  <2>4. CASE call.op # "propose"
    <3>1. call.to # "ANALYZED"
      BY <1>1, <1>2, <2>4 DEF GrowthCallOK, Verdicts
    <3>2. db.experiments[e].status \notin {"RUNNING", "COMPLETED"}
      BY <1>4, <2>1, <2>2, <3>1 DEF ExperimentStatus, G!GROWTH_EXPERIMENT_TRANSITIONS
    <3>3. ~Ran(e)
      BY <1>4, <1>9, <3>2 DEF GrowthInv, GrowthSerialRowsOK
    <3>4. call.to = "AWAITING_APPROVAL" => db.experiments[e].status = "ANALYZED"
      BY <2>1, <2>2 DEF ExperimentStatus, G!GROWTH_EXPERIMENT_TRANSITIONS
    <3>5. call.to = "AWAITING_APPROVAL" => ~Put(e)
      BY <1>4, <1>9, <3>4 DEF GrowthInv, GrowthSerialRowsOK
    <3> QED BY <1>2, <1>4, <1>6, <1>9, <3>1, <3>3, <3>5 DEF GrowthInv, GrowthSerialRowsOK, Put, Ran
  <2> QED BY <2>3, <2>4
<1>10. /\ ask \in GrowthCall /\ GrowthCallOK(ask)' /\ (call.op = "request" /\ use.load = 1 => GrowthSerialCallOK(ask)')
       /\ run \in GrowthCall /\ GrowthCallOK(run)' /\ GrowthSerialCallOK(run)'
  BY <1>2, <1>4, <1>6, <1>9 DEF GrowthCall, GrowthCallOK, GrowthSerialCallOK, Put
<1>11. GrowthCallOK(G!Idle)' /\ GrowthSerialCallOK(G!Idle)'
  BY DEF GrowthCallOK, GrowthSerialCallOK
<1> HIDE DEF ask, run
<1>12. /\ calls' \in [Calls -> GrowthCall] /\ \A d \in Calls : GrowthCallOK(calls[d])'
       /\ use'.load = 1 => OneCallInFlight' /\ \A d \in Calls : GrowthSerialCallOK(calls[d])'
  BY <1>0, <1>2, <1>3, <1>7, <1>10, <1>11, GrowthCallStep
<1>13. GrowthTypes'
  BY <1>1, <1>2, <1>6, <1>12 DEF GrowthTypes
<1> QED BY <1>2, <1>8, <1>9, <1>12, <1>13 DEF GrowthInv

(* A call writes and ends, or goes on with what it wrote.                  *)
LEMMA GrowthWrite ==
  ASSUME GrowthInv, NEW c \in Calls, NEW call \in GrowthCall, G!GoTo(c, call), UNCHANGED use, Grown,
         calls[c].at # "idle" \/ (use.load = 1 => \A d \in Calls : calls[d].at = "idle"),
         GrowthCallOK(call)', use.load = 1 => GrowthSerialCallOK(call)',
         \E T : db' \in GrowthTables(T), history' \in Seq(ExperimentRun), GrowthRowsOK', use.load = 1 => GrowthSerialRowsOK'
  PROVE  GrowthInv'
<1>1. /\ calls' \in [Calls -> GrowthCall] /\ \A d \in Calls : GrowthCallOK(calls[d])'
      /\ use'.load = 1 => OneCallInFlight' /\ \A d \in Calls : GrowthSerialCallOK(calls[d])'
  BY GrowthCallStep
<1>2. GrowthTypes'
  BY <1>1 DEF GrowthInv, GrowthTypes
<1> QED BY <1>1, <1>2 DEF GrowthInv

LEMMA MarkStartedInv ==
  ASSUME GrowthInv, NEW c \in Calls, G!MarkStarted(c)
  PROVE  GrowthInv'
<1> USE GrowthIdle
<1>0. PICK call \in GrowthCall : call = calls[c]
  BY DEF GrowthInv, GrowthTypes
<1> DEFINE e == call.e
           run == [exp |-> e, approval |-> call.a]
<1>1. GrowthCallOK(call) /\ (use.load = 1 => GrowthSerialCallOK(call)) /\ GrowthTypes
  BY <1>0 DEF GrowthInv
<1>2. /\ call.at = "start" /\ db' = [db EXCEPT !.experiments[e].status = "RUNNING"] /\ UNCHANGED use
      /\ history' = Append(history, run) /\ G!GoTo(c, G!Idle)
  BY <1>0 DEF G!MarkStarted, G!Return
<1>3. e \in DOMAIN db.experiments /\ ApprovedFor(call.a, e) /\ run \in ExperimentRun /\ history \in Seq(ExperimentRun)
  BY <1>1, <1>2 DEF GrowthCallOK, GrowthCall, ExperimentRun, GrowthTypes
<1>4. /\ history' \in Seq(ExperimentRun) /\ DOMAIN history' = DOMAIN history \cup {Len(history) + 1}
      /\ history'[Len(history) + 1] = run /\ \A i \in DOMAIN history : history'[i] = history[i] /\ i # Len(history) + 1
  BY <1>2, <1>3, AppendProperties
<1>5. "RUNNING" \in ExperimentStatus
  BY DEF ExperimentStatus, G!GROWTH_EXPERIMENT_TRANSITIONS
<1>6. /\ \E T : db' \in GrowthTables(T)
      /\ db'.approvals = db.approvals /\ DOMAIN db'.experiments = DOMAIN db.experiments
      /\ db'.experiments[e].status = "RUNNING" /\ db'.experiments[e].approval = db.experiments[e].approval
      /\ \A x \in DOMAIN db.experiments : x # e => db'.experiments[x] = db.experiments[x]
  BY <1>1, <1>2, <1>3, <1>5, SettingStatus
<1>7. Grown
  BY <1>4, <1>6 DEF Grown
<1>8. /\ Ran(e)' /\ \A x : Ran(x) => Ran(x)'
      /\ \A x : x # e /\ Ran(x)' => Ran(x)
      /\ \A a, x : ApprovedFor(a, x)' <=> ApprovedFor(a, x)
      /\ \A x : Put(x)' <=> Put(x)
  BY <1>4, <1>6 DEF Ran, ApprovedFor, Put
<1>9. GrowthRowsOK'
  <2>1. \A i \in DOMAIN history' : history'[i].exp \in DOMAIN db.experiments /\ ApprovedFor(history'[i].approval, history'[i].exp)
    BY <1>3, <1>4 DEF GrowthInv, GrowthRowsOK
  <2>2. \A x \in DOMAIN db.experiments : db'.experiments[x].status \in {"RUNNING", "COMPLETED"} => Ran(x)'
    BY <1>6, <1>8 DEF GrowthInv, GrowthRowsOK
  <2>3. \A x \in DOMAIN db.experiments : db'.experiments[x].approval = db.experiments[x].approval
    BY <1>6
  <2> QED BY <1>6, <1>8, <2>1, <2>2, <2>3 DEF GrowthInv, GrowthRowsOK
<1>10. ASSUME use.load = 1 PROVE GrowthSerialRowsOK'
  <2>1. ~Ran(e)
    BY <1>1, <1>2, <1>3, <1>10 DEF GrowthSerialCallOK, GrowthInv, GrowthSerialRowsOK
  <2>2. Put(e)' => Put(e)
    BY <1>8
  <2>3. \A i, j \in DOMAIN history' : history'[i].exp = history'[j].exp => i = j
    BY <1>4, <1>10, <2>1 DEF Ran, GrowthInv, GrowthSerialRowsOK
  <2>4. ASSUME NEW x \in DOMAIN db.experiments
        PROVE  /\ Ran(x)' => db'.experiments[x].status \in {"RUNNING", "COMPLETED"}
               /\ Put(x)' => db'.experiments[x].status \notin {"DRAFT", "ANALYZED"}
    BY <1>6, <1>8, <1>10 DEF GrowthInv, GrowthSerialRowsOK
  <2> QED BY <1>6, <1>10, <2>3, <2>4 DEF GrowthInv, GrowthSerialRowsOK
<1>11. GrowthCallOK(G!Idle)' /\ GrowthSerialCallOK(G!Idle)'
  BY DEF GrowthCallOK, GrowthSerialCallOK
<1> QED BY <1>0, <1>2, <1>4, <1>6, <1>7, <1>9, <1>10, <1>11, GrowthWrite

LEMMA MarkEndedInv ==
  ASSUME GrowthInv, NEW c \in Calls, G!MarkEnded(c)
  PROVE  GrowthInv'
<1> USE GrowthIdle
<1>0. PICK call \in GrowthCall : call = calls[c]
  BY DEF GrowthInv, GrowthTypes
<1> DEFINE e == call.e
<1>1. GrowthCallOK(call) /\ GrowthTypes
  BY <1>0 DEF GrowthInv
<1>2. call.at = "end" /\ db' = [db EXCEPT !.experiments[e].status = "COMPLETED"] /\ UNCHANGED <<use, history>> /\ G!GoTo(c, G!Idle)
  BY <1>0 DEF G!MarkEnded, G!Return
<1>3. e \in DOMAIN db.experiments /\ Ran(e)
  BY <1>1, <1>2 DEF GrowthCallOK
<1>4. "COMPLETED" \in ExperimentStatus
  BY DEF ExperimentStatus, G!GROWTH_EXPERIMENT_TRANSITIONS
<1>5. /\ \E T : db' \in GrowthTables(T)
      /\ db'.approvals = db.approvals /\ DOMAIN db'.experiments = DOMAIN db.experiments
      /\ db'.experiments[e].status = "COMPLETED" /\ db'.experiments[e].approval = db.experiments[e].approval
      /\ \A x \in DOMAIN db.experiments : x # e => db'.experiments[x] = db.experiments[x]
  BY <1>1, <1>2, <1>3, <1>4, SettingStatus
<1>6. Grown
  BY <1>2, <1>5 DEF Grown
<1>7. GrowthRowsOK' /\ (use.load = 1 => GrowthSerialRowsOK')
  BY <1>2, <1>3, <1>5 DEF GrowthInv, GrowthRowsOK, GrowthSerialRowsOK, Ran, ApprovedFor, Put
<1>8. GrowthCallOK(G!Idle)' /\ GrowthSerialCallOK(G!Idle)' /\ history' \in Seq(ExperimentRun)
  BY <1>1, <1>2 DEF GrowthCallOK, GrowthSerialCallOK, GrowthTypes
<1> QED BY <1>0, <1>2, <1>5, <1>6, <1>7, <1>8, GrowthWrite

LEMMA SetApprovalRequestInv ==
  ASSUME GrowthInv, NEW c \in Calls, G!SetApprovalRequest(c)
  PROVE  GrowthInv'
<1> USE GrowthIdle
<1>0. PICK call \in GrowthCall : call = calls[c]
  BY DEF GrowthInv, GrowthTypes
<1> DEFINE e == call.e
<1>1. GrowthCallOK(call) /\ GrowthTypes
  BY <1>0 DEF GrowthInv
<1>2. call.at = "bind" /\ db' = [db EXCEPT !.experiments[e].approval = call.a] /\ UNCHANGED <<use, history>> /\ G!GoTo(c, G!Idle)
  BY <1>0 DEF G!SetApprovalRequest, G!Return
<1>3. e \in DOMAIN db.experiments /\ call.a \in DOMAIN db.approvals /\ call.a \in Nat
  BY <1>1, <1>2 DEF GrowthCallOK, GrowthCall
<1>4. PICK T : db \in GrowthTables(T)
  BY <1>1 DEF GrowthTypes
<1>5. db.experiments \in Seq(ExperimentRow(T)) /\ db.experiments[e] \in ExperimentRow(T)
  BY <1>3, <1>4 DEF GrowthTables
<1>6. [db.experiments[e] EXCEPT !.approval = call.a] \in ExperimentRow(T)
  BY <1>3, <1>5 DEF ExperimentRow
<1>7. db'.experiments = [db.experiments EXCEPT ![e] = [db.experiments[e] EXCEPT !.approval = call.a]]
  BY <1>2, <1>4 DEF GrowthTables
<1>8. db'.experiments \in Seq(ExperimentRow(T))
  BY <1>3, <1>5, <1>6, <1>7
<1>9. db' \in GrowthTables(T) /\ db'.approvals = db.approvals
  BY <1>2, <1>4, <1>7, <1>8 DEF GrowthTables
<1>10. /\ DOMAIN db'.experiments = DOMAIN db.experiments
       /\ db'.experiments[e].status = db.experiments[e].status /\ db'.experiments[e].approval = call.a
       /\ \A x \in DOMAIN db.experiments : x # e => db'.experiments[x] = db.experiments[x]
  BY <1>3, <1>5, <1>7 DEF ExperimentRow
<1>11. Grown
  BY <1>2, <1>9, <1>10 DEF Grown
<1>12. GrowthRowsOK' /\ (use.load = 1 => GrowthSerialRowsOK')
  BY <1>2, <1>3, <1>9, <1>10 DEF GrowthInv, GrowthRowsOK, GrowthSerialRowsOK, Ran, ApprovedFor, Put
<1>13. GrowthCallOK(G!Idle)' /\ GrowthSerialCallOK(G!Idle)' /\ history' \in Seq(ExperimentRun)
  BY <1>1, <1>2 DEF GrowthCallOK, GrowthSerialCallOK, GrowthTypes
<1> QED BY <1>0, <1>2, <1>9, <1>11, <1>12, <1>13, GrowthWrite

(* A request is about an experiment that has none waiting or answered.     *)
LEMMA GrowthAskInv ==
  ASSUME GrowthInv, NEW c \in Calls, G!Ask(c)
  PROVE  GrowthInv'
<1>0. PICK call \in GrowthCall : call = calls[c]
  BY DEF GrowthInv, GrowthTypes
<1>n. PICK n : n = Len(db.approvals) + 1
  OBVIOUS
<1> DEFINE e == call.e
           next == [call EXCEPT !.at = "bind", !.a = n]
<1>1. GrowthCallOK(call) /\ (use.load = 1 => GrowthSerialCallOK(call)) /\ GrowthTypes
  BY <1>0 DEF GrowthInv
<1>2. /\ call.at = "ask" /\ db' = [db EXCEPT !.approvals = Append(@, G!NewRequest(e))] /\ UNCHANGED <<use, history>>
      /\ G!GoTo(c, next)
  BY <1>0, <1>n DEF G!Ask
<1>3. e \in DOMAIN db.experiments /\ e \in Nat
  BY <1>1, <1>2, GrowthRowFacts DEF GrowthCallOK
<1>4. PICK T : db \in GrowthTables(T)
  BY <1>1 DEF GrowthTypes
<1>5. db.approvals \in Seq(Asked) /\ G!NewRequest(e) \in Asked
  BY <1>3, <1>4 DEF GrowthTables, G!NewRequest, Asked
<1>6. db'.approvals = Append(db.approvals, G!NewRequest(e)) /\ db'.experiments = db.experiments
  BY <1>2, <1>4 DEF GrowthTables
<1>7. /\ db'.approvals \in Seq(Asked) /\ DOMAIN db'.approvals = DOMAIN db.approvals \cup {n}
      /\ db'.approvals[n] = G!NewRequest(e) /\ \A a \in DOMAIN db.approvals : db'.approvals[a] = db.approvals[a] /\ a # n
      /\ n \in Nat
  BY <1>n, <1>5, <1>6, AppendProperties
<1>8. db' \in GrowthTables(T)
  BY <1>2, <1>4, <1>6, <1>7 DEF GrowthTables
<1>9. G!NewRequest(e).exp = e /\ G!NewRequest(e).status = "PENDING"
  BY DEF G!NewRequest
<1>10. Grown
  BY <1>2, <1>6, <1>7 DEF Grown
<1>11. GrowthRowsOK'
  BY <1>2, <1>3, <1>6, <1>7, <1>9, <1>10, GrownFacts DEF GrowthInv, GrowthRowsOK, Ran
<1>12. ASSUME use.load = 1 PROVE GrowthSerialRowsOK'
  <2>1. db.experiments[e].status = "AWAITING_APPROVAL" /\ ~Put(e)
    BY <1>1, <1>2, <1>12 DEF GrowthSerialCallOK
  <2>2. \A a, b \in DOMAIN db'.approvals : db'.approvals[a].exp = db'.approvals[b].exp => a = b
    BY <1>7, <1>9, <1>12, <2>1 DEF Put, GrowthInv, GrowthSerialRowsOK
  <2>3. \A x : Put(x)' => Put(x) \/ x = e
    BY <1>7, <1>9 DEF Put
  <2> QED BY <1>2, <1>6, <1>12, <2>1, <2>2, <2>3 DEF GrowthInv, GrowthSerialRowsOK, Ran
<1>13. next \in GrowthCall /\ GrowthCallOK(next)' /\ GrowthSerialCallOK(next)' /\ history' \in Seq(ExperimentRun)
  BY <1>1, <1>2, <1>3, <1>6, <1>7 DEF GrowthCall, GrowthCallOK, GrowthSerialCallOK, GrowthTypes
<1> HIDE DEF next
<1> QED BY <1>0, <1>2, <1>8, <1>10, <1>11, <1>12, <1>13, GrowthWrite

LEMMA CreateResultInv ==
  ASSUME GrowthInv, NEW c \in Calls, G!CreateResult(c)
  PROVE  GrowthInv'
<1>0. PICK call \in GrowthCall : call = calls[c]
  BY DEF GrowthInv, GrowthTypes
<1> DEFINE next == [call EXCEPT !.at = "end"]
           result == G!NewResult(call.e, G!Confidence(call.saw), G!ResultDecision(call.saw))
<1>1. GrowthCallOK(call) /\ GrowthTypes
  BY <1>0 DEF GrowthInv
<1>2. call.at = "result" /\ db' = [db EXCEPT !.results = Append(@, result)] /\ UNCHANGED <<use, history>> /\ G!GoTo(c, next)
  BY <1>0 DEF G!CreateResult
<1>3. PICK T : db \in GrowthTables(T)
  BY <1>1 DEF GrowthTypes
<1>4. G!Confidence(call.saw) \in {"LOW_CONFIDENCE", "HIGH_CONFIDENCE", "MODERATE"}
  BY DEF G!Confidence
<1>5. G!ResultDecision(call.saw) \in {"INCONCLUSIVE", "POSITIVE", "NEGATIVE"}
  BY DEF G!ResultDecision
<1>6. result \in Outcome
  BY <1>4, <1>5 DEF G!NewResult, Outcome, GrowthCall
<1> HIDE DEF result
<1>7. Append(db.results, result) \in Seq(Outcome)
  BY <1>3, <1>6 DEF GrowthTables
<1>8. db' \in GrowthTables(T) /\ db'.approvals = db.approvals /\ db'.experiments = db.experiments
  BY <1>2, <1>3, <1>7 DEF GrowthTables
<1>9. Grown
  BY <1>2, <1>8 DEF Grown
<1>10. GrowthRowsOK' /\ (use.load = 1 => GrowthSerialRowsOK')
  BY <1>2, <1>8 DEF GrowthInv, GrowthRowsOK, GrowthSerialRowsOK, Ran, ApprovedFor, Put
<1>11. next \in GrowthCall /\ GrowthCallOK(next)' /\ GrowthSerialCallOK(next)' /\ history' \in Seq(ExperimentRun)
  BY <1>1, <1>2, <1>8 DEF GrowthCall, GrowthCallOK, GrowthSerialCallOK, Ran, GrowthTypes
<1> HIDE DEF next
<1> QED BY <1>0, <1>2, <1>8, <1>9, <1>10, <1>11, GrowthWrite

LEMMA ProposeInv ==
  ASSUME G!GrowthConstants, GrowthInv, NEW c \in Calls, G!Propose(c)
  PROVE  GrowthInv'
<1>n. PICK n : n = Len(db.experiments) + 1
  OBVIOUS
<1> DEFINE row == G!NewExperiment(G!TargetClaim)
           next == [G!Idle EXCEPT !.at = "statusRead", !.op = "propose", !.e = n, !.to = "ANALYZED"]
<1>1. /\ db' = [db EXCEPT !.experiments = Append(@, row)] /\ UNCHANGED <<use, history>> /\ G!GoTo(c, next)
      /\ GrowthTypes
  BY <1>n DEF G!Propose, GrowthInv
<1>2. calls[c].at = "idle" /\ (use.load = 1 => \A d \in Calls : calls[d].at = "idle")
  BY <1>1, GrowthBeginFacts DEF G!Propose
<1>3. PICK T : db \in GrowthTables(T)
  BY <1>1 DEF GrowthTypes
<1>4. PICK U : U = T \cup {G!TargetClaim}
  OBVIOUS
<1>5. ExperimentRow(T) \subseteq ExperimentRow(U)
  BY <1>4 DEF ExperimentRow
<1>6. db.experiments \in Seq(ExperimentRow(T))
  BY <1>3 DEF GrowthTables
<1>7. db.experiments \in Seq(ExperimentRow(U))
  BY <1>5, <1>6
<1>8. "DRAFT" \in ExperimentStatus
  BY DEF ExperimentStatus, G!GROWTH_EXPERIMENT_TRANSITIONS
<1>9. row \in ExperimentRow(U) /\ row.status = "DRAFT" /\ row.approval = 0
  BY <1>4, <1>8 DEF ExperimentRow, G!NewExperiment
<1> HIDE DEF row
<1>10. db'.approvals = db.approvals /\ db'.experiments = Append(db.experiments, row) /\ db'.results = db.results
       /\ db'.halted = db.halted
  BY <1>1, <1>3 DEF GrowthTables
<1>11. /\ db'.experiments \in Seq(ExperimentRow(U)) /\ DOMAIN db'.experiments = DOMAIN db.experiments \cup {n} /\ n \in Nat
       /\ db'.experiments[n] = row /\ \A e \in DOMAIN db.experiments : db'.experiments[e] = db.experiments[e] /\ e # n
       /\ n \notin DOMAIN db.experiments
  BY <1>n, <1>7, <1>9, <1>10, AppendProperties
<1>12. db' \in GrowthTables(U)
  BY <1>1, <1>3, <1>11, <1>10 DEF GrowthTables
<1>13. Grown
  BY <1>1, <1>10, <1>11 DEF Grown
<1>14. GrowthRowsOK' /\ (use.load = 1 => GrowthSerialRowsOK')
  <2>1. ~Ran(n) /\ ~Put(n)
    BY <1>11 DEF GrowthInv, GrowthRowsOK, Ran, Put
  <2> QED BY <1>1, <1>9, <1>10, <1>11, <2>1 DEF GrowthInv, GrowthRowsOK, GrowthSerialRowsOK, Ran, ApprovedFor, Put
<1>15. next \in GrowthCall /\ next.at = "statusRead" /\ next.op = "propose" /\ next.e = n /\ next.to = "ANALYZED"
  <2>1. n \in Nat
    BY <1>11
  <2> QED BY <2>1, GrowthIdle DEF G!Idle, GrowthCall, G!Observed
<1> HIDE DEF next
<1>16. GrowthCallOK(next)' /\ GrowthSerialCallOK(next)' /\ history' \in Seq(ExperimentRun)
  BY <1>1, <1>9, <1>11, <1>15 DEF GrowthCallOK, GrowthSerialCallOK, GrowthTypes
<1> QED BY <1>1, <1>2, <1>12, <1>13, <1>14, <1>15, <1>16, GrowthWrite

-----------------------------------------------------------------------------
(* Requests get their verdicts and grow old.                               *)

LEMMA SettingApproval ==
  ASSUME GrowthInv, NEW a \in DOMAIN db.approvals, NEW row \in Asked, row.exp = db.approvals[a].exp,
         db.approvals[a].status \in Verdicts => row.status = db.approvals[a].status,
         db' = [db EXCEPT !.approvals[a] = row], UNCHANGED history
  PROVE  /\ \E T : db' \in GrowthTables(T)
         /\ Grown /\ GrowthRowsOK' /\ (use.load = 1 => GrowthSerialRowsOK')
         /\ db'.experiments = db.experiments /\ DOMAIN db'.approvals = DOMAIN db.approvals /\ db'.approvals[a] = row
         /\ \A e : Put(e)' <=> Put(e)
<1>1. PICK T : db \in GrowthTables(T)
  BY DEF GrowthInv, GrowthTypes
<1>2. db.approvals \in Seq(Asked)
  BY <1>1 DEF GrowthTables
<1>3. db'.approvals = [db.approvals EXCEPT ![a] = row] /\ db'.experiments = db.experiments
  BY <1>1 DEF GrowthTables
<1>4. db'.approvals \in Seq(Asked)
  BY <1>2, <1>3
<1>5. db' \in GrowthTables(T)
  BY <1>1, <1>3, <1>4 DEF GrowthTables
<1>6. /\ DOMAIN db'.approvals = DOMAIN db.approvals /\ db'.approvals[a] = row
      /\ \A b \in DOMAIN db.approvals : b # a => db'.approvals[b] = db.approvals[b]
  BY <1>2, <1>3
<1>7. Grown
  BY <1>3, <1>6 DEF Grown
<1>8. \A e : Put(e)' <=> Put(e)
  BY <1>6 DEF Put
<1>9. GrowthRowsOK'
  BY <1>3, <1>6, <1>7, GrownFacts DEF GrowthInv, GrowthRowsOK, Ran
<1>10. use.load = 1 => GrowthSerialRowsOK'
  BY <1>3, <1>6, <1>8 DEF GrowthInv, GrowthSerialRowsOK, Ran
<1> QED BY <1>3, <1>5, <1>6, <1>7, <1>8, <1>9, <1>10

LEMMA GrowthDecideInv ==
  ASSUME G!GrowthConstants, GrowthInv, NEW c \in Calls, NEW a \in DOMAIN db.approvals, NEW verdict \in Verdicts, G!Decide(c, a, verdict)
  PROVE  GrowthInv'
<1> USE GrowthIdle
<1> DEFINE row == [db.approvals[a] EXCEPT !.status = verdict]
           next == [G!Idle EXCEPT !.at = "apply", !.op = "apply", !.a = a, !.auto = TRUE]
<1>1. /\ db.approvals[a].status = "PENDING" /\ db' = [db EXCEPT !.approvals[a].status = verdict]
      /\ UNCHANGED <<use, history>> /\ (G!GoTo(c, next) \/ G!GoTo(c, G!Idle)) /\ GrowthTypes
  BY DEF G!Decide, G!Return, GrowthInv
<1>2. calls[c].at = "idle" /\ (use.load = 1 => \A d \in Calls : calls[d].at = "idle")
  BY <1>1, GrowthBeginFacts DEF G!Decide
<1>3. db.approvals[a] \in Asked /\ a \in Nat
  BY <1>1, GrowthRowFacts
<1>4. row \in Asked /\ row.exp = db.approvals[a].exp /\ row.status = verdict
  BY <1>3 DEF Asked, Verdicts
<1>5. db' = [db EXCEPT !.approvals[a] = row]
  BY <1>1
<1> HIDE DEF row
<1>6. /\ \E T : db' \in GrowthTables(T)
      /\ Grown /\ GrowthRowsOK' /\ (use.load = 1 => GrowthSerialRowsOK')
      /\ db'.experiments = db.experiments /\ DOMAIN db'.approvals = DOMAIN db.approvals /\ db'.approvals[a] = row
  BY <1>1, <1>4, <1>5, SettingApproval DEF Verdicts
<1>7. next \in GrowthCall /\ next.at = "apply" /\ next.op = "apply" /\ next.a = a
  BY <1>3 DEF G!Idle, GrowthCall, G!Observed
<1> HIDE DEF next
<1>8. GrowthCallOK(next)' /\ GrowthSerialCallOK(next)' /\ GrowthCallOK(G!Idle)' /\ GrowthSerialCallOK(G!Idle)' /\ history' \in Seq(ExperimentRun)
  BY <1>1, <1>4, <1>6, <1>7 DEF GrowthCallOK, GrowthSerialCallOK, GrowthTypes
<1> QED BY <1>1, <1>2, <1>6, <1>7, <1>8, GrowthWrite

LEMMA GrowthTimeInv ==
  ASSUME GrowthInv, NEW a \in DOMAIN db.approvals, G!Expire(a) \/ G!Lapse(a)
  PROVE  GrowthInv'
<1>1. db.approvals[a] \in Asked /\ GrowthTypes
  BY GrowthRowFacts DEF GrowthInv
<1>2. PICK row \in Asked : /\ db' = [db EXCEPT !.approvals[a] = row] /\ row.exp = db.approvals[a].exp
                           /\ db.approvals[a].status \in Verdicts => row.status = db.approvals[a].status
  <2>1. CASE G!Expire(a)
    <3>1. [db.approvals[a] EXCEPT !.status = "EXPIRED"] \in Asked /\ [db.approvals[a] EXCEPT !.status = "EXPIRED"].exp = db.approvals[a].exp
      BY <1>1 DEF Asked
    <3> QED BY <2>1, <3>1 DEF G!Expire, Verdicts
  <2>2. CASE G!Lapse(a)
    <3>1. /\ [db.approvals[a] EXCEPT !.lapsed = TRUE] \in Asked /\ [db.approvals[a] EXCEPT !.lapsed = TRUE].exp = db.approvals[a].exp
          /\ [db.approvals[a] EXCEPT !.lapsed = TRUE].status = db.approvals[a].status
      BY <1>1 DEF Asked
    <3> QED BY <2>2, <3>1 DEF G!Lapse
  <2> QED BY <2>1, <2>2
<1>3. UNCHANGED <<use, calls, history>>
  BY DEF G!Expire, G!Lapse
<1>4. /\ \E T : db' \in GrowthTables(T)
      /\ Grown /\ GrowthRowsOK' /\ (use.load = 1 => GrowthSerialRowsOK')
      /\ db'.experiments = db.experiments /\ \A e : Put(e)' <=> Put(e)
  BY <1>2, <1>3, SettingApproval
<1>5. ASSUME NEW d \in Calls PROVE GrowthCallOK(calls[d])' /\ (use.load = 1 => GrowthSerialCallOK(calls[d])')
  <2>1. PICK call \in GrowthCall : call = calls[d]
    BY <1>1 DEF GrowthTypes
  <2>2. GrowthCallOK(call) /\ (use.load = 1 => GrowthSerialCallOK(call))
    BY <2>1 DEF GrowthInv
  <2>3. GrowthCallOK(call)' /\ (use.load = 1 => GrowthSerialCallOK(call)')
    BY <1>4, <2>2, GrownFacts DEF GrowthCallOK, Grown, GrowthSerialCallOK
  <2> QED BY <1>3, <2>1, <2>3
<1>6. GrowthTypes'
  BY <1>1, <1>3, <1>4 DEF GrowthTypes
<1>7. OneCallInFlight' <=> OneCallInFlight
  BY <1>3 DEF OneCallInFlight
<1> QED BY <1>3, <1>4, <1>5, <1>6, <1>7 DEF GrowthInv

LEMMA GrowthHaltInv ==
  ASSUME GrowthInv, G!Halt
  PROVE  GrowthInv'
<1>1. db' = [db EXCEPT !.halted = ~@] /\ UNCHANGED <<use, calls, history>> /\ GrowthTypes
  BY DEF G!Halt, GrowthInv
<1>2. PICK T : db \in GrowthTables(T)
  BY <1>1 DEF GrowthTypes
<1>3. db' \in GrowthTables(T) /\ db'.experiments = db.experiments /\ db'.approvals = db.approvals
  BY <1>1, <1>2 DEF GrowthTables
<1>4. GrowthTypes'
  BY <1>1, <1>3 DEF GrowthTypes
<1>5. \A d \in Calls : GrowthCallOK(calls[d])' /\ (use.load = 1 => GrowthSerialCallOK(calls[d])')
  BY <1>1, <1>3 DEF GrowthInv, GrowthCallOK, GrowthSerialCallOK, Ran, ApprovedFor, Put
<1> QED BY <1>1, <1>3, <1>4, <1>5 DEF GrowthInv, OneCallInFlight, GrowthRowsOK, GrowthSerialRowsOK, Ran, ApprovedFor, Put

LEMMA GrowthRestartInv ==
  ASSUME GrowthInv, G!Restart
  PROVE  GrowthInv'
<1> USE GrowthIdle
<1>1. use' = [use EXCEPT !.crashes = @ - 1] /\ use.crashes > 0 /\ calls' = [c \in Calls |-> G!Idle] /\ UNCHANGED <<db, history>> /\ GrowthTypes
  BY DEF G!Restart, GrowthInv
<1>2. use' \in G!Use /\ use'.load = use.load
  <2>1. PICK u \in G!Use : u = use
    BY <1>1 DEF GrowthTypes
  <2>2. u.crashes - 1 \in Nat
    BY <1>1, <2>1 DEF G!Use
  <2>3. [u EXCEPT !.crashes = @ - 1] \in G!Use /\ [u EXCEPT !.crashes = @ - 1].load = u.load
    BY <2>2 DEF G!Use
  <2> QED BY <1>1, <2>1, <2>3
<1>3. GrowthTypes'
  BY <1>1, <1>2 DEF GrowthTypes
<1>4. \A d \in Calls : GrowthCallOK(calls[d])' /\ GrowthSerialCallOK(calls[d])' /\ calls'[d].at = "idle"
  BY <1>1 DEF GrowthCallOK, GrowthSerialCallOK
<1> QED BY <1>1, <1>2, <1>3, <1>4 DEF GrowthInv, OneCallInFlight, GrowthRowsOK, GrowthSerialRowsOK, Ran, ApprovedFor, Put

-----------------------------------------------------------------------------
LEMMA GrowthInitInv == G!GrowthConstants /\ G!GrowthInit => GrowthInv
<1> SUFFICES ASSUME G!GrowthConstants, G!GrowthInit PROVE GrowthInv
  OBVIOUS
<1> USE GrowthIdle
<1>1. /\ use \in G!Use /\ calls = [c \in Calls |-> G!Idle] /\ history = <<>>
      /\ db = [experiments |-> <<>>, approvals |-> <<>>, results |-> <<>>, halted |-> FALSE]
  BY DEF G!GrowthInit, G!GrowthConstants
<1>2. db \in GrowthTables({})
  BY <1>1 DEF GrowthTables
<1>3. GrowthTypes
  BY <1>1, <1>2 DEF GrowthTypes
<1>4. \A d \in Calls : GrowthCallOK(calls[d]) /\ GrowthSerialCallOK(calls[d]) /\ calls[d].at = "idle"
  BY <1>1
<1>5. GrowthRowsOK /\ GrowthSerialRowsOK
  BY <1>1 DEF GrowthRowsOK, GrowthSerialRowsOK
<1> QED BY <1>3, <1>4, <1>5 DEF GrowthInv, OneCallInFlight

LEMMA GrowthNextInv == G!GrowthConstants /\ GrowthInv /\ [G!GrowthNext]_(G!vars) => GrowthInv'
<1> SUFFICES ASSUME G!GrowthConstants, GrowthInv, [G!GrowthNext]_(G!vars) PROVE GrowthInv'
  OBVIOUS
<1>1. CASE UNCHANGED G!vars
  <2>1. \A d \in Calls : GrowthCallOK(calls[d])' /\ (use.load = 1 => GrowthSerialCallOK(calls[d])')
    BY <1>1 DEF G!vars, GrowthInv, GrowthCallOK, GrowthSerialCallOK, Ran, ApprovedFor, Put
  <2>2. GrowthTypes'
    BY <1>1 DEF G!vars, GrowthInv, GrowthTypes
  <2> QED BY <1>1, <2>1, <2>2 DEF G!vars, GrowthInv, OneCallInFlight, GrowthRowsOK, GrowthSerialRowsOK, Ran, ApprovedFor, Put
<1>2. ASSUME NEW c \in Calls, G!Step(c) PROVE GrowthInv'
  BY <1>2, GrowthStepsThatRead, StatusWriteInv, GrowthAskInv, SetApprovalRequestInv, MarkStartedInv, CreateResultInv, MarkEndedInv DEF G!Step
<1>3. ASSUME NEW c \in Calls, G!Request(c) PROVE GrowthInv'
  <2>1. ASSUME NEW a \in DOMAIN db.approvals, NEW verdict \in {"APPROVED", "REJECTED"}, G!Decide(c, a, verdict) PROVE GrowthInv'
    BY <2>1, GrowthDecideInv DEF Verdicts
  <2> QED BY <1>3, <2>1, ProposeInv, GrowthStepsThatBegin DEF G!Request
<1> QED BY <1>1, <1>2, <1>3, GrowthTimeInv, GrowthHaltInv, GrowthRestartInv DEF G!GrowthNext

LEMMA AtMostOne ==
  ASSUME NEW S, \A x, y \in S : x = y
  PROVE  Cardinality(S) <= 1
<1>1. CASE S = {}
  BY <1>1, FS_EmptySet
<1>2. CASE S # {}
  <2>1. PICK x \in S : S = {x}
    BY <1>2
  <2> QED BY <2>1, FS_Singleton
<1> QED BY <1>1, <1>2

LEMMA GrowthInvImplies == GrowthInv => G!ExperimentsWereApproved
<1> SUFFICES ASSUME GrowthInv PROVE G!ExperimentsWereApproved
  OBVIOUS
<1>1. \A e : Ran(e) <=> G!RunsOf(e) # {}
  BY DEF Ran, G!RunsOf
<1>2. ASSUME use.load = 1, NEW e \in DOMAIN db.experiments
      PROVE  /\ Cardinality(G!RunsOf(e)) <= 1
             /\ G!RunsOf(e) # {} => \A a \in DOMAIN db.approvals : db.approvals[a].exp = e => db.approvals[a].status # "REJECTED"
  <2>1. \A i, j \in G!RunsOf(e) : i = j
    BY <1>2 DEF G!RunsOf, GrowthInv, GrowthSerialRowsOK
  <2>2. ASSUME NEW a \in DOMAIN db.approvals, db.approvals[a].exp = e, NEW i \in G!RunsOf(e) PROVE db.approvals[a].status # "REJECTED"
    BY <1>2, <2>2 DEF G!RunsOf, GrowthInv, GrowthRowsOK, GrowthSerialRowsOK, ApprovedFor
  <2> QED BY <2>1, <2>2, AtMostOne
<1>3. \A i \in DOMAIN history : db.approvals[history[i].approval].exp = history[i].exp /\ db.approvals[history[i].approval].status = "APPROVED"
  BY DEF GrowthInv, GrowthRowsOK, ApprovedFor
<1>4. \A e \in DOMAIN db.experiments : db.experiments[e].status \in {"RUNNING", "COMPLETED"} => G!RunsOf(e) # {}
  BY <1>1 DEF GrowthInv, GrowthRowsOK
<1> QED BY <1>2, <1>3, <1>4, GrowthCounts DEF G!ExperimentsWereApproved

-----------------------------------------------------------------------------
(* What was measured of an experiment, and what was put to a human.        *)
Measured(e) == \E i \in DOMAIN db.results : db.results[i].exp = e
NeverRestarted == use.restarts = use.crashes
NeverRefused == use.mishaps = use.faults
AtEnd(e) == \E c \in Calls : calls[c].at = "end" /\ calls[c].e = e
AskingFor(e) == \E c \in Calls : calls[c].at = "ask" /\ calls[c].e = e

MeasuredRowsOK ==
  /\ use.crashes <= use.restarts /\ use.faults <= use.mishaps
  /\ \A i \in DOMAIN db.results : Ran(db.results[i].exp)
  /\ \A e \in DOMAIN db.experiments : db.experiments[e].status = "COMPLETED" => Measured(e)
  /\ \A c \in Calls : calls[c].at = "end" => Measured(calls[c].e)

(* One call at a time, none cut short: an experiment is measured once, for *)
(* it is completed in the call that measured it.                           *)
MeasuredOnce ==
  /\ \A i, j \in DOMAIN db.results : db.results[i].exp = db.results[j].exp => i = j
  /\ \A c \in Calls : calls[c].at = "result" => db.experiments[calls[c].e].status = "RUNNING" /\ ~Measured(calls[c].e)
  /\ \A e \in DOMAIN db.experiments : Measured(e) => db.experiments[e].status = "COMPLETED" \/ AtEnd(e)

PutToAHuman == \A e \in DOMAIN db.experiments : db.experiments[e].status = "AWAITING_APPROVAL" => Put(e) \/ AskingFor(e)

MeasuredInv ==
  /\ MeasuredRowsOK
  /\ use.load = 1 /\ NeverRestarted => MeasuredOnce
  /\ NeverRestarted /\ NeverRefused => PutToAHuman

-----------------------------------------------------------------------------
LEMMA GrowthTableFacts ==
  ASSUME GrowthTypes
  PROVE  /\ db.results \in Seq(Outcome)
         /\ db = [experiments |-> db.experiments, approvals |-> db.approvals, results |-> db.results, halted |-> db.halted]
<1>1. PICK T : db \in GrowthTables(T)
  BY DEF GrowthTypes
<1> QED BY <1>1 DEF GrowthTables

(* A call goes on, or begins, and neither writes a status nor a result.    *)
LEMMA MeasuredPassOn ==
  ASSUME GrowthInv, MeasuredInv, NEW c \in Calls, NEW call \in GrowthCall, G!GoTo(c, call), UNCHANGED <<use, history>>,
         db'.results = db.results,
         \A e \in DOMAIN db'.experiments :
           \/ e \in DOMAIN db.experiments /\ db'.experiments[e].status = db.experiments[e].status
           \/ db'.experiments[e].status = "DRAFT" /\ e \notin DOMAIN db.experiments,
         DOMAIN db.experiments \subseteq DOMAIN db'.experiments,
         \A e : Put(e) => Put(e)',
         calls[c].at \notin {"result", "end"}, call.at # "end",
         \A e : calls[c].at = "ask" /\ calls[c].e = e => Put(e)',
         call.at = "result" => /\ call.e \in DOMAIN db.experiments /\ db.experiments[call.e].status = "RUNNING"
                               /\ use.load = 1 => \A d \in Calls : calls[d].at = "idle"
  PROVE  MeasuredInv'
<1>1. /\ calls \in [Calls -> GrowthCall] /\ calls' = [calls EXCEPT ![c] = call] /\ \A d \in Calls : GrowthCallOK(calls[d])
      /\ db.results \in Seq(Outcome)
  BY GrowthTableFacts DEF GrowthInv, GrowthTypes, G!GoTo
<1>2. calls'[c] = call /\ \A d \in Calls \ {c} : calls'[d] = calls[d]
  BY <1>1
<1>3. /\ \A e : Measured(e)' <=> Measured(e)
      /\ \A e : Ran(e)' <=> Ran(e)
      /\ \A e : AtEnd(e)' <=> AtEnd(e)
  BY <1>2 DEF Measured, Ran, AtEnd
<1>4. \A i \in DOMAIN db.results : db.results[i].exp \in DOMAIN db.experiments
  BY DEF MeasuredInv, MeasuredRowsOK, GrowthInv, GrowthRowsOK, Ran
<1>5. MeasuredRowsOK'
  <2>1. \A i \in DOMAIN db.results : Ran(db.results[i].exp)'
    BY <1>3 DEF MeasuredInv, MeasuredRowsOK
  <2>2. \A e : e \in DOMAIN db'.experiments /\ db'.experiments[e].status = "COMPLETED" => Measured(e)'
    BY <1>3 DEF MeasuredInv, MeasuredRowsOK
  <2>3. \A d \in Calls : calls'[d].at = "end" => Measured(calls[d].e)'
    BY <1>2, <1>3 DEF MeasuredInv, MeasuredRowsOK
  <2> QED BY <2>1, <2>2, <2>3 DEF MeasuredInv, MeasuredRowsOK
<1>6. ASSUME use.load = 1, NeverRestarted PROVE MeasuredOnce'
  <2>1. MeasuredOnce
    BY <1>6 DEF MeasuredInv
  <2>2. \A i, j \in DOMAIN db'.results : db'.results[i].exp = db'.results[j].exp => i = j
    BY <2>1 DEF MeasuredOnce
  <2>3. ASSUME NEW d \in Calls, calls'[d].at = "result" PROVE db'.experiments[calls'[d].e].status = "RUNNING" /\ ~Measured(calls[d].e)'
    <3>1. CASE d = c
      <4>1. ~AtEnd(call.e) /\ call.e \in DOMAIN db.experiments /\ db.experiments[call.e].status = "RUNNING"
        BY <1>2, <1>6, <2>3, <3>1 DEF AtEnd
      <4>2. ~Measured(call.e)
        BY <2>1, <4>1 DEF MeasuredOnce
      <4>3. db'.experiments[call.e].status = "RUNNING"
        BY <4>1
      <4> QED BY <1>2, <1>3, <3>1, <4>2, <4>3
    <3>2. CASE d # c
      <4>1. calls'[d] = calls[d] /\ calls[d].e \in DOMAIN db.experiments
        BY <1>1, <1>2, <2>3, <3>2 DEF GrowthCallOK
      <4>2. db.experiments[calls[d].e].status = "RUNNING" /\ ~Measured(calls[d].e)
        BY <2>1, <2>3, <4>1 DEF MeasuredOnce
      <4>3. db'.experiments[calls[d].e].status = db.experiments[calls[d].e].status
        BY <4>1
      <4> QED BY <1>3, <4>1, <4>2, <4>3
    <3> QED BY <3>1, <3>2
  <2>4. ASSUME NEW e, e \in DOMAIN db'.experiments, Measured(e)' PROVE db'.experiments[e].status = "COMPLETED" \/ AtEnd(e)'
    <3>1. e \in DOMAIN db.experiments
      BY <1>3, <1>4, <2>4 DEF Measured
    <3>2. db'.experiments[e].status = db.experiments[e].status
      BY <3>1
    <3> QED BY <1>3, <2>1, <2>4, <3>1, <3>2 DEF MeasuredOnce
  <2> QED BY <2>2, <2>3, <2>4 DEF MeasuredOnce
<1>7. ASSUME NeverRestarted, NeverRefused PROVE PutToAHuman'
  <2> SUFFICES ASSUME NEW e, e \in DOMAIN db'.experiments, db'.experiments[e].status = "AWAITING_APPROVAL"
               PROVE  Put(e)' \/ AskingFor(e)'
    BY DEF PutToAHuman
  <2>1. e \in DOMAIN db.experiments /\ db.experiments[e].status = "AWAITING_APPROVAL"
    OBVIOUS
  <2>2. Put(e) \/ AskingFor(e)
    BY <1>7, <2>1 DEF MeasuredInv, PutToAHuman
  <2>3. CASE AskingFor(e)
    <3>1. PICK d \in Calls : calls[d].at = "ask" /\ calls[d].e = e
      BY <2>3 DEF AskingFor
    <3> QED BY <1>2, <3>1 DEF AskingFor
  <2> QED BY <2>2, <2>3
<1> QED BY <1>5, <1>6, <1>7 DEF MeasuredInv, NeverRestarted, NeverRefused

(* Nothing happens to the calls or to what is measured.                    *)
LEMMA MeasuredStands ==
  ASSUME MeasuredInv, UNCHANGED <<use, calls, history>>, db'.results = db.results, db'.experiments = db.experiments, \A e : Put(e) => Put(e)'
  PROVE  MeasuredInv'
<1>1. \A e : (Measured(e)' <=> Measured(e)) /\ (Ran(e)' <=> Ran(e)) /\ (AtEnd(e)' <=> AtEnd(e)) /\ (AskingFor(e)' <=> AskingFor(e))
  BY DEF Measured, Ran, AtEnd, AskingFor
<1>2. MeasuredRowsOK'
  BY <1>1 DEF MeasuredInv, MeasuredRowsOK
<1>3. use.load = 1 /\ NeverRestarted => MeasuredOnce'
  BY <1>1 DEF MeasuredInv, MeasuredOnce
<1>4. NeverRestarted /\ NeverRefused => PutToAHuman'
  BY <1>1 DEF MeasuredInv, PutToAHuman
<1> QED BY <1>2, <1>3, <1>4 DEF MeasuredInv, NeverRestarted, NeverRefused

LEMMA MeasuredReads ==
  ASSUME G!GrowthConstants, GrowthInv, MeasuredInv, NEW c \in Calls,
         \/ G!StatusRead(c) \/ G!ApplyRead(c) \/ G!StopCheck(c) \/ G!StartCheck(c)
         \/ \E e \in DOMAIN db.experiments : G!RequestApproval(c, e) \/ G!ApproveToRun(c, e)
         \/ \E a \in DOMAIN db.approvals : G!ApplyDecision(c, a)
         \/ \E e \in DOMAIN db.experiments, saw \in use.measured : G!CompleteExperiment(c, e, saw),
         GrowthInv'
  PROVE  MeasuredInv'
<1>1. UNCHANGED <<use, db, history>> /\ calls \in [Calls -> GrowthCall] /\ calls' \in [Calls -> GrowthCall] /\ GrowthTypes
  BY DEF GrowthInv, GrowthTypes, G!StatusRead, G!ApplyRead, G!StopCheck, G!StartCheck, G!RequestApproval, G!ApproveToRun, G!ApplyDecision, G!CompleteExperiment
<1>2. PICK call \in GrowthCall : call = calls'[c]
  BY <1>1
<1>3. \E next : calls' = [calls EXCEPT ![c] = next]
  BY DEF G!StatusRead, G!ApplyRead, G!StopCheck, G!StartCheck, G!RequestApproval, G!ApproveToRun, G!ApplyDecision, G!CompleteExperiment, G!Return, G!GoTo
<1>4. G!GoTo(c, call)
  BY <1>1, <1>2, <1>3 DEF G!GoTo
<1>5. calls[c].at \notin {"result", "end", "ask"}
  BY DEF G!StatusRead, G!ApplyRead, G!StopCheck, G!StartCheck, G!RequestApproval, G!ApproveToRun, G!ApplyDecision, G!CompleteExperiment, G!Begin
<1>6. /\ call.at # "end"
      /\ call.at = "result" => /\ call.e \in DOMAIN db.experiments /\ db.experiments[call.e].status = "RUNNING"
                               /\ use.load = 1 => \A d \in Calls : calls[d].at = "idle"
  <2>1. CASE \E e \in DOMAIN db.experiments, saw \in use.measured : G!CompleteExperiment(c, e, saw)
    <3>1. PICK e \in DOMAIN db.experiments, saw \in use.measured : G!CompleteExperiment(c, e, saw)
      BY <2>1
    <3>2. call = [G!Idle EXCEPT !.at = "result", !.op = "complete", !.e = e, !.saw = saw] /\ db.experiments[e].status = "RUNNING"
      BY <1>1, <1>2, <3>1 DEF G!CompleteExperiment, G!GoTo
    <3>3. call.at = "result" /\ call.e = e
      BY <3>2 DEF G!Idle
    <3>4. use.load = 1 => \A d \in Calls : calls[d].at = "idle"
      BY <1>1, <3>1, GrowthBeginFacts DEF G!CompleteExperiment
    <3> QED BY <3>2, <3>3, <3>4
  <2>2. CASE G!StatusRead(c) \/ G!ApplyRead(c) \/ G!StopCheck(c) \/ G!StartCheck(c)
    <3>1. PICK old \in GrowthCall : old = calls[c]
      BY <1>1
    <3>2. G!Idle.at = "idle"
      BY GrowthIdle
    <3>3. CASE G!StatusRead(c)
      BY <1>1, <1>2, <3>1, <3>2, <3>3 DEF G!StatusRead, G!GoTo, G!Return, GrowthCall
    <3>4. CASE G!StopCheck(c)
      BY <1>1, <1>2, <3>1, <3>2, <3>4 DEF G!StopCheck, G!GoTo, G!Return, GrowthCall
    <3>5. CASE G!StartCheck(c)
      <4>1. CASE G!Startable(old.e)
        <5>1. PICK a : a = db.experiments[old.e].approval
          OBVIOUS
        <5>2. call = [old EXCEPT !.at = "start", !.a = a]
          BY <1>1, <1>2, <3>1, <3>5, <4>1, <5>1 DEF G!StartCheck, G!GoTo
        <5> QED BY <3>1, <5>2 DEF GrowthCall
      <4>2. CASE ~G!Startable(old.e)
        BY <1>1, <1>2, <3>1, <3>2, <3>5, <4>2 DEF G!StartCheck, G!GoTo, G!Return
      <4> QED BY <4>1, <4>2
    <3>6. CASE G!ApplyRead(c)
      <4>1. PICK e, to : e = db.approvals[old.a].exp /\ to = db.approvals[old.a].status
        OBVIOUS
      <4>2. G!GoTo(c, [old EXCEPT !.at = "statusRead", !.e = e, !.to = to]) \/ G!GoTo(c, [old EXCEPT !.at = "run", !.e = e]) \/ G!GoTo(c, G!Idle)
        BY <3>1, <3>6, <4>1 DEF G!ApplyRead, G!Return
      <4>3. call \in {[old EXCEPT !.at = "statusRead", !.e = e, !.to = to], [old EXCEPT !.at = "run", !.e = e], G!Idle}
        BY <1>1, <1>2, <4>2 DEF G!GoTo
      <4> QED BY <3>1, <3>2, <4>3 DEF GrowthCall
    <3> QED BY <2>2, <3>3, <3>4, <3>5, <3>6
  <2>3. CASE \/ \E e \in DOMAIN db.experiments : G!RequestApproval(c, e) \/ G!ApproveToRun(c, e)
             \/ \E a \in DOMAIN db.approvals : G!ApplyDecision(c, a)
    <3>1. CASE \E e \in DOMAIN db.experiments : G!RequestApproval(c, e)
      BY <1>1, <1>2, <3>1 DEF G!RequestApproval, G!GoTo, G!Idle
    <3>2. CASE \E e \in DOMAIN db.experiments : G!ApproveToRun(c, e)
      BY <1>1, <1>2, <3>2 DEF G!ApproveToRun, G!GoTo, G!Idle
    <3>3. CASE \E a \in DOMAIN db.approvals : G!ApplyDecision(c, a)
      BY <1>1, <1>2, <3>3 DEF G!ApplyDecision, G!GoTo, G!Idle
    <3> QED BY <2>3, <3>1, <3>2, <3>3
  <2> QED BY <2>1, <2>2, <2>3
<1>7. db'.results = db.results /\ db'.experiments = db.experiments /\ DOMAIN db'.experiments = DOMAIN db.experiments
      /\ \A e : Put(e) => Put(e)'
  BY <1>1 DEF Put
<1> QED BY <1>1, <1>4, <1>5, <1>6, <1>7, MeasuredPassOn

LEMMA MeasuredWrites ==
  ASSUME G!GrowthConstants, GrowthInv, MeasuredInv, NEW c \in Calls,
         \/ G!SetApprovalRequest(c) \/ G!Ask(c) \/ G!Propose(c)
         \/ \E a \in DOMAIN db.approvals, verdict \in Verdicts : G!Decide(c, a, verdict),
         GrowthInv'
  PROVE  MeasuredInv'
<1>1. UNCHANGED <<use, history>> /\ calls \in [Calls -> GrowthCall] /\ calls' \in [Calls -> GrowthCall] /\ GrowthTypes
  BY DEF GrowthInv, GrowthTypes, G!SetApprovalRequest, G!Ask, G!Propose, G!Decide
<1>2. PICK call \in GrowthCall : call = calls'[c]
  BY <1>1
<1>3. \E next : calls' = [calls EXCEPT ![c] = next]
  BY DEF G!SetApprovalRequest, G!Ask, G!Propose, G!Decide, G!Return, G!GoTo
<1>4. G!GoTo(c, call)
  BY <1>1, <1>2, <1>3 DEF G!GoTo
<1>5. PICK T : db \in GrowthTables(T)
  BY <1>1 DEF GrowthTypes
<1>6. db.experiments \in Seq(ExperimentRow(T)) /\ db.approvals \in Seq(Asked)
  BY <1>5 DEF GrowthTables
<1>7. db'.results = db.results
  BY <1>5 DEF GrowthTables, G!SetApprovalRequest, G!Ask, G!Propose, G!Decide
<1>8. call.at \notin {"end", "result"} /\ calls[c].at \notin {"result", "end"}
  <2>1. PICK old \in GrowthCall : old = calls[c]
    BY <1>1
  <2>2. CASE G!SetApprovalRequest(c)
    BY <1>1, <1>2, <2>2, GrowthIdle DEF G!SetApprovalRequest, G!GoTo, G!Return
  <2>3. CASE G!Ask(c)
    <3>1. PICK n : n = Len(db.approvals) + 1
      OBVIOUS
    <3>2. call = [old EXCEPT !.at = "bind", !.a = n] /\ old.at = "ask"
      BY <1>1, <1>2, <2>1, <2>3, <3>1 DEF G!Ask, G!GoTo
    <3> QED BY <2>1, <3>2 DEF GrowthCall
  <2>4. CASE G!Propose(c)
    <3>1. PICK n : n = Len(db.experiments) + 1
      OBVIOUS
    <3>2. call = [G!Idle EXCEPT !.at = "statusRead", !.op = "propose", !.e = n, !.to = "ANALYZED"] /\ calls[c].at = "idle"
      BY <1>1, <1>2, <2>4, <3>1 DEF G!Propose, G!GoTo, G!Begin
    <3> QED BY <3>2 DEF G!Idle
  <2>5. ASSUME NEW a \in DOMAIN db.approvals, NEW verdict \in Verdicts, G!Decide(c, a, verdict)
        PROVE  call.at \notin {"end", "result"} /\ calls[c].at \notin {"result", "end"}
    <3>1. G!GoTo(c, [G!Idle EXCEPT !.at = "apply", !.op = "apply", !.a = a, !.auto = TRUE]) \/ G!GoTo(c, G!Idle)
      BY <2>5 DEF G!Decide, G!Return
    <3>3. call.at \in {"apply", "idle"}
      <4>1. ASSUME NEW next, next.at \in {"apply", "idle"}, G!GoTo(c, next) PROVE call.at \in {"apply", "idle"}
        BY <1>1, <1>2, <4>1 DEF G!GoTo
      <4>2. [G!Idle EXCEPT !.at = "apply", !.op = "apply", !.a = a, !.auto = TRUE].at = "apply"
        BY DEF G!Idle
      <4> DEFINE next == [G!Idle EXCEPT !.at = "apply", !.op = "apply", !.a = a, !.auto = TRUE]
      <4>3. next.at = "apply" /\ (G!GoTo(c, next) \/ G!GoTo(c, G!Idle))
        BY <3>1, <4>2
      <4> HIDE DEF next
      <4> QED BY <4>1, <4>3, GrowthIdle
    <3>4. calls[c].at = "idle"
      BY <2>5 DEF G!Decide, G!Begin
    <3> QED BY <3>3, <3>4
  <2> QED BY <2>2, <2>3, <2>4, <2>5
<1>9. /\ DOMAIN db.experiments \subseteq DOMAIN db'.experiments
      /\ \A e \in DOMAIN db'.experiments :
           \/ e \in DOMAIN db.experiments /\ db'.experiments[e].status = db.experiments[e].status
           \/ db'.experiments[e].status = "DRAFT" /\ e \notin DOMAIN db.experiments
  <2>1. CASE G!SetApprovalRequest(c)
    <3>1. db'.experiments = [db.experiments EXCEPT ![calls[c].e].approval = calls[c].a]
      BY <1>5, <2>1 DEF GrowthTables, G!SetApprovalRequest
    <3>2. \A e \in DOMAIN db.experiments : db.experiments[e] \in ExperimentRow(T)
      BY <1>6
    <3> QED BY <1>6, <3>1, <3>2 DEF ExperimentRow
  <2>2. CASE G!Propose(c)
    <3> DEFINE row == G!NewExperiment(G!TargetClaim)
    <3>1. db'.experiments = Append(db.experiments, row) /\ row.status = "DRAFT"
      BY <1>5, <2>2 DEF GrowthTables, G!Propose, G!NewExperiment
    <3> HIDE DEF row
    <3> QED BY <1>6, <3>1
  <2>3. CASE G!Ask(c) \/ \E a \in DOMAIN db.approvals, verdict \in Verdicts : G!Decide(c, a, verdict)
    BY <1>5, <2>3 DEF GrowthTables, G!Ask, G!Decide
  <2> QED BY <2>1, <2>2, <2>3
<1>10. \A e : Put(e) => Put(e)'
  <2>1. CASE G!Ask(c)
    <3> DEFINE row == G!NewRequest(calls[c].e)
    <3>1. db'.approvals = Append(db.approvals, row)
      BY <1>5, <2>1 DEF GrowthTables, G!Ask
    <3> HIDE DEF row
    <3>2. \A a \in DOMAIN db.approvals : a \in DOMAIN db'.approvals /\ db'.approvals[a] = db.approvals[a]
      BY <1>6, <3>1
    <3> QED BY <3>2 DEF Put
  <2>2. CASE G!SetApprovalRequest(c) \/ G!Propose(c)
    BY <1>5, <2>2 DEF GrowthTables, G!SetApprovalRequest, G!Propose, Put
  <2>3. ASSUME NEW x \in DOMAIN db.approvals, NEW verdict \in Verdicts, G!Decide(c, x, verdict)
        PROVE  \A e : Put(e) => Put(e)'
    <3>1. db'.approvals = [db.approvals EXCEPT ![x].status = verdict]
      BY <1>5, <2>3 DEF GrowthTables, G!Decide
    <3>2. \A a \in DOMAIN db.approvals : db.approvals[a] \in Asked
      BY <1>6
    <3>3. \A a \in DOMAIN db.approvals : a \in DOMAIN db'.approvals /\ db'.approvals[a].exp = db.approvals[a].exp
      BY <1>6, <3>1, <3>2 DEF Asked
    <3> QED BY <3>3 DEF Put
  <2> QED BY <2>1, <2>2, <2>3
<1>11. \A e : calls[c].at = "ask" /\ calls[c].e = e => Put(e)'
  <2> SUFFICES ASSUME NEW e, calls[c].at = "ask", calls[c].e = e PROVE Put(e)'
    OBVIOUS
  <2>1. G!Ask(c)
    BY DEF G!SetApprovalRequest, G!Propose, G!Decide, G!Begin
  <2> DEFINE row == G!NewRequest(e)
  <2>2. db'.approvals = Append(db.approvals, row) /\ row.exp = e
    BY <1>5, <2>1 DEF GrowthTables, G!Ask, G!NewRequest
  <2> HIDE DEF row
  <2>3. Len(db.approvals) + 1 \in DOMAIN db'.approvals /\ db'.approvals[Len(db.approvals) + 1] = row
    BY <1>6, <2>2
  <2> QED BY <2>2, <2>3 DEF Put
<1> QED BY <1>1, <1>4, <1>7, <1>8, <1>9, <1>10, <1>11, MeasuredPassOn

-----------------------------------------------------------------------------
(* Steps that write a status or a result.                                  *)
LEMMA MeasuredStatusWrite ==
  ASSUME GrowthInv, MeasuredInv, NEW c \in Calls, G!StatusWrite(c), GrowthInv'
  PROVE  MeasuredInv'
<1>0. PICK call \in GrowthCall : call = calls[c]
  BY DEF GrowthInv, GrowthTypes
<1> DEFINE e == call.e
<1>1. GrowthCallOK(call) /\ (use.load = 1 => GrowthSerialCallOK(call)) /\ GrowthTypes
  BY <1>0 DEF GrowthInv
<1>2. /\ call.at = "statusWrite" /\ db' = [db EXCEPT !.experiments[e].status = call.to] /\ UNCHANGED <<use, history>>
      /\ calls \in [Calls -> GrowthCall] /\ \E next : calls' = [calls EXCEPT ![c] = next]
  BY <1>0, <1>1 DEF G!StatusWrite, G!GoTo, G!Return, GrowthTypes
<1>3. e \in DOMAIN db.experiments /\ call.to \in {"ANALYZED", "AWAITING_APPROVAL", "APPROVED", "REJECTED"}
      /\ (call.to = "AWAITING_APPROVAL" => call.op = "request") /\ (call.to = "ANALYZED" => call.op = "propose")
  BY <1>1, <1>2 DEF GrowthCallOK, Verdicts
<1>4. call.to \in ExperimentStatus
  BY <1>3 DEF ExperimentStatus, G!GROWTH_EXPERIMENT_TRANSITIONS
<1>5. /\ db'.approvals = db.approvals /\ DOMAIN db'.experiments = DOMAIN db.experiments
      /\ db'.experiments[e].status = call.to
      /\ \A x \in DOMAIN db.experiments : x # e => db'.experiments[x] = db.experiments[x]
  BY <1>1, <1>2, <1>3, <1>4, SettingStatus
<1>6. db'.results = db.results
  BY <1>1, <1>2, GrowthTableFacts
<1>7. \A d \in Calls \ {c} : calls'[d] = calls[d]
  BY <1>2
<1>8. calls'[c].at \notin {"result", "end"} /\ (call.op = "request" => calls'[c].at = "ask" /\ calls'[c].e = e)
  <2>1. \/ G!GoTo(c, [call EXCEPT !.at = "ask"])
        \/ call.op = "apply" /\ G!GoTo(c, [call EXCEPT !.at = "run"])
        \/ call.op # "request" /\ G!GoTo(c, G!Idle)
    BY <1>0 DEF G!StatusWrite, G!Return
  <2>2. \/ calls'[c] = [call EXCEPT !.at = "ask"]
        \/ call.op = "apply" /\ calls'[c] = [call EXCEPT !.at = "run"]
        \/ call.op # "request" /\ calls'[c] = G!Idle
    BY <1>2, <2>1 DEF G!GoTo
  <2> QED BY <2>2, GrowthIdle DEF GrowthCall
<1>9. /\ \A x : Measured(x)' <=> Measured(x)
      /\ \A x : Ran(x)' <=> Ran(x)
      /\ \A x : Put(x)' <=> Put(x)
      /\ \A x : AtEnd(x)' <=> AtEnd(x)
  BY <1>0, <1>2, <1>5, <1>6, <1>7, <1>8 DEF Measured, Ran, Put, AtEnd
<1>10. MeasuredRowsOK'
  <2>1. \A i \in DOMAIN db.results : Ran(db.results[i].exp)'
    BY <1>6, <1>9 DEF MeasuredInv, MeasuredRowsOK
  <2>2. \A x : x \in DOMAIN db.experiments /\ db'.experiments[x].status = "COMPLETED" => Measured(x)'
    BY <1>3, <1>5, <1>9 DEF MeasuredInv, MeasuredRowsOK
  <2>3. \A d \in Calls : calls'[d].at = "end" => Measured(calls[d].e)'
    BY <1>7, <1>8, <1>9 DEF MeasuredInv, MeasuredRowsOK
  <2> QED BY <1>2, <1>5, <2>1, <2>2, <2>3 DEF MeasuredInv, MeasuredRowsOK
<1>11. ASSUME use.load = 1, NeverRestarted PROVE MeasuredOnce'
  <2>1. MeasuredOnce /\ \A d \in Calls \ {c} : calls[d].at = "idle"
    BY <1>0, <1>2, <1>11 DEF MeasuredInv, GrowthInv, OneCallInFlight
  <2>2. ~AtEnd(e)
    BY <1>0, <1>2, <2>1 DEF AtEnd
  <2>3. ~Measured(e)
    <3> SUFFICES ASSUME Measured(e) PROVE FALSE
      OBVIOUS
    <3>1. db.experiments[e].status = "COMPLETED"
      BY <1>3, <2>1, <2>2 DEF MeasuredOnce
    <3>2. call.to \in G!GROWTH_EXPERIMENT_TRANSITIONS["COMPLETED"] /\ (call.op = "propose" => db.experiments[e].status = "DRAFT")
      BY <1>1, <1>2, <1>11, <3>1 DEF GrowthSerialCallOK
    <3>3. call.to = "ANALYZED"
      BY <3>2 DEF G!GROWTH_EXPERIMENT_TRANSITIONS
    <3> QED BY <1>3, <3>1, <3>2, <3>3
  <2>4. \A d \in Calls : calls'[d].at # "result"
    BY <1>7, <1>8, <2>1
  <2>5. \A i, j \in DOMAIN db'.results : db'.results[i].exp = db'.results[j].exp => i = j
    BY <1>6, <2>1 DEF MeasuredOnce
  <2>6. \A x : x \in DOMAIN db.experiments /\ Measured(x)' => db'.experiments[x].status = "COMPLETED" \/ AtEnd(x)'
    BY <1>5, <1>9, <2>1, <2>3 DEF MeasuredOnce
  <2> QED BY <1>5, <2>4, <2>5, <2>6 DEF MeasuredOnce
<1>12. ASSUME NeverRestarted, NeverRefused PROVE PutToAHuman'
  <2> SUFFICES ASSUME NEW x, x \in DOMAIN db.experiments, db'.experiments[x].status = "AWAITING_APPROVAL"
               PROVE  Put(x)' \/ AskingFor(x)'
    BY <1>5 DEF PutToAHuman
  <2>1. CASE x = e
    BY <1>3, <1>5, <1>8, <2>1 DEF AskingFor
  <2>2. CASE x # e
    <3>1. Put(x) \/ AskingFor(x)
      BY <1>5, <1>12, <2>2 DEF MeasuredInv, PutToAHuman
    <3>2. AskingFor(x) => AskingFor(x)'
      BY <1>0, <1>2, <1>7 DEF AskingFor
    <3> QED BY <1>9, <3>1, <3>2
  <2> QED BY <2>1, <2>2
<1> QED BY <1>2, <1>10, <1>11, <1>12 DEF MeasuredInv, NeverRestarted, NeverRefused

LEMMA MeasuredStarts ==
  ASSUME GrowthInv, MeasuredInv, NEW c \in Calls, G!MarkStarted(c), GrowthInv'
  PROVE  MeasuredInv'
<1>0. PICK call \in GrowthCall : call = calls[c]
  BY DEF GrowthInv, GrowthTypes
<1> DEFINE e == call.e
           run == [exp |-> e, approval |-> call.a]
<1>1. GrowthCallOK(call) /\ (use.load = 1 => GrowthSerialCallOK(call)) /\ GrowthTypes /\ history \in Seq(ExperimentRun)
  BY <1>0 DEF GrowthInv, GrowthTypes
<1>2. /\ call.at = "start" /\ db' = [db EXCEPT !.experiments[e].status = "RUNNING"] /\ UNCHANGED use
      /\ history' = Append(history, run)
      /\ calls \in [Calls -> GrowthCall] /\ calls' = [calls EXCEPT ![c] = G!Idle]
  BY <1>0, <1>1 DEF G!MarkStarted, G!GoTo, G!Return, GrowthTypes
<1>3. e \in DOMAIN db.experiments
  BY <1>1, <1>2 DEF GrowthCallOK
<1>4. "RUNNING" \in ExperimentStatus
  BY DEF ExperimentStatus, G!GROWTH_EXPERIMENT_TRANSITIONS
<1>5. /\ db'.approvals = db.approvals /\ DOMAIN db'.experiments = DOMAIN db.experiments
      /\ db'.experiments[e].status = "RUNNING"
      /\ \A x \in DOMAIN db.experiments : x # e => db'.experiments[x] = db.experiments[x]
  BY <1>1, <1>2, <1>3, <1>4, SettingStatus
<1>6. db'.results = db.results
  BY <1>1, <1>2, GrowthTableFacts
<1>7. calls'[c].at = "idle" /\ \A d \in Calls \ {c} : calls'[d] = calls[d]
  BY <1>2, GrowthIdle
<1>8. \A i \in DOMAIN history : i \in DOMAIN history' /\ history'[i] = history[i]
  BY <1>1, <1>2, AppendProperties DEF ExperimentRun
<1>9. /\ \A x : Measured(x)' <=> Measured(x)
      /\ \A x : Ran(x) => Ran(x)'
      /\ \A x : Put(x)' <=> Put(x)
      /\ \A x : AtEnd(x)' <=> AtEnd(x)
  BY <1>0, <1>2, <1>5, <1>6, <1>7, <1>8 DEF Measured, Ran, Put, AtEnd
<1>10. MeasuredRowsOK'
  <2>1. \A i \in DOMAIN db.results : Ran(db.results[i].exp)'
    BY <1>6, <1>9 DEF MeasuredInv, MeasuredRowsOK
  <2>2. \A x : x \in DOMAIN db.experiments /\ db'.experiments[x].status = "COMPLETED" => Measured(x)'
    BY <1>3, <1>5, <1>9 DEF MeasuredInv, MeasuredRowsOK
  <2>3. \A d \in Calls : calls'[d].at = "end" => Measured(calls[d].e)'
    BY <1>7, <1>9 DEF MeasuredInv, MeasuredRowsOK
  <2> QED BY <1>2, <1>5, <2>1, <2>2, <2>3 DEF MeasuredInv, MeasuredRowsOK
<1>11. ASSUME use.load = 1, NeverRestarted PROVE MeasuredOnce'
  <2>1. MeasuredOnce /\ \A d \in Calls \ {c} : calls[d].at = "idle"
    BY <1>0, <1>2, <1>11 DEF MeasuredInv, GrowthInv, OneCallInFlight
  <2>2. ~AtEnd(e)
    BY <1>0, <1>2, <2>1 DEF AtEnd
  <2>3. ~Measured(e)
    <3>1. db.experiments[e].status = "APPROVED"
      BY <1>1, <1>2, <1>11 DEF GrowthSerialCallOK
    <3> QED BY <1>3, <2>1, <2>2, <3>1 DEF MeasuredOnce
  <2>4. \A d \in Calls : calls'[d].at # "result"
    BY <1>7, <2>1
  <2>5. \A i, j \in DOMAIN db'.results : db'.results[i].exp = db'.results[j].exp => i = j
    BY <1>6, <2>1 DEF MeasuredOnce
  <2>6. \A x : x \in DOMAIN db.experiments /\ Measured(x)' => db'.experiments[x].status = "COMPLETED" \/ AtEnd(x)'
    BY <1>5, <1>9, <2>1, <2>3 DEF MeasuredOnce
  <2> QED BY <1>5, <2>4, <2>5, <2>6 DEF MeasuredOnce
<1>12. ASSUME NeverRestarted, NeverRefused PROVE PutToAHuman'
  <2> SUFFICES ASSUME NEW x, x \in DOMAIN db.experiments, db'.experiments[x].status = "AWAITING_APPROVAL"
               PROVE  Put(x)' \/ AskingFor(x)'
    BY <1>5 DEF PutToAHuman
  <2>1. x # e
    BY <1>5
  <2>2. Put(x) \/ AskingFor(x)
    BY <1>5, <1>12, <2>1 DEF MeasuredInv, PutToAHuman
  <2>3. AskingFor(x) => AskingFor(x)'
    BY <1>0, <1>2, <1>7 DEF AskingFor
  <2> QED BY <1>9, <2>2, <2>3
<1> QED BY <1>2, <1>10, <1>11, <1>12 DEF MeasuredInv, NeverRestarted, NeverRefused

LEMMA MeasuredEnds ==
  ASSUME GrowthInv, MeasuredInv, NEW c \in Calls, G!MarkEnded(c), GrowthInv'
  PROVE  MeasuredInv'
<1>0. PICK call \in GrowthCall : call = calls[c]
  BY DEF GrowthInv, GrowthTypes
<1> DEFINE e == call.e
<1>1. GrowthCallOK(call) /\ GrowthTypes
  BY <1>0 DEF GrowthInv
<1>2. /\ call.at = "end" /\ db' = [db EXCEPT !.experiments[e].status = "COMPLETED"] /\ UNCHANGED <<use, history>>
      /\ calls \in [Calls -> GrowthCall] /\ calls' = [calls EXCEPT ![c] = G!Idle]
  BY <1>0, <1>1 DEF G!MarkEnded, G!GoTo, G!Return, GrowthTypes
<1>3. e \in DOMAIN db.experiments /\ Measured(e)
  BY <1>0, <1>1, <1>2 DEF GrowthCallOK, MeasuredInv, MeasuredRowsOK
<1>4. "COMPLETED" \in ExperimentStatus
  BY DEF ExperimentStatus, G!GROWTH_EXPERIMENT_TRANSITIONS
<1>5. /\ db'.approvals = db.approvals /\ DOMAIN db'.experiments = DOMAIN db.experiments
      /\ db'.experiments[e].status = "COMPLETED"
      /\ \A x \in DOMAIN db.experiments : x # e => db'.experiments[x] = db.experiments[x]
  BY <1>1, <1>2, <1>3, <1>4, SettingStatus
<1>6. db'.results = db.results
  BY <1>1, <1>2, GrowthTableFacts
<1>7. calls'[c].at = "idle" /\ \A d \in Calls \ {c} : calls'[d] = calls[d]
  BY <1>2, GrowthIdle
<1>9. /\ \A x : Measured(x)' <=> Measured(x)
      /\ \A x : Ran(x)' <=> Ran(x)
      /\ \A x : Put(x)' <=> Put(x)
      /\ \A x : AtEnd(x) => AtEnd(x)' \/ x = e
  BY <1>0, <1>2, <1>5, <1>6, <1>7 DEF Measured, Ran, Put, AtEnd
<1>10. MeasuredRowsOK'
  <2>1. \A i \in DOMAIN db.results : Ran(db.results[i].exp)'
    BY <1>6, <1>9 DEF MeasuredInv, MeasuredRowsOK
  <2>2. \A x : x \in DOMAIN db.experiments /\ db'.experiments[x].status = "COMPLETED" => Measured(x)'
    BY <1>3, <1>5, <1>9 DEF MeasuredInv, MeasuredRowsOK
  <2>3. \A d \in Calls : calls'[d].at = "end" => Measured(calls[d].e)'
    BY <1>7, <1>9 DEF MeasuredInv, MeasuredRowsOK
  <2> QED BY <1>2, <1>5, <2>1, <2>2, <2>3 DEF MeasuredInv, MeasuredRowsOK
<1>11. ASSUME use.load = 1, NeverRestarted PROVE MeasuredOnce'
  <2>1. MeasuredOnce /\ \A d \in Calls \ {c} : calls[d].at = "idle"
    BY <1>0, <1>2, <1>11 DEF MeasuredInv, GrowthInv, OneCallInFlight
  <2>4. \A d \in Calls : calls'[d].at # "result"
    BY <1>7, <2>1
  <2>5. \A i, j \in DOMAIN db'.results : db'.results[i].exp = db'.results[j].exp => i = j
    BY <1>6, <2>1 DEF MeasuredOnce
  <2>6. \A x : x \in DOMAIN db.experiments /\ Measured(x)' => db'.experiments[x].status = "COMPLETED" \/ AtEnd(x)'
    BY <1>5, <1>9, <2>1 DEF MeasuredOnce
  <2> QED BY <1>5, <2>4, <2>5, <2>6 DEF MeasuredOnce
<1>12. ASSUME NeverRestarted, NeverRefused PROVE PutToAHuman'
  <2> SUFFICES ASSUME NEW x, x \in DOMAIN db.experiments, db'.experiments[x].status = "AWAITING_APPROVAL"
               PROVE  Put(x)' \/ AskingFor(x)'
    BY <1>5 DEF PutToAHuman
  <2>1. x # e
    BY <1>5
  <2>2. Put(x) \/ AskingFor(x)
    BY <1>5, <1>12, <2>1 DEF MeasuredInv, PutToAHuman
  <2>3. AskingFor(x) => AskingFor(x)'
    BY <1>0, <1>2, <1>7 DEF AskingFor
  <2> QED BY <1>9, <2>2, <2>3
<1> QED BY <1>2, <1>10, <1>11, <1>12 DEF MeasuredInv, NeverRestarted, NeverRefused

LEMMA MeasuredResult ==
  ASSUME GrowthInv, MeasuredInv, NEW c \in Calls, G!CreateResult(c), GrowthInv'
  PROVE  MeasuredInv'
<1>0. PICK call \in GrowthCall : call = calls[c]
  BY DEF GrowthInv, GrowthTypes
<1> DEFINE e == call.e
           next == [call EXCEPT !.at = "end"]
           result == G!NewResult(e, G!Confidence(call.saw), G!ResultDecision(call.saw))
<1>1. GrowthCallOK(call) /\ GrowthTypes /\ db.results \in Seq(Outcome)
  BY <1>0, GrowthTableFacts DEF GrowthInv
<1>2. /\ call.at = "result" /\ db' = [db EXCEPT !.results = Append(@, result)] /\ UNCHANGED <<use, history>>
      /\ calls \in [Calls -> GrowthCall] /\ calls' = [calls EXCEPT ![c] = next]
  BY <1>0, <1>1 DEF G!CreateResult, G!GoTo, GrowthTypes
<1>3. e \in DOMAIN db.experiments /\ Ran(e)
  BY <1>1, <1>2 DEF GrowthCallOK
<1>4. result.exp = e
  BY DEF G!NewResult
<1>5. db'.results = Append(db.results, result) /\ db'.experiments = db.experiments /\ db'.approvals = db.approvals
  BY <1>1, <1>2, GrowthTableFacts
<1>6. next.at = "end" /\ next.e = e
  BY DEF GrowthCall
<1> HIDE DEF result, next
<1>n. PICK n : n = Len(db.results) + 1
  OBVIOUS
<1>7. /\ DOMAIN db'.results = DOMAIN db.results \cup {n} /\ db'.results[n] = result /\ n \notin DOMAIN db.results
      /\ \A i \in DOMAIN db.results : db'.results[i] = db.results[i]
  BY <1>n, <1>1, <1>5
<1>8. calls'[c] = next /\ \A d \in Calls \ {c} : calls'[d] = calls[d]
  BY <1>2
<1>9. /\ \A x : Measured(x)' <=> Measured(x) \/ x = e
      /\ \A x : Ran(x)' <=> Ran(x)
      /\ \A x : Put(x)' <=> Put(x)
      /\ \A x : AtEnd(x)' <=> AtEnd(x) \/ x = e
  <2>1. \A x : Measured(x)' <=> Measured(x) \/ x = e
    BY <1>4, <1>7 DEF Measured
  <2>2. \A x : AtEnd(x)' <=> AtEnd(x) \/ x = e
    BY <1>0, <1>2, <1>6, <1>8 DEF AtEnd
  <2> QED BY <1>2, <1>5, <2>1, <2>2 DEF Ran, Put
<1>10. MeasuredRowsOK'
  <2>1. \A i : i \in DOMAIN db'.results => Ran(db.results[i].exp)'
    BY <1>3, <1>4, <1>7, <1>9 DEF MeasuredInv, MeasuredRowsOK
  <2>2. \A x : x \in DOMAIN db.experiments /\ db'.experiments[x].status = "COMPLETED" => Measured(x)'
    BY <1>5, <1>9 DEF MeasuredInv, MeasuredRowsOK
  <2>3. \A d \in Calls : calls'[d].at = "end" => Measured(calls[d].e)'
    BY <1>6, <1>8, <1>9 DEF MeasuredInv, MeasuredRowsOK
  <2> QED BY <1>2, <1>5, <2>1, <2>2, <2>3 DEF MeasuredInv, MeasuredRowsOK
<1>11. ASSUME use.load = 1, NeverRestarted PROVE MeasuredOnce'
  <2>1. MeasuredOnce /\ \A d \in Calls \ {c} : calls[d].at = "idle"
    BY <1>0, <1>2, <1>11 DEF MeasuredInv, GrowthInv, OneCallInFlight
  <2>2. ~Measured(e)
    BY <1>0, <1>2, <2>1 DEF MeasuredOnce
  <2>4. \A d \in Calls : calls'[d].at # "result"
    BY <1>6, <1>8, <2>1
  <2>5. \A i, j \in DOMAIN db'.results : db'.results[i].exp = db'.results[j].exp => i = j
    BY <1>4, <1>7, <2>1, <2>2 DEF MeasuredOnce, Measured
  <2>6. \A x : x \in DOMAIN db.experiments /\ Measured(x)' => db'.experiments[x].status = "COMPLETED" \/ AtEnd(x)'
    BY <1>5, <1>9, <2>1 DEF MeasuredOnce
  <2> QED BY <1>5, <2>4, <2>5, <2>6 DEF MeasuredOnce
<1>12. ASSUME NeverRestarted, NeverRefused PROVE PutToAHuman'
  <2> SUFFICES ASSUME NEW x, x \in DOMAIN db.experiments, db'.experiments[x].status = "AWAITING_APPROVAL"
               PROVE  Put(x)' \/ AskingFor(x)'
    BY <1>5 DEF PutToAHuman
  <2>2. Put(x) \/ AskingFor(x)
    BY <1>5, <1>12 DEF MeasuredInv, PutToAHuman
  <2>3. AskingFor(x) => AskingFor(x)'
    BY <1>0, <1>2, <1>8 DEF AskingFor
  <2> QED BY <1>9, <2>2, <2>3
<1> QED BY <1>2, <1>10, <1>11, <1>12 DEF MeasuredInv, NeverRestarted, NeverRefused

-----------------------------------------------------------------------------
(* A request is refused, or the process restarted: less is promised.       *)
LEMMA MeasuredFaults ==
  ASSUME GrowthInv, MeasuredInv, (\E c \in Calls : G!AskNobody(c)) \/ G!Restart, GrowthInv'
  PROVE  MeasuredInv'
<1>1. UNCHANGED <<db, history>> /\ use \in G!Use /\ calls \in [Calls -> GrowthCall]
  BY DEF GrowthInv, GrowthTypes, G!AskNobody, G!Restart
<1>2. \A d \in Calls : calls'[d].at = "idle" \/ calls'[d] = calls[d]
  BY <1>1, GrowthIdle DEF G!AskNobody, G!Restart, G!Return, G!GoTo
<1>3. \A x : (Measured(x)' <=> Measured(x)) /\ (Ran(x)' <=> Ran(x))
  BY <1>1 DEF Measured, Ran
<1>4. CASE \E c \in Calls : G!AskNobody(c)
  <2>1. PICK c \in Calls : G!AskNobody(c)
    BY <1>4
  <2>2. PICK u \in G!Use : u = use
    BY <1>1
  <2>3. use' = [u EXCEPT !.faults = u.faults - 1] /\ u.faults > 0 /\ calls[c].at = "ask"
    BY <2>1, <2>2 DEF G!AskNobody
  <2>4. /\ use'.load = use.load /\ use'.restarts = use.restarts /\ use'.crashes = use.crashes /\ use'.mishaps = use.mishaps
        /\ use'.faults <= use'.mishaps /\ use'.faults # use'.mishaps
    BY <2>2, <2>3 DEF G!Use, MeasuredInv, MeasuredRowsOK
  <2>5. MeasuredRowsOK'
    BY <1>1, <1>2, <1>3, <2>4 DEF MeasuredInv, MeasuredRowsOK
  <2>6. \A x : AtEnd(x) => AtEnd(x)'
    <3>1. \A d \in Calls : calls[d].at = "end" => calls'[d] = calls[d]
      BY <1>1, <2>1, <2>3 DEF G!AskNobody, G!Return, G!GoTo
    <3> QED BY <3>1 DEF AtEnd
  <2>7. ASSUME use.load = 1, NeverRestarted PROVE MeasuredOnce'
    <3>1. MeasuredOnce
      BY <2>7 DEF MeasuredInv
    <3>2. \A d \in Calls : calls'[d].at = "result" => db'.experiments[calls'[d].e].status = "RUNNING" /\ ~Measured(calls[d].e)'
      BY <1>1, <1>2, <1>3, <3>1 DEF MeasuredOnce
    <3> QED BY <1>1, <1>3, <2>6, <3>1, <3>2 DEF MeasuredOnce
  <2> QED BY <2>4, <2>5, <2>7 DEF MeasuredInv, NeverRestarted, NeverRefused
<1>5. CASE G!Restart
  <2>2. PICK u \in G!Use : u = use
    BY <1>1
  <2>3. use' = [u EXCEPT !.crashes = u.crashes - 1] /\ u.crashes > 0
    BY <1>5, <2>2 DEF G!Restart
  <2>4. /\ use'.faults = use.faults /\ use'.mishaps = use.mishaps
        /\ use'.crashes <= use'.restarts /\ use'.restarts # use'.crashes
    BY <2>2, <2>3 DEF G!Use, MeasuredInv, MeasuredRowsOK
  <2>5. MeasuredRowsOK'
    BY <1>1, <1>2, <1>3, <2>4 DEF MeasuredInv, MeasuredRowsOK
  <2> QED BY <2>4, <2>5 DEF MeasuredInv, NeverRestarted
<1> QED BY <1>4, <1>5

LEMMA MeasuredTime ==
  ASSUME GrowthInv, MeasuredInv, (\E a \in DOMAIN db.approvals : G!Expire(a) \/ G!Lapse(a)) \/ G!Halt \/ UNCHANGED G!vars
  PROVE  MeasuredInv'
<1>1. PICK T : db \in GrowthTables(T)
  BY DEF GrowthInv, GrowthTypes
<1>2. db.approvals \in Seq(Asked)
  BY <1>1 DEF GrowthTables
<1>3. UNCHANGED <<use, calls, history>> /\ db'.results = db.results /\ db'.experiments = db.experiments
  BY <1>1 DEF GrowthTables, G!Expire, G!Lapse, G!Halt, G!vars
<1>4. \A e : Put(e) => Put(e)'
  <2>1. CASE \E a \in DOMAIN db.approvals : G!Expire(a) \/ G!Lapse(a)
    <3>1. PICK a \in DOMAIN db.approvals : G!Expire(a) \/ G!Lapse(a)
      BY <2>1
    <3>2. db'.approvals = [db.approvals EXCEPT ![a].status = "EXPIRED"] \/ db'.approvals = [db.approvals EXCEPT ![a].lapsed = TRUE]
      BY <1>1, <3>1 DEF GrowthTables, G!Expire, G!Lapse
    <3>3. \A b \in DOMAIN db.approvals : db.approvals[b] \in Asked
      BY <1>2
    <3>4. \A b \in DOMAIN db.approvals : b \in DOMAIN db'.approvals /\ db'.approvals[b].exp = db.approvals[b].exp
      <4>1. [db.approvals[a] EXCEPT !.status = "EXPIRED"].exp = db.approvals[a].exp /\ [db.approvals[a] EXCEPT !.lapsed = TRUE].exp = db.approvals[a].exp
        BY <3>3 DEF Asked
      <4>2. PICK row : db'.approvals = [db.approvals EXCEPT ![a] = row] /\ row.exp = db.approvals[a].exp
        BY <3>2, <4>1
      <4> QED BY <1>2, <4>2
    <3> QED BY <3>4 DEF Put
  <2>2. CASE G!Halt \/ UNCHANGED G!vars
    BY <1>1, <2>2 DEF GrowthTables, G!Halt, G!vars, Put
  <2> QED BY <2>1, <2>2
<1> QED BY <1>3, <1>4, MeasuredStands

LEMMA MeasuredInitInv ==
  ASSUME G!GrowthConstants, G!GrowthInit
  PROVE  MeasuredInv
<1>1. /\ use \in G!Use /\ use.crashes = use.restarts /\ use.faults = use.mishaps
      /\ db.experiments = <<>> /\ db.results = <<>> /\ calls = [c \in Calls |-> G!Idle]
  BY DEF G!GrowthInit, G!GrowthConstants
<1>2. use.crashes \in Nat /\ use.faults \in Nat
  BY <1>1 DEF G!Use
<1> QED BY <1>1, <1>2, GrowthIdle DEF MeasuredInv, MeasuredRowsOK, MeasuredOnce, PutToAHuman

LEMMA MeasuredNextInv ==
  ASSUME G!GrowthConstants, GrowthInv, MeasuredInv, G!GrowthNext \/ UNCHANGED G!vars
  PROVE  GrowthInv' /\ MeasuredInv'
<1>1. GrowthInv'
  BY GrowthNextInv
<1>2. ASSUME NEW c \in Calls, G!Step(c) PROVE MeasuredInv'
  BY <1>1, <1>2, MeasuredReads, MeasuredWrites, MeasuredStatusWrite, MeasuredStarts, MeasuredResult, MeasuredEnds, MeasuredFaults DEF G!Step
<1>3. ASSUME NEW c \in Calls, G!Request(c) PROVE MeasuredInv'
  <2>1. ASSUME NEW a \in DOMAIN db.approvals, NEW verdict \in {"APPROVED", "REJECTED"}, G!Decide(c, a, verdict) PROVE MeasuredInv'
    BY <1>1, <2>1, MeasuredWrites DEF Verdicts
  <2> QED BY <1>1, <1>3, <2>1, MeasuredReads, MeasuredWrites DEF G!Request
<1> QED BY <1>1, <1>2, <1>3, MeasuredTime, MeasuredFaults DEF G!GrowthNext

(* Both invariants say more than what is promised of experiments.          *)
LEMMA GrowthMeasured ==
  ASSUME GrowthInv, MeasuredInv
  PROVE  G!ExperimentsAreMeasured
<1>1. \A i \in DOMAIN db.results : G!RunsOf(db.results[i].exp) # {}
  BY DEF MeasuredInv, MeasuredRowsOK, Ran, G!RunsOf
<1>2. \A e \in DOMAIN db.experiments : db.experiments[e].status = "COMPLETED" => G!ResultsOf(e) # {}
  BY DEF MeasuredInv, MeasuredRowsOK, Measured, G!ResultsOf
<1>3. ASSUME use.load = 1, use.restarts = use.crashes, NEW e \in DOMAIN db.experiments
      PROVE  G!Cardinality(G!ResultsOf(e)) <= 1
  <2>1. \A i, j \in G!ResultsOf(e) : i = j
    BY <1>3 DEF MeasuredInv, NeverRestarted, MeasuredOnce, G!ResultsOf
  <2>2. Cardinality(G!ResultsOf(e)) <= 1
    BY <2>1, AtMostOne
  <2> QED BY <2>2, GrowthCounts
<1>4. use.restarts = use.crashes /\ use.mishaps = use.faults =>
        \A e \in DOMAIN db.experiments : db.experiments[e].status = "AWAITING_APPROVAL" =>
          \/ \E a \in DOMAIN db.approvals : db.approvals[a].exp = e
          \/ \E c \in Calls : calls[c].at = "ask" /\ calls[c].e = e
  BY DEF MeasuredInv, NeverRestarted, NeverRefused, PutToAHuman, Put, AskingFor
<1> QED BY <1>1, <1>2, <1>3, <1>4 DEF G!ExperimentsAreMeasured
=============================================================================
