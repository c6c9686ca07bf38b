----------------------------- MODULE AgentsProofs -----------------------------
(***************************************************************************)
(* Theorems about Agents, for every set of agents, requests and plans: the *)
(* type invariant, that agents only grow within the quota, that a revoked  *)
(* agent stays revoked, and that the agents implement QuotaGate.           *)
(***************************************************************************)
EXTENDS Agents, FiniteSetTheorems, TLAPS

\* A request that authenticates or reports has an agent.
Targets == \A q \in Requests :
              request[q].pc \in {"authenticating", "reporting"} => request[q].agent \in Agents

\* A request that creates holds the organisation's lock, and what it counted still is
\* below the quota.
Locking == \A q \in Requests :
              /\ request[q].pc \in {"locked", "counted"} => lock = q
              /\ request[q].pc = "counted" => HasAgentQuota

\* The inductive invariant.
AgentsInv == TypeOK /\ Targets /\ Locking

LEMMA FiniteCurrent == IsFiniteSet(Current) /\ Cardinality(Current) \in Nat
<1>1. IsFiniteSet(Current)
  BY ConstantsAssumption, FS_Subset DEF Current
<1> QED
  BY <1>1, FS_CardinalityType

LEMMA IdleType == Idle \in RequestState /\ Idle.pc = "idle" /\ Idle.agent = Nobody
  BY DEF Idle, RequestState

\* What a step may do to the status of an agent's row: keep it, write another one on the
\* row of a current agent, or create the row.
RowKept(a) == agent'[a].status = agent[a].status
RowWritten(a) == a \in Current /\ agent'[a].status \in {"inactive", "active", "revoked"}
RowCreated(a) == /\ agent[a].status = "none" /\ agent'[a].status = "inactive"
                 /\ \E q \in Requests, n \in Names : CreateInsert(q, a, n)

LEMMA RowSteps ==
  ASSUME AgentsInv, [Next]_vars
  PROVE  /\ agent' \in [Agents -> AgentRow]
         /\ \A a \in Agents : RowKept(a) \/ RowWritten(a) \/ RowCreated(a)
<1> USE DEF AgentsInv, TypeOK
<1>1. CASE UNCHANGED agent
  BY <1>1 DEF RowKept
<1>2. ASSUME NEW q \in Requests, NEW b \in Agents, NEW n \in Names, CreateInsert(q, b, n)
      PROVE  /\ agent' \in [Agents -> AgentRow]
             /\ \A a \in Agents : RowKept(a) \/ RowWritten(a) \/ RowCreated(a)
  <2>1. /\ agent' \in [Agents -> AgentRow]
        /\ agent[b].status = "none" /\ agent'[b].status = "inactive"
        /\ \A a \in Agents : a # b => RowKept(a)
    BY <1>2 DEF CreateInsert, AgentRow, RowKept
  <2> QED
    BY <1>2, <2>1 DEF RowCreated
<1>3. ASSUME NEW b \in Agents, Revoke(b)
      PROVE  /\ agent' \in [Agents -> AgentRow]
             /\ \A a \in Agents : RowKept(a) \/ RowWritten(a) \/ RowCreated(a)
  BY <1>3 DEF Revoke, AgentRow, RowKept, RowWritten
<1>4. ASSUME NEW q \in Requests, AuthCommit(q)
      PROVE  /\ agent' \in [Agents -> AgentRow]
             /\ \A a \in Agents : RowKept(a) \/ RowWritten(a) \/ RowCreated(a)
  <2> DEFINE b == request[q].agent
  <2>1. b \in Agents
    BY <1>4 DEF AuthCommit, Targets
  <2>2. CASE "active" \in Transitions(agent[b].status)
    <3>1. agent[b].status = "inactive"
      BY <2>1, <2>2 DEF Transitions, AgentRow
    <3> QED
      BY <1>4, <2>1, <2>2, <3>1 DEF AuthCommit, AgentRow, RowKept, RowWritten, Current
  <2>3. CASE "active" \notin Transitions(agent[b].status)
    BY <1>4, <2>3 DEF AuthCommit, RowKept
  <2> QED
    BY <2>2, <2>3
<1>5. ASSUME NEW q \in Requests, ReportCommit(q)
      PROVE  /\ agent' \in [Agents -> AgentRow]
             /\ \A a \in Agents : RowKept(a) \/ RowWritten(a) \/ RowCreated(a)
  <2> DEFINE b == request[q].agent
  <2>1. b \in Agents
    BY <1>5 DEF ReportCommit, Targets
  <2>2. CASE "active" \in Transitions(agent[b].status)
    <3>1. agent[b].status = "inactive"
      BY <2>1, <2>2 DEF Transitions, AgentRow
    <3> QED
      BY <1>5, <2>1, <2>2, <3>1 DEF ReportCommit, AgentRow, RowKept, RowWritten, Current
  <2>3. CASE "active" \notin Transitions(agent[b].status)
    BY <1>5, <2>3 DEF ReportCommit, RowKept
  <2> QED
    BY <2>2, <2>3
<1>6. CASE HealthUpdate
  BY <1>6 DEF HealthUpdate, Retired, Silent, Inactivated, AgentRow, RowKept, RowWritten, Current
<1>7. ASSUME NEW b \in Agents, AccessExpires(b) \/ WeekPasses(b)
      PROVE  /\ agent' \in [Agents -> AgentRow]
             /\ \A a \in Agents : RowKept(a)
  BY <1>7 DEF AccessExpires, WeekPasses, AgentRow, RowKept
<1>8. ASSUME NEW q \in Requests, \/ CreateLock(q) \/ CreateCount(q) \/ CreateRefused(q)
                                 \/ \E a \in Agents : AuthRead(q, a) \/ ReportRead(q, a)
      PROVE  UNCHANGED agent
  BY <1>8 DEF CreateLock, CreateCount, CreateRefused, AuthRead, ReportRead
<1>9. ASSUME HealthSelect \/ (\E p \in Plans : ChangePlan(p)) \/ Suspend \/ UNCHANGED vars
      PROVE  UNCHANGED agent
  BY <1>9 DEF HealthSelect, ChangePlan, Suspend, vars
<1> QED
  BY <1>1, <1>2, <1>3, <1>4, <1>5, <1>6, <1>7, <1>8, <1>9 DEF Next

\* A request enters "authenticating" or "reporting" with an agent, and every request that
\* is written stays well typed.
LEMMA RequestSteps ==
  ASSUME AgentsInv, [Next]_vars
  PROVE  request' \in [Requests -> RequestState] /\ Targets'
<1> USE DEF AgentsInv, TypeOK
<1> USE IdleType
<1>1. CASE UNCHANGED request
  BY <1>1 DEF Targets
<1>2. ASSUME NEW q \in Requests, request' = [request EXCEPT ![q] = Idle]
      PROVE  request' \in [Requests -> RequestState] /\ Targets'
  BY <1>2 DEF Targets
<1>3. ASSUME NEW q \in Requests, NEW pc \in {"locked", "counted"},
             request' = [request EXCEPT ![q].pc = pc]
      PROVE  request' \in [Requests -> RequestState] /\ Targets'
  BY <1>3 DEF Targets, RequestState
<1>4. ASSUME NEW q \in Requests, NEW a \in Agents, AuthRead(q, a) \/ ReportRead(q, a)
      PROVE  request' \in [Requests -> RequestState] /\ Targets'
  BY <1>4 DEF AuthRead, ReportRead, Targets, RequestState
<1>5. ASSUME NEW q \in Requests, CreateLock(q) \/ CreateCount(q)
      PROVE  request' \in [Requests -> RequestState] /\ Targets'
  BY <1>2, <1>3, <1>5 DEF CreateLock, CreateCount
<1>6. ASSUME NEW q \in Requests, \/ CreateRefused(q) \/ AuthCommit(q) \/ ReportCommit(q)
                                 \/ \E a \in Agents, n \in Names : CreateInsert(q, a, n)
      PROVE  request' \in [Requests -> RequestState] /\ Targets'
  BY <1>2, <1>6 DEF CreateRefused, AuthCommit, ReportCommit, CreateInsert
<1>7. ASSUME \/ \E a \in Agents : Revoke(a) \/ AccessExpires(a) \/ WeekPasses(a)
             \/ HealthSelect \/ HealthUpdate \/ (\E p \in Plans : ChangePlan(p))
             \/ Suspend \/ UNCHANGED vars
      PROVE  UNCHANGED request
  BY <1>7 DEF Revoke, AccessExpires, WeekPasses, HealthSelect, HealthUpdate, ChangePlan,
              Suspend, vars
<1> QED
  BY <1>1, <1>4, <1>5, <1>6, <1>7 DEF Next

LEMMA TypeStep ==
  ASSUME AgentsInv, [Next]_vars
  PROVE  TypeOK'
<1> USE DEF AgentsInv, TypeOK
<1>1. agent' \in [Agents -> AgentRow] /\ request' \in [Requests -> RequestState]
  BY RowSteps, RequestSteps
<1>2. CASE UNCHANGED vars
  BY <1>1, <1>2 DEF vars
<1>3. ASSUME NEW q \in Requests, CreateLock(q) \/ CreateCount(q) \/ CreateRefused(q)
      PROVE  TypeOK'
  BY <1>1, <1>3 DEF CreateLock, CreateCount, CreateRefused, Unlock, org
<1>4. ASSUME NEW q \in Requests, NEW a \in Agents, NEW n \in Names, CreateInsert(q, a, n)
      PROVE  TypeOK'
  BY <1>1, <1>4 DEF CreateInsert, Unlock, org
<1>5. ASSUME NEW q \in Requests, NEW a \in Agents, AuthRead(q, a) \/ ReportRead(q, a)
      PROVE  TypeOK'
  BY <1>1, <1>5 DEF AuthRead, ReportRead, org
<1>6. ASSUME NEW q \in Requests, AuthCommit(q)
      PROVE  TypeOK'
  BY <1>1, <1>6 DEF AuthCommit, org
<1>7. ASSUME NEW q \in Requests, ReportCommit(q)
      PROVE  TypeOK'
  <2>1. request[q].agent \in Agents
    BY <1>7 DEF ReportCommit, Targets
  <2> QED
    BY <1>1, <1>7, <2>1 DEF ReportCommit, org
<1>8. ASSUME NEW a \in Agents, Revoke(a) \/ AccessExpires(a) \/ WeekPasses(a)
      PROVE  TypeOK'
  BY <1>1, <1>8 DEF Revoke, AccessExpires, WeekPasses, org
<1>9. CASE HealthSelect \/ HealthUpdate \/ Suspend
  BY <1>1, <1>9 DEF HealthSelect, HealthUpdate, Suspend, org
<1>10. ASSUME NEW p \in Plans, ChangePlan(p)
       PROVE  TypeOK'
  BY <1>1, <1>10, ConstantsAssumption DEF ChangePlan
<1> QED
  BY <1>2, <1>3, <1>4, <1>5, <1>6, <1>7, <1>8, <1>9, <1>10 DEF Next

\* Without an insertion no agent becomes current.
LEMMA CurrentShrinks ==
  ASSUME AgentsInv, [Next]_vars,
         ~ \E q \in Requests, a \in Agents, n \in Names : CreateInsert(q, a, n)
  PROVE  /\ Current' \subseteq Current
         /\ IsFiniteSet(Current') /\ Cardinality(Current') \in Nat
         /\ Cardinality(Current') <= Cardinality(Current)
<1>1. \A a \in Agents : RowKept(a) \/ RowWritten(a)
  BY RowSteps DEF RowCreated
<1>2. Current' \subseteq Current
  BY <1>1 DEF Current, RowKept, RowWritten
<1> QED
  BY <1>2, FiniteCurrent, FS_Subset, FS_CardinalityType

\* An insertion makes one agent current, under the quota that was counted.
LEMMA InsertWithinQuota ==
  ASSUME AgentsInv, NEW q \in Requests, NEW a \in Agents, NEW n \in Names,
         CreateInsert(q, a, n)
  PROVE  AgentQuota[plan] = Unlimited \/ Cardinality(Current') <= AgentQuota[plan]
<1>1. HasAgentQuota
  BY DEF AgentsInv, Locking, CreateInsert
<1>2. Current' = Current \cup {a}
  BY DEF AgentsInv, TypeOK, CreateInsert, Current, AgentRow
<1>3. Cardinality(Current') <= Cardinality(Current) + 1
  <2>1. a \notin Current
    BY DEF CreateInsert, Current
  <2>2. Cardinality(Current \cup {a}) = Cardinality(Current) + 1
    BY <2>1, FiniteCurrent, FS_AddElement
  <2> QED
    BY <1>2, <2>2, FiniteCurrent
<1>4. Cardinality(Current') \in Nat
  BY <1>2, FiniteCurrent, FS_AddElement, FS_CardinalityType
<1>5. AgentQuota[plan] \in Nat \cup {Unlimited}
  BY ConstantsAssumption DEF AgentsInv, TypeOK
<1> QED
  BY <1>1, <1>3, <1>4, <1>5, FiniteCurrent DEF HasAgentQuota, Unlimited

\* What was counted stays below the quota while the lock is held: the plan waits for the
\* lock, and so does any other insertion.
LEMMA LockingStep ==
  ASSUME AgentsInv, [Next]_vars
  PROVE  Locking'
<1> USE DEF AgentsInv, TypeOK
<1>1. CASE \E q \in Requests, a \in Agents, n \in Names : CreateInsert(q, a, n)
  BY <1>1, IdleType, ConstantsAssumption DEF CreateInsert, Locking, Unlock
<1> SUFFICES ASSUME ~ \E q \in Requests, a \in Agents, n \in Names : CreateInsert(q, a, n)
             PROVE  Locking'
  BY <1>1
<1>2. HasAgentQuota /\ plan' = plan => HasAgentQuota'
  <2>1. AgentQuota[plan] \in Nat \cup {Unlimited}
    BY ConstantsAssumption
  <2> QED
    BY <2>1, CurrentShrinks, FiniteCurrent DEF HasAgentQuota, Unlimited
<1>3. ASSUME NEW q \in Requests, CreateLock(q) \/ CreateCount(q) \/ CreateRefused(q)
      PROVE  Locking'
  <2>1. CASE CreateLock(q)
    BY <1>2, <2>1, ConstantsAssumption DEF CreateLock, OrgLockFree, Locking, RequestState, org
  <2>2. CASE CreateCount(q)
    BY <1>2, <2>2, IdleType, ConstantsAssumption
    DEF CreateCount, Locking, Unlock, RequestState, org
  <2>3. CASE CreateRefused(q)
    BY <1>2, <2>3, IdleType, ConstantsAssumption DEF CreateRefused, Locking, Unlock, org
  <2> QED
    BY <1>3, <2>1, <2>2, <2>3
<1>4. ASSUME NEW q \in Requests, \/ AuthCommit(q) \/ ReportCommit(q)
                                 \/ \E a \in Agents : AuthRead(q, a) \/ ReportRead(q, a)
      PROVE  Locking'
  <2>1. /\ UNCHANGED <<lock, plan>>
        /\ \A r \in Requests : request'[r].pc \in {"locked", "counted"}
                                   => request'[r].pc = request[r].pc
    BY <1>4, IdleType DEF AuthCommit, ReportCommit, AuthRead, ReportRead, org
  <2> QED
    BY <1>2, <2>1 DEF Locking
<1>5. CASE \/ \E a \in Agents : Revoke(a) \/ AccessExpires(a) \/ WeekPasses(a)
           \/ HealthSelect \/ HealthUpdate
  <2>1. UNCHANGED <<lock, plan, request>>
    BY <1>5 DEF Revoke, AccessExpires, WeekPasses, HealthSelect, HealthUpdate, org
  <2> QED
    BY <1>2, <2>1 DEF Locking
<1>6. CASE Suspend \/ \E p \in Plans : ChangePlan(p)
  BY <1>6, ConstantsAssumption DEF Suspend, ChangePlan, Locking
<1>7. CASE UNCHANGED vars
  BY <1>2, <1>7 DEF Locking, vars
<1> QED
  BY <1>3, <1>4, <1>5, <1>6, <1>7 DEF Next

LEMMA InvInit == Init => AgentsInv
<1> SUFFICES ASSUME Init PROVE AgentsInv
  OBVIOUS
<1>1. (CHOOSE n \in Names : TRUE) \in Names
  BY ConstantsAssumption
<1>2. agent \in [Agents -> AgentRow]
  BY <1>1 DEF Init, AgentRow
<1>3. request = [q \in Requests |-> Idle] /\ request \in [Requests -> RequestState]
  BY IdleType DEF Init
<1>4. /\ plan \in Plans /\ planChanges \in 0..MaxPlanChanges /\ suspended \in BOOLEAN
      /\ lock \in Requests \cup {Nobody} /\ selected \subseteq Agents /\ refused \subseteq Agents
  <2>1. plan \in Plans /\ planChanges = 0 /\ lock = Nobody /\ selected = {} /\ refused = {}
    BY DEF Init
  <2>2. suspended \in BOOLEAN
    BY DEF Init
  <2> QED
    BY <2>1, <2>2, ConstantsAssumption
<1>5. TypeOK
  BY <1>2, <1>3, <1>4 DEF TypeOK
<1> QED
  BY <1>3, <1>5, IdleType DEF AgentsInv, Targets, Locking

LEMMA InvStep == AgentsInv /\ [Next]_vars => AgentsInv'
  BY TypeStep, RequestSteps, LockingStep DEF AgentsInv

-----------------------------------------------------------------------------
(* Theorems *)

\* Every state the agents API, the health check and the passage of time reach is well typed.
THEOREM AgentsTypeCorrect == Spec => []TypeOK
<1>1. AgentsInv => TypeOK
  BY DEF AgentsInv
<1> QED
  BY InvInit, InvStep, <1>1, PTL DEF Spec

\* A revoked agent stays revoked, whatever a request or the health check read before.
THEOREM RevokedStays == Spec => RevokedForGood
<1> DEFINE Stays == \A a \in Agents : agent[a].status = "revoked" => agent'[a].status = "revoked"
<1>1. AgentsInv /\ [Next]_vars => [Stays]_vars
  BY RowSteps DEF RowKept, RowWritten, RowCreated, Current
<1> QED
  BY InvInit, InvStep, <1>1, PTL DEF Spec, RevokedForGood

\* AgentService.create keeps the number of agents within the quota of the plan held at
\* that moment, however many requests create agents at once.
THEOREM AgentQuotaKept == Spec => GrowsWithinQuota
<1> DEFINE Within == Cardinality(Current') > Cardinality(Current) =>
                       AgentQuota[plan] = Unlimited \/ Cardinality(Current') <= AgentQuota[plan]
<1>1. ASSUME AgentsInv, [Next]_vars PROVE Within
  <2>1. CASE \E q \in Requests, a \in Agents, n \in Names : CreateInsert(q, a, n)
    BY <1>1, <2>1, InsertWithinQuota
  <2>2. CASE ~ \E q \in Requests, a \in Agents, n \in Names : CreateInsert(q, a, n)
    BY <1>1, <2>2, CurrentShrinks, FiniteCurrent
  <2> QED
    BY <2>1, <2>2
<1> QED
  BY InvInit, InvStep, <1>1, PTL DEF Spec, GrowsWithinQuota

-----------------------------------------------------------------------------
(* The refinement: every step of the agents is a step of the gate, or a stutter. *)

\* The gate counts as the agents do.
LEMMA SameCount == \A S : Gate!Cardinality(S) = Cardinality(S)
  BY DEF Cardinality, Gate!Cardinality

\* An insertion is an admission: the row is new, and what the request counted under the
\* lock still is below the quota.
LEMMA InsertAdmits ==
  ASSUME AgentsInv, NEW q \in Requests, NEW a \in Agents, NEW n \in Names,
         CreateInsert(q, a, n)
  PROVE  Gate!Admit(a)
<1> USE DEF AgentsInv, TypeOK
<1>1. HasAgentQuota
  BY DEF Locking, CreateInsert
<1>2. Gate!HasRoom
  BY <1>1, SameCount DEF HasAgentQuota, Unlimited, Gate!HasRoom
<1>3. /\ agent[a].status = "none" /\ agent'[a].status = "inactive"
      /\ \A b \in Agents : b # a => agent'[b].status = agent[b].status
  BY DEF CreateInsert, AgentRow
<1>4. Current' = Current \cup {a}
  BY <1>3 DEF Current
<1>5. {b \in Agents : agent'[b].status # "none"}
        = {b \in Agents : agent[b].status # "none"} \cup {a}
  BY <1>3
<1>6. UNCHANGED plan
  BY DEF CreateInsert, org
<1> QED
  BY <1>2, <1>3, <1>4, <1>5, <1>6 DEF Gate!Admit

\* Every step but an insertion and a change of the plan lets agents leave, or nothing.
LEMMA OthersLeave ==
  ASSUME AgentsInv, [Next]_vars,
         ~ \E q \in Requests, a \in Agents, n \in Names : CreateInsert(q, a, n),
         ~ \E p \in Plans : ChangePlan(p)
  PROVE  Gate!Leave
<1>1. UNCHANGED plan
  BY DEF Next, CreateLock, CreateCount, CreateRefused, AuthRead, ReportRead, AuthCommit,
         ReportCommit, Revoke, AccessExpires, WeekPasses, HealthSelect, HealthUpdate, Suspend,
         org, vars
<1>2. \A a \in Agents : RowKept(a) \/ RowWritten(a)
  BY RowSteps DEF RowCreated
<1>3. {a \in Agents : agent'[a].status # "none"} = {a \in Agents : agent[a].status # "none"}
  BY <1>2 DEF RowKept, RowWritten, Current
<1> QED
  BY <1>1, <1>3, CurrentShrinks DEF Gate!Leave

LEMMA PlanLimits ==
  ASSUME NEW p \in Plans
  PROVE  AgentQuota[p] \in Gate!Limits
  BY ConstantsAssumption DEF Gate!Limits, Unlimited

\* Creations under the organisation's lock, authentications, reports, revocations and health
\* checks implement the gate: an agent gets in once and only while there is room, and one
\* that left does not come back.
THEOREM AgentsGate == Spec => ImplementsQuotaGate
<1>1. Init => Gate!Init
  BY PlanLimits DEF Init, Current, Gate!Init
<1>2. AgentsInv /\ [Next]_vars => [Gate!Next]_(Gate!vars)
  <2> SUFFICES ASSUME AgentsInv, [Next]_vars PROVE Gate!Next
    OBVIOUS
  <2>1. CASE \E q \in Requests, a \in Agents, n \in Names : CreateInsert(q, a, n)
    BY <2>1, InsertAdmits DEF Gate!Next
  <2>2. CASE \E p \in Plans : ChangePlan(p)
    BY <2>2, PlanLimits DEF ChangePlan, Current, Gate!ChangeLimit, Gate!Next
  <2>3. CASE ~ \/ \E q \in Requests, a \in Agents, n \in Names : CreateInsert(q, a, n)
               \/ \E p \in Plans : ChangePlan(p)
    BY <2>3, OthersLeave DEF Gate!Next
  <2> QED
    BY <2>1, <2>2, <2>3
<1> QED
  BY InvInit, InvStep, <1>1, <1>2, PTL DEF Spec, ImplementsQuotaGate, Gate!Spec
=============================================================================
