-------------------------------- MODULE Agents --------------------------------
(***************************************************************************)
(* The server agents of one organisation: creation under the plan's quota, *)
(* the exchange of an agent's token for a one-hour access token, reports,  *)
(* revocation, and the health check that retires silent agents.            *)
(*                                                                         *)
(* A request is one step per statement whose order with other requests     *)
(* matters: creation takes the organisation's row lock, counts, and        *)
(* inserts; authentication and reports read the agent without a lock and   *)
(* read it again under its lock.                                           *)
(***************************************************************************)
EXTENDS Integers, FiniteSets

CONSTANTS
    Agents,        \* identities of agent rows
    Names,         \* names a user may give an agent
    Requests,      \* requests in flight
    Nobody,        \* no request, no agent
    Plans,         \* plans the organisation may hold; no plan is one with quota 0
    AgentQuota,    \* Plan.agent_quota, -1 = unlimited
    ServerPlans,   \* plans with server_side_scan
    MaxPlanChanges \* bound: plan changes in a behaviour

Unlimited == -1

ASSUME ConstantsAssumption ==
    /\ IsFiniteSet(Agents) /\ Names # {}
    /\ Nobody \notin Requests /\ Nobody \notin Agents
    /\ AgentQuota \in [Plans -> Nat \cup {Unlimited}]
    /\ ServerPlans \subseteq Plans
    /\ MaxPlanChanges \in Nat

VARIABLES
    plan, planChanges, suspended,  \* the organisation row
    lock,      \* the request that holds the organisation's row lock
    agent,     \* agent rows
    request,   \* what each request is doing
    selected,  \* ids that check_agent_health has read and not yet updated
    refused    \* history: agents with a valid access token whose report was refused

vars == <<plan, planChanges, suspended, lock, agent, request, selected, refused>>

AgentRow == [status: {"none", "inactive", "active", "revoked"}, name: Names,
             seen: {"never", "recently", "long ago"}, access: BOOLEAN]

RequestState == [pc: {"idle", "locked", "counted", "authenticating", "reporting"},
                 agent: Agents \cup {Nobody}]

Idle == [pc |-> "idle", agent |-> Nobody]

\* The type invariant.
TypeOK ==
    /\ plan \in Plans /\ planChanges \in 0..MaxPlanChanges /\ suspended \in BOOLEAN
    /\ lock \in Requests \cup {Nobody}
    /\ agent \in [Agents -> AgentRow]
    /\ request \in [Requests -> RequestState]
    /\ selected \subseteq Agents /\ refused \subseteq Agents

Init ==
    /\ plan \in Plans /\ planChanges = 0 /\ suspended = FALSE
    /\ lock = Nobody
    /\ agent = [a \in Agents |-> [status |-> "none", name |-> CHOOSE n \in Names : TRUE,
                                  seen |-> "never", access |-> FALSE]]
    /\ request = [q \in Requests |-> Idle]
    /\ selected = {} /\ refused = {}

org == <<plan, planChanges, suspended>>

\* Agents whose row is not soft-deleted: revoking an agent deletes it.
Current == {a \in Agents : agent[a].status \in {"inactive", "active"}}

-----------------------------------------------------------------------------
(* AgentService.create *)

\* Mutant of OrgLockFree: the organisation is read without select_for_update.
OrgLockNotTaken == TRUE

OrgLockFree == lock = Nobody

CreateLock(q) ==
    /\ request[q].pc = "idle"
    /\ OrgLockFree
    /\ lock' = q
    /\ request' = [request EXCEPT ![q].pc = "locked"]
    /\ UNCHANGED <<org, agent, selected, refused>>

HasAgentQuota ==
    /\ AgentQuota[plan] # 0
    /\ AgentQuota[plan] = Unlimited \/ Cardinality(Current) < AgentQuota[plan]

Unlock(q) == lock' = IF lock = q THEN Nobody ELSE lock

\* The count of current agents is below the quota, or the request is refused.
CreateCount(q) ==
    /\ request[q].pc = "locked"
    /\ \/ /\ HasAgentQuota
          /\ request' = [request EXCEPT ![q].pc = "counted"]
          /\ UNCHANGED lock
       \/ /\ ~HasAgentQuota
          /\ request' = [request EXCEPT ![q] = Idle]
          /\ Unlock(q)
    /\ UNCHANGED <<org, agent, selected, refused>>

NameTaken(n) == \E a \in Current : agent[a].name = n

CreateInsert(q, a, n) ==
    /\ request[q].pc = "counted"
    /\ agent[a].status = "none" /\ ~NameTaken(n)
    /\ agent' = [agent EXCEPT ![a] = [status |-> "inactive", name |-> n,
                                      seen |-> "never", access |-> FALSE]]
    /\ request' = [request EXCEPT ![q] = Idle]
    /\ Unlock(q)
    /\ UNCHANGED <<org, selected, refused>>

\* The name is taken, the domain does not exist, or the request fails otherwise.
CreateRefused(q) ==
    /\ request[q].pc = "counted"
    /\ request' = [request EXCEPT ![q] = Idle]
    /\ Unlock(q)
    /\ UNCHANGED <<org, agent, selected, refused>>

-----------------------------------------------------------------------------
(* Status transitions *)

\* _AGENT_VALID_TRANSITIONS.
Transitions(status) ==
    CASE status = "inactive" -> {"active", "revoked"}
      [] status = "active"   -> {"inactive", "revoked"}
      [] OTHER               -> {}

\* AgentService.revoke: a soft-deleted agent is not found.
Revoke(a) ==
    /\ a \in Current
    /\ "revoked" \in Transitions(agent[a].status)
    /\ agent' = [agent EXCEPT ![a].status = "revoked"]
    /\ UNCHANGED <<org, lock, request, selected, refused>>

\* AgentService.authenticate up to its transaction.
AuthRead(q, a) ==
    /\ request[q].pc = "idle"
    /\ a \in Current /\ ~suspended /\ plan \in ServerPlans
    /\ request' = [request EXCEPT ![q] = [pc |-> "authenticating", agent |-> a]]
    /\ UNCHANGED <<org, lock, agent, selected, refused>>

\* The agent is read again under its lock and activated, or the request fails.
AuthCommit(q) ==
    LET a == request[q].agent IN
    /\ request[q].pc = "authenticating"
    /\ agent' = IF "active" \in Transitions(agent[a].status)
                THEN [agent EXCEPT ![a] = [@ EXCEPT !.status = "active",
                                                    !.seen = "recently", !.access = TRUE]]
                ELSE agent
    /\ request' = [request EXCEPT ![q] = Idle]
    /\ UNCHANGED <<org, lock, selected, refused>>

\* IsAgentJWT: the access token is valid and the agent is active.
ReportRead(q, a) ==
    /\ request[q].pc = "idle"
    /\ agent[a].access /\ agent[a].status = "active"
    /\ request' = [request EXCEPT ![q] = [pc |-> "reporting", agent |-> a]]
    /\ UNCHANGED <<org, lock, agent, selected, refused>>

\* AgentService.process_report: the result and the transition to "active" commit
\* together, or neither does.
ReportCommit(q) ==
    LET a  == request[q].agent
        ok == "active" \in Transitions(agent[a].status) IN
    /\ request[q].pc = "reporting"
    /\ agent' = IF ok THEN [agent EXCEPT ![a] = [@ EXCEPT !.status = "active",
                                                          !.seen = "recently"]]
                ELSE agent
    /\ refused' = IF ~ok /\ agent[a].access /\ agent[a].status = "active"
                  THEN refused \cup {a} ELSE refused
    /\ request' = [request EXCEPT ![q] = Idle]
    /\ UNCHANGED <<org, lock, selected>>

-----------------------------------------------------------------------------
(* check_agent_health, time, and the organisation *)

\* Mutant of Silent: agents that never authenticated are selected instead.
SilentInactive(a) == agent[a].status = "inactive" /\ agent[a].seen = "long ago"

\* Active, and last seen more than 7 days ago.
Silent(a) == agent[a].status = "active" /\ agent[a].seen = "long ago"

HealthSelect ==
    /\ selected = {}
    /\ selected' = {a \in Agents : Silent(a)}
    /\ selected' # {}
    /\ UNCHANGED <<org, lock, agent, request, refused>>

\* Mutant of Retired: the selected ids are updated without looking again.
RetiredById(ids) == ids

\* The update repeats the conditions of the selection.
Retired(ids) == {a \in ids : Silent(a)}

\* Mutant of Inactivated: another of the STATUS_CHOICES, which no transition knows.
InactivatedAsError(row) == [row EXCEPT !.status = "error"]

Inactivated(row) == [row EXCEPT !.status = "inactive"]

HealthUpdate ==
    /\ selected # {}
    /\ agent' = [a \in Agents |-> IF a \in Retired(selected) THEN Inactivated(agent[a])
                                                            ELSE agent[a]]
    /\ selected' = {}
    /\ UNCHANGED <<org, lock, request, refused>>

\* An hour after it was issued.
AccessExpires(a) ==
    /\ agent[a].access
    /\ agent' = [agent EXCEPT ![a].access = FALSE]
    /\ UNCHANGED <<org, lock, request, selected, refused>>

\* Seven days after last_seen_at: the access token issued then has expired, and no
\* request that used it is still running.
WeekPasses(a) ==
    /\ agent[a].seen = "recently" /\ ~agent[a].access
    /\ \A q \in Requests : request[q].agent # a
    /\ agent' = [agent EXCEPT ![a].seen = "long ago"]
    /\ UNCHANGED <<org, lock, request, selected, refused>>

\* Billing changes the plan; its update waits for the row lock.
ChangePlan(p) ==
    /\ lock = Nobody /\ planChanges < MaxPlanChanges /\ p # plan
    /\ plan' = p /\ planChanges' = planChanges + 1
    /\ UNCHANGED <<suspended, lock, agent, request, selected, refused>>

\* A superadmin suspends the organisation or lifts the suspension.
Suspend ==
    /\ lock = Nobody
    /\ suspended' = ~suspended
    /\ UNCHANGED <<plan, planChanges, lock, agent, request, selected, refused>>

-----------------------------------------------------------------------------
Next ==
    \/ \E q \in Requests :
         \/ CreateLock(q) \/ CreateCount(q) \/ CreateRefused(q)
         \/ \E a \in Agents, n \in Names : CreateInsert(q, a, n)
         \/ \E a \in Agents : AuthRead(q, a) \/ ReportRead(q, a)
         \/ AuthCommit(q) \/ ReportCommit(q)
    \/ \E a \in Agents : Revoke(a) \/ AccessExpires(a) \/ WeekPasses(a)
    \/ HealthSelect \/ HealthUpdate
    \/ \E p \in Plans : ChangePlan(p)
    \/ Suspend

Spec == Init /\ [][Next]_vars

\* Beat starts check_agent_health every 5 minutes and a worker runs it.
FairSpec == Spec /\ WF_vars(HealthSelect) /\ WF_vars(HealthUpdate)

-----------------------------------------------------------------------------
(* Properties *)

\* A revoked agent stays revoked: neither a request that read it before it was revoked
\* nor the health check brings it back.
RevokedForGood ==
    [][\A a \in Agents : agent[a].status = "revoked" => agent'[a].status = "revoked"]_vars

\* The number of agents only grows within the quota of the plan held at that moment,
\* however many requests create agents at once.
GrowsWithinQuota ==
    [][Cardinality(Current') > Cardinality(Current) =>
          AgentQuota[plan] = Unlimited \/ Cardinality(Current') <= AgentQuota[plan]]_vars

\* An active agent that has been silent for a week does not stay active.
SilentRetired ==
    \A a \in Agents : (agent[a].status = "active" /\ agent[a].seen = "long ago")
                         ~> (agent[a].status # "active")

\* What IsAgentJWT answers to a refused report, "Valid agent token required.": an active
\* agent with a valid token has its report accepted.
ReportsAccepted == refused = {}

-----------------------------------------------------------------------------
(* Refinement: the agents implement QuotaGate. *)

Gate == INSTANCE QuotaGate WITH
    Items <- Agents,
    live <- Current,
    spent <- {a \in Agents : agent[a].status # "none"},
    limit <- AgentQuota[plan],
    returned <- FALSE

\* Creations in several statements, authentications, reports and health checks look like
\* a gate: an agent gets in once, while there is room, and one that left stays out.
ImplementsQuotaGate == Gate!Spec
=============================================================================
