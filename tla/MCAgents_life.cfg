\* Two agents, two requests, one plan change, under fair health checks.
CONSTANTS
    Agents = {a1, a2}
    Names = {n1, n2}
    Requests = {q1, q2}
    Nobody = Nobody
    Plans = {"small", "large"}
    AgentQuota <- Quotas
    ServerPlans = {"large"}
    MaxPlanChanges = 1
SPECIFICATION FairSpec
INVARIANT TypeOK
PROPERTIES RevokedForGood ImplementsQuotaGate SilentRetired
CHECK_DEADLOCK FALSE
