\* Two domain rows, two names, two requests, one scan with two executions, a plan with room for one
\* domain or none, two plan changes; at most two of them at work, and plan changes or scans.
CONSTANTS
    Domains = {d1, d2}
    Names = {n1, n2}
    Scans = {s1}
    Runs = {r1, r2}
    Requests = {q1, q2}
    Nobody = Nobody
    Plans = {"small"}
    NoPlan = NoPlan
    DomainQuota <- Quotas
    ScheduledPlans = {"small"}
    Findings <- Verdicts
    MaxPlanChanges = 2
SPECIFICATION Spec
SYMMETRY Interchangeable
INVARIANTS TypeOK OwnVerdict
PROPERTIES DeletedForGood StatusFromScans ImplementsQuotaGate
CONSTRAINTS TwoAtWork PlansOrScans
CHECK_DEADLOCK FALSE
