\* A stale scan is failed, its successor admitted, and then its task arrives.
CONSTANTS
    o1 = o1  o2 = o2  s1 = s1  s2 = s2  s3 = s3  w1 = w1  w2 = w2
    Orgs = {o1}
    NoOrg = NoOrg
    Names = {"d1"}
    Scans = {s1, s2}
    Workers = {w1}
    Plans = {"pro"}
    NoPlan = NoPlan
    Quota <- MCQuota
    BrowserPlans = {}
    ScheduledPlans = {}
    Verdicts = {FALSE}
    MaxRetries = 0
    MaxBrowserRetries = 0
    MaxLosses = 0
    MaxPeriods = 1
    MaxPlanChanges = 0
SPECIFICATION Spec
CHECK_DEADLOCK FALSE
SYMMETRY Symmetry
INVARIANTS OneInFlight
