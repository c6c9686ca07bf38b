\* Liveness: one scan, two worker losses.
CONSTANTS
    o1 = o1  o2 = o2  s1 = s1  s2 = s2  s3 = s3  w1 = w1  w2 = w2
    Orgs = {o1}
    NoOrg = NoOrg
    Names = {"d1"}
    Scans = {s1}
    Workers = {w1}
    Plans = {"pro"}
    NoPlan = NoPlan
    Quota <- MCQuota
    BrowserPlans = {"pro"}
    ScheduledPlans = {}
    Verdicts = {FALSE, TRUE}
    MaxRetries = 1
    MaxBrowserRetries = 1
    MaxLosses = 2
    MaxPeriods = 1
    MaxPlanChanges = 0
SPECIFICATION FairSpec
CHECK_DEADLOCK FALSE
INVARIANTS BrowserFindingKept
PROPERTIES ScansSettle
