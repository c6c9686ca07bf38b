\* The life of two scans of one organisation and one domain, without worker losses.
CONSTANTS
    o1 = o1  o2 = o2  s1 = s1  s2 = s2  s3 = s3  w1 = w1  w2 = w2
    Orgs = {o1}
    NoOrg = NoOrg
    Names = {"d1"}
    Scans = {s1, s2}
    Workers = {w1, w2}
    Plans = {"pro"}
    NoPlan = NoPlan
    Quota <- MCQuota
    BrowserPlans = {"pro"}
    ScheduledPlans = {}
    Verdicts = {FALSE}
    MaxRetries = 1
    MaxBrowserRetries = 0
    MaxLosses = 0
    MaxPeriods = 1
    MaxPlanChanges = 0
SPECIFICATION Spec
SYMMETRY Symmetry
CHECK_DEADLOCK FALSE
INVARIANTS TypeOK OneQueued CompletedHasEvidence BrowserExclusive OneCarrier
PROPERTIES CompletedStays
