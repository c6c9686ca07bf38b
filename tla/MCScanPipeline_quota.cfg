\* Two scans charged over two quota periods and one plan change.
CONSTANTS
    o1 = o1  o2 = o2  s1 = s1  s2 = s2  s3 = s3  w1 = w1  w2 = w2
    Orgs = {o1}
    NoOrg = NoOrg
    Names = {"d1"}
    Scans = {s1, s2}
    Workers = {w1}
    Plans = {"free", "pro"}
    NoPlan = NoPlan
    Quota <- MCQuota
    BrowserPlans = {}
    ScheduledPlans = {"pro"}
    Verdicts = {FALSE}
    MaxRetries = 0
    MaxBrowserRetries = 0
    MaxLosses = 0
    MaxPeriods = 2
    MaxPlanChanges = 1
SPECIFICATION Spec
CHECK_DEADLOCK FALSE
SYMMETRY Symmetry
INVARIANTS QuotaRespected QuotaAccounted
PROPERTIES ImplementsAdmission
