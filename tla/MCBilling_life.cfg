SPECIFICATION Spec
CONSTANTS
    p1 = p1
    p2 = p2
    r1 = r1
    a1 = a1
    a2 = a2
    a3 = a3
    free = free
    pro = pro
    Nobody = Nobody
    Payments = {p1, p2}
    Attempts = {a1, a2, a3}
    OrderOf <- Paying
    Mismatched = {a2}
    Refunds = {r1}
    RefundOf <- RefundOfFirst
    StripeEvents = {e1, e2, e3}
    Contents <- OneSubscription
    Plans = {free, pro}
    Free = free
    Price <- Prices
    Quota <- Quotas
    Requests = {q1, q2}
    LedgerAnswers = {TRUE, FALSE}
    Withdrawn = {pro}
    MaxSubs = 2
    MaxUsed = 1
SYMMETRY Interchangeable
INVARIANTS
    TypeOK
    PlanOfCurrent
PROPERTIES
    PlanMovesWithSubscription
    DowngradeFits
    ImplementsOrders
CHECK_DEADLOCK FALSE
