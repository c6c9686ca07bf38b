SPECIFICATION FairSpec
CONSTANTS
    p1 = p1
    p2 = p2
    a1 = a1
    a2 = a2
    a3 = a3
    r1 = r1
    free = free
    pro = pro
    Nobody = Nobody
    Payments = {p1}
    Attempts = {a1, a2}
    OrderOf <- PayingTwice
    Mismatched = {}
    Refunds = {}
    RefundOf <- NoRefund
    StripeEvents = {}
    Contents <- OneSubscription
    Plans = {free, pro}
    Free = free
    Price <- Prices
    Quota <- Quotas
    Requests = {q1}
    LedgerAnswers = {FALSE}
    Withdrawn = {}
    MaxSubs = 2
    MaxUsed = 0
PROPERTIES
    PaidOrdersSettle
CHECK_DEADLOCK FALSE
