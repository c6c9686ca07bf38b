\* One account, one session at a time, one reset token, one request after the other.
CONSTANTS
    Users = {u1}
    Orgs = {o1}
    Keys = {}
    Sessions = {s1}
    Tokens = {t1}
    Emails = {"founder"}
    Requests = {q1}
    Nobody = Nobody
    Founder = u1
    FirstOrg = o1
    FirstEmail = "founder"
    KeyLimit = 1
    MaxOperations = 5
SPECIFICATION Spec
CHECK_DEADLOCK FALSE
INVARIANTS ResetEndsSessions
