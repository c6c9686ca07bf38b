\* One organisation; two more accounts and one more organisation; seven requests that end in any way.
CONSTANTS
    Users = {u1, u2, u3}
    Orgs = {o1, o2}
    Keys = {k1, k2}
    Sessions = {s1}
    Tokens = {t1}
    Emails = {"founder", "other"}
    Requests = {q1, q2}
    Nobody = Nobody
    Founder = u1
    FirstOrg = o1
    FirstEmail = "founder"
    KeyLimit = 1
    MaxOperations = 7
SPECIFICATION Spec
SYMMETRY Interchangeable
CHECK_DEADLOCK FALSE
INVARIANTS TypeOK OwnerBelongs ResetOnce KeysWithinLimit
PROPERTIES VerifiedKept RevokedForever
