\* Two runs on one monitored site, each with up to two findings, and two users.
CONSTANTS
    Sites = {site}
    Domains = {d1}
    NoDomain = NoDomain
    Users = {ann, bob}
    Runs = {r1, r2}
    Conditions = {"malware_detected", "tls_expiring"}
SPECIFICATION Spec
SYMMETRY Interchangeable
INVARIANTS TypeOK OneOpenAlert FindingsReported
PROPERTY ResolutionFinal
CHECK_DEADLOCK FALSE
