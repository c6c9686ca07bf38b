------------------------------ MODULE MCDomains -------------------------------
(* Instances of Domains for TLC. *)
EXTENDS Domains, TLC

\* A plan has room for one domain.
Quotas == [p \in Plans |-> 1]

\* Nothing, or both findings at once.
Verdicts == {{}, {"malware", "blacklisted"}}

\* At most two requests, executions and tasks are at work at a time.
TwoAtWork ==
    Cardinality({q \in Requests : request[q].pc # "idle"})
      + Cardinality({r \in Runs : run[r].pc # "none"})
      + Cardinality({d \in Domains : trigger[d].pc \in {"read", "created"}}) <= 2

\* A behaviour has plan changes or scans, not both.
PlansOrScans == planChanges = 0 \/ \A s \in Scans : scan[s].state = "none"

\* Requests, scans, executions and domain rows are interchangeable.
Interchangeable == Permutations(Requests) \cup Permutations(Scans)
                     \cup Permutations(Runs) \cup Permutations(Domains)
=============================================================================
