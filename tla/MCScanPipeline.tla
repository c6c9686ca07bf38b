--------------------------- MODULE MCScanPipeline ---------------------------
(* Instances of ScanPipeline for TLC. *)
EXTENDS ScanPipeline, TLC

CONSTANTS o1, o2, s1, s2, s3, w1, w2

\* A plan with a small quota and one without a limit.
SmallQuota == ("free" :> 1) @@ ("pro" :> 2) @@ ("enterprise" :> Unlimited)
MCQuota == [p \in Plans |-> SmallQuota[p]]

Symmetry == Permutations(Scans) \cup Permutations(Workers)
=============================================================================
