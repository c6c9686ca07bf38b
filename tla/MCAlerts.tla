------------------------------- MODULE MCAlerts -------------------------------
(* Instances of Alerts for TLC. *)
EXTENDS Alerts, TLC

\* Runs and users are interchangeable.
Interchangeable == Permutations(Runs) \cup Permutations(Users)
=============================================================================
