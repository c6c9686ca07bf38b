------------------------------- MODULE MCAgents -------------------------------
(* Instances of Agents for TLC. *)
EXTENDS Agents

\* Two plans with room for one and for two agents; the small one runs no agents.
Quotas == [small |-> 1, large |-> 2]
=============================================================================
