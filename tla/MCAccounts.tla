------------------------------ MODULE MCAccounts -------------------------------
(* Instances of Accounts for TLC. *)
EXTENDS Accounts, TLC

\* Rows that do not exist yet, and requests, are interchangeable.
Interchangeable ==
    UNION {Permutations(Users \ {Founder}), Permutations(Orgs \ {FirstOrg}),
           Permutations(Tokens), Permutations(Keys), Permutations(Requests)}
=============================================================================
