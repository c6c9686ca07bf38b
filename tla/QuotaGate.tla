------------------------------ MODULE QuotaGate ------------------------------
(***************************************************************************)
(* What the services that create rows under a quota of the plan promise,   *)
(* without requests and locks: one row is let in at a time, none twice,    *)
(* and only while fewer are live than the plan of that moment allows.  A   *)
(* row that left comes back only where the code switches rows on again,    *)
(* past the gate; from then on the gate promises nothing about the room.   *)
(***************************************************************************)
EXTENDS Integers, FiniteSets

CONSTANT Items

VARIABLES
    live,     \* the rows that count
    spent,    \* rows that were ever let in
    limit,    \* how many the plan allows, -1 = unlimited
    returned  \* a row has come back past the gate

vars == <<live, spent, limit, returned>>

Limits == Nat \cup {-1}

HasRoom == limit = -1 \/ Cardinality(live) < limit

Init ==
    /\ live = {} /\ spent = {}
    /\ limit \in Limits
    /\ returned = FALSE

Admit(i) ==
    /\ i \notin spent
    /\ HasRoom \/ returned
    /\ live' = live \cup {i} /\ spent' = spent \cup {i}
    /\ UNCHANGED <<limit, returned>>

\* Rows are deleted, revoked or switched off.
Leave ==
    /\ live' \subseteq live
    /\ UNCHANGED <<spent, limit, returned>>

Return(i) ==
    /\ i \in spent \ live
    /\ live' = live \cup {i} /\ returned' = TRUE
    /\ UNCHANGED <<spent, limit>>

ChangeLimit ==
    /\ limit' \in Limits
    /\ UNCHANGED <<live, spent, returned>>

Next ==
    \/ \E i \in Items : Admit(i) \/ Return(i)
    \/ Leave
    \/ ChangeLimit

Spec == Init /\ [][Next]_vars
=============================================================================
