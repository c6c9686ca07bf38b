---------------------------- MODULE ScanAdmission ----------------------------
(***************************************************************************)
(* What the scan API promises an organisation, without requests, locks,    *)
(* tasks or workers: a scan is admitted at most once, an on-demand one     *)
(* takes one unit of a quota that still has room, and two scans of one     *)
(* domain never wait at the same time.                                     *)
(***************************************************************************)
EXTENDS Integers

CONSTANTS Orgs, Names, Scans

VARIABLES
    used,      \* units taken by each organisation in its quota period
    limit,     \* units its plan allows, -1 = unlimited
    admitted,  \* scans ever admitted
    waiting    \* admitted scans that no worker has started

vars == <<used, limit, admitted, waiting>>

Limits == Nat \cup {-1}

HasRoom(o) == limit[o] = -1 \/ used[o] < limit[o]

Init ==
    /\ used = [o \in Orgs |-> 0] /\ limit \in [Orgs -> Limits]
    /\ admitted = {} /\ waiting = {}

\* The scan waits for a worker, or is answered at once from the cache.
Admit(s, o, n) ==
    /\ s \notin admitted /\ admitted' = admitted \cup {s}
    /\ \A x \in waiting : <<x.org, x.name>> # <<o, n>>
    /\ waiting' \in {waiting, waiting \cup {[scan |-> s, org |-> o, name |-> n]}}
    /\ UNCHANGED limit

OnDemand(s, o, n) ==
    /\ HasRoom(o)
    /\ used' = [used EXCEPT ![o] = @ + 1]
    /\ Admit(s, o, n)

Scheduled(s, o, n) == Admit(s, o, n) /\ UNCHANGED used

\* Scans are started, failed or deleted.
Leave ==
    /\ waiting' \subseteq waiting
    /\ UNCHANGED <<used, limit, admitted>>

\* A new quota period for some organisations.
Renew(S) ==
    /\ used' = [o \in Orgs |-> IF o \in S THEN 0 ELSE used[o]]
    /\ UNCHANGED <<limit, admitted, waiting>>

ChangeLimit(o) ==
    /\ limit' = [limit EXCEPT ![o] = limit'[o]] /\ limit'[o] \in Limits
    /\ UNCHANGED <<used, admitted, waiting>>

Next ==
    \/ \E s \in Scans, o \in Orgs, n \in Names : OnDemand(s, o, n) \/ Scheduled(s, o, n)
    \/ Leave
    \/ \E S \in SUBSET Orgs : Renew(S)
    \/ \E o \in Orgs : ChangeLimit(o)

Spec == Init /\ [][Next]_vars
=============================================================================
