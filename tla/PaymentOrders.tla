----------------------------- MODULE PaymentOrders -----------------------------
(***************************************************************************)
(* What billing promises about orders paid through Cashfree: the abstract  *)
(* specification of the orders in Billing.  However often, late or out of  *)
(* order the gateway reports, an order is completed or failed once and for *)
(* all; completing it books one payment and grants at most one             *)
(* subscription; a refund is booked once, within what the order has cost.  *)
(***************************************************************************)
EXTENDS Integers

CONSTANTS
    Orders,   \* orders that may be placed
    Refunds,  \* refunds the gateway may make
    RefundOf, \* the order and the amount of each refund
    Subs,     \* subscriptions
    Cost      \* what an order costs, a function of its plan

VARIABLES
    status,   \* "none", "pending", "completed" or "failed"
    plan,     \* the plan an order asks for
    booked,   \* payments booked for an order
    granted,  \* the subscriptions granted for it
    repaid,   \* how much of it has been paid back
    returned  \* refunds booked

vars == <<status, plan, booked, granted, repaid, returned>>

Init ==
    /\ status = [o \in Orders |-> "none"]
    /\ plan \in [Orders -> DOMAIN Cost]
    /\ booked = [o \in Orders |-> 0]
    /\ granted = [o \in Orders |-> {}]
    /\ repaid = [o \in Orders |-> 0]
    /\ returned = {}

Place(o) ==
    /\ status[o] = "none"
    /\ status' = [status EXCEPT ![o] = "pending"]
    /\ \E p \in DOMAIN Cost : plan' = [plan EXCEPT ![o] = p]
    /\ UNCHANGED <<booked, granted, repaid, returned>>

\* No subscription is granted for a plan that is offered no more.
Complete(o) ==
    /\ status[o] = "pending"
    /\ booked[o] = 0 /\ granted[o] = {}
    /\ status' = [status EXCEPT ![o] = "completed"]
    /\ booked' = [booked EXCEPT ![o] = @ + 1]
    /\ \/ \E s \in Subs : granted' = [granted EXCEPT ![o] = {s}]
       \/ UNCHANGED granted
    /\ UNCHANGED <<plan, repaid, returned>>

Fail(o) ==
    /\ status[o] = "pending"
    /\ status' = [status EXCEPT ![o] = "failed"]
    /\ UNCHANGED <<plan, booked, granted, repaid, returned>>

Return(r) ==
    LET o == RefundOf[r].order
        a == RefundOf[r].amount IN
    /\ r \notin returned
    /\ status[o] # "none"
    /\ repaid[o] + a <= Cost[plan[o]]
    /\ repaid' = [repaid EXCEPT ![o] = @ + a]
    /\ returned' = returned \cup {r}
    /\ UNCHANGED <<status, plan, booked, granted>>

Next ==
    \/ \E o \in Orders : Place(o) \/ Complete(o) \/ Fail(o)
    \/ \E r \in Refunds : Return(r)

Spec == Init /\ [][Next]_vars
=============================================================================
