-------------------------------- MODULE Billing --------------------------------
(***************************************************************************)
(* The plan and the subscriptions of one organisation: plan changes and    *)
(* cancellations by requests, orders paid through Cashfree, and the events *)
(* that Stripe and Cashfree report, late, repeatedly and in any order.     *)
(*                                                                         *)
(* Each handler is one transaction.  What it writes becomes visible when   *)
(* it commits, so its writes are one action; what it has read before       *)
(* without a lock is an action of its own.  Every write of the             *)
(* organisation or of a subscription waits for the organisation's row,     *)
(* also the insertion of a subscription, through its foreign key.          *)
(*                                                                         *)
(* Most handlers append a LedgerEntry.  LedgerEntry.save refuses every row *)
(* with a primary key, and a new row has one from the start: the save      *)
(* always raises and the transaction is rolled back.  LedgerAnswers =      *)
(* {FALSE} is that code.  With {TRUE, FALSE} a save may succeed as well,   *)
(* so that what the rest of each handler does can be checked.              *)
(***************************************************************************)
EXTENDS Integers, FiniteSets

CONSTANTS
    Payments,      \* Payment rows, each known by its idempotency key and its order id
    Attempts,      \* payments made at Cashfree, each known by its cf_payment_id
    OrderOf,       \* the order that is paid
    Mismatched,    \* those of another amount than the order's
    Refunds,       \* refunds the gateway may make
    RefundOf,      \* the order and the amount of each refund
    StripeEvents,  \* ids of events Stripe may send
    Contents,      \* what they may say: a type, a subscription id, a status
    Plans, Free,   \* plans; the one with the slug "free"
    Price,         \* Plan.price_monthly
    Quota,         \* Plan.domain_quota or agent_quota, -1 = unlimited
    Requests,      \* transactions in flight
    Nobody,        \* no request, no order, no Stripe id
    LedgerAnswers, \* whether the save of a ledger entry may succeed
    Withdrawn,     \* plans that staff may withdraw
    MaxSubs,       \* bound: Subscription rows
    MaxUsed        \* bound: domains, or agents, of the organisation

Unlimited == -1

ASSUME ConstantsAssumption ==
    /\ Free \in Plans
    /\ Price \in [Plans -> Nat]
    /\ Quota \in [Plans -> Nat \cup {Unlimited}]
    /\ OrderOf \in [Attempts -> Payments]
    /\ RefundOf \in [Refunds -> [order: Payments, amount: Nat]]
    /\ Nobody \notin Requests \cup Payments
    /\ LedgerAnswers \subseteq BOOLEAN
    /\ MaxSubs \in Nat /\ MaxUsed \in Nat

VARIABLES
    plan, used,  \* the organisation: its plan, its domains (or agents) not deleted
    offered,     \* plans with is_active
    lock,        \* the request that holds the organisation's row lock
    sub,         \* Subscription rows, numbered in the order of their creation
    payment,     \* Payment rows
    processed,   \* ProcessedWebhookEvent rows
    booked,      \* LedgerEntry rows of type "payment", per order
    returned,    \* LedgerEntry rows of type "refund"
    request,     \* what each transaction in flight is doing
    strayed      \* history: a Stripe event parted the plan from the current subscription

vars == <<plan, used, offered, lock, sub, payment, processed, booked, returned, request, strayed>>

org    == <<plan, used, offered>>
ledger == <<booked, returned>>

Subs == 1..MaxSubs

Statuses == {"active", "cancelled", "past_due", "trialing", "unpaid"}

\* VALID_TRANSITIONS; no row is ever "pending", which the check constraint excludes.
ValidTransitions ==
    [pending   |-> {"active", "trialing"},
     trialing  |-> {"active", "past_due", "cancelled"},
     active    |-> {"past_due", "cancelled", "unpaid"},
     past_due  |-> {"active", "cancelled", "unpaid"},
     unpaid    |-> {"cancelled"},
     cancelled |-> {}]

StripeIds == {c.sid : c \in Contents}

\* order is the payment the row was created for, if any.
SubRow == [status: Statuses \cup {"none"}, plan: Plans, stripe: StripeIds \cup {Nobody},
           order: Payments \cup {Nobody}]

NoSub == [status |-> "none", plan |-> Free, stripe |-> Nobody, order |-> Nobody]

PaymentRow == [status: {"none", "pending", "completed", "failed"}, plan: Plans,
               refunded: Nat]

NoPayment == [status |-> "none", plan |-> Free, refunded |-> 0]

\* rows is what a statement has selected and has not written yet, or the row that
\* select_for_update holds; grants tells whether the plan of the order is still offered.
RequestState ==
    [pc: {"idle", "locked", "checked", "confirming", "selected", "cancelling"}, plan: Plans,
     order: Payments \cup {Nobody}, attempt: Attempts \cup {Nobody}, rows: SUBSET Subs,
     grants: BOOLEAN]

Idle == [pc |-> "idle", plan |-> Free, order |-> Nobody, attempt |-> Nobody, rows |-> {},
         grants |-> FALSE]

\* The type invariant.
TypeOK ==
    /\ plan \in Plans /\ used \in 0..MaxUsed /\ offered \subseteq Plans
    /\ lock \in Requests \cup {Nobody}
    /\ sub \in [Subs -> SubRow]
    /\ payment \in [Payments -> PaymentRow]
    /\ processed \subseteq Attempts \cup Refunds \cup StripeEvents
    /\ booked \in [Payments -> Nat]
    /\ returned \subseteq Refunds
    /\ request \in [Requests -> RequestState]
    /\ strayed \in BOOLEAN

Init ==
    /\ plan = Free /\ used = 0 /\ offered = Plans
    /\ lock = Nobody
    /\ sub = [s \in Subs |-> NoSub]
    /\ payment = [p \in Payments |-> NoPayment]
    /\ processed = {}
    /\ booked = [p \in Payments |-> 0]
    /\ returned = {}
    /\ request = [q \in Requests |-> Idle]
    /\ strayed = FALSE

Rows == {s \in Subs : sub[s].status # "none"}

Current == {s \in Subs : sub[s].status \in {"active", "trialing"}}

\* order_by("-created_at").first()
Latest(S) == CHOOSE s \in S : \A u \in S : u <= s

\* Mutant of OrgFree: the organisation is read without select_for_update.
OrgNotLocked == TRUE

OrgFree == lock = Nobody

\* No cancellation holds one of these subscriptions.
RowsFree(S) == \A q \in Requests : request[q].pc = "cancelling" => request[q].rows \cap S = {}

CanBook == TRUE \in LedgerAnswers

Accepts(s, status) == status \in ValidTransitions[sub[s].status]

\* Mutant of OnlyCurrent: the table has no unique_active_subscription_per_org.
AnyCurrent(S) == TRUE

\* unique_active_subscription_per_org: no row outside S is current.
OnlyCurrent(S) == Current \subseteq S

\* The row that is inserted next, if the bound allows it.
Fresh == CHOOSE s \in Subs : s \notin Rows /\ \A u \in Subs \ Rows : s <= u

\* Mutant of Replaced: the status is spelled as Stripe spells it.
ReplacedCanceled(S, row) ==
    [s \in Subs |-> IF s = Fresh THEN row
                    ELSE IF s \in S \cap Current THEN [sub[s] EXCEPT !.status = "canceled"]
                    ELSE sub[s]]

\* The current rows among S are cancelled and a new row is inserted.
Replaced(S, row) ==
    [s \in Subs |-> IF s = Fresh THEN row
                    ELSE IF s \in S \cap Current THEN [sub[s] EXCEPT !.status = "cancelled"]
                    ELSE sub[s]]

End(q) ==
    /\ request' = [request EXCEPT ![q] = Idle]
    /\ lock' = IF lock = q THEN Nobody ELSE lock

\* The transaction is refused, fails at a statement, in a deadlock too, or is lost.
Abort(q) ==
    /\ request[q].pc # "idle"
    /\ End(q)
    /\ UNCHANGED <<org, sub, payment, processed, ledger, strayed>>

-----------------------------------------------------------------------------
(* upgrade_plan *)

UpgradeLock(q, p) ==
    /\ request[q].pc = "idle"
    /\ p \in offered
    /\ OrgFree
    /\ lock' = q
    /\ request' = [request EXCEPT ![q] = [Idle EXCEPT !.pc = "locked", !.plan = p]]
    /\ UNCHANGED <<org, sub, payment, processed, ledger, strayed>>

Fits(p) == Quota[p] = Unlimited \/ used <= Quota[p]

\* The organisation subscribes to the plan already, or has more than a cheaper plan
\* allows; otherwise the change goes on.
UpgradeCheck(q) ==
    LET p       == request[q].plan
        refused == \/ \E s \in Current : sub[s].plan = p
                   \/ Price[p] < Price[plan] /\ ~Fits(p) IN
    /\ request[q].pc = "locked"
    /\ \/ refused /\ End(q)
       \/ /\ ~refused
          /\ request' = [request EXCEPT ![q].pc = "checked"]
          /\ UNCHANGED lock
    /\ UNCHANGED <<org, sub, payment, processed, ledger, strayed>>

InitialStatus(p) == IF Price[p] = 0 THEN "active" ELSE "pending"

\* A paid plan would begin "pending", which the table refuses.
UpgradeCommit(q) ==
    LET p == request[q].plan IN
    /\ request[q].pc = "checked"
    /\ InitialStatus(p) \in Statuses
    /\ RowsFree(Current) /\ Rows # Subs /\ CanBook
    /\ plan' = p
    /\ sub' = Replaced(Current, [NoSub EXCEPT !.status = InitialStatus(p), !.plan = p])
    /\ End(q)
    /\ UNCHANGED <<used, offered, payment, processed, ledger, strayed>>

\* create_domain and create_agent take the organisation's row lock; what plan they check
\* is in Domains and Agents.
UseMore ==
    /\ OrgFree /\ used < MaxUsed
    /\ used' = used + 1
    /\ UNCHANGED <<plan, offered, lock, sub, payment, processed, ledger, request, strayed>>

UseLess ==
    /\ used > 0
    /\ used' = used - 1
    /\ UNCHANGED <<plan, offered, lock, sub, payment, processed, ledger, request, strayed>>

\* Staff clear is_active of a plan on the admin site.
Withdraw(p) ==
    /\ p \in offered \cap Withdrawn
    /\ offered' = offered \ {p}
    /\ UNCHANGED <<plan, used, lock, sub, payment, processed, ledger, request, strayed>>

-----------------------------------------------------------------------------
(* cancel_subscription *)

\* The newest current row is locked, and stays locked while Stripe is asked to cancel.
CancelRead(q) ==
    /\ request[q].pc = "idle"
    /\ Free \in offered /\ Current # {} /\ RowsFree({Latest(Current)})
    /\ request' = [request EXCEPT ![q] = [Idle EXCEPT !.pc = "cancelling",
                                                      !.rows = {Latest(Current)}]]
    /\ UNCHANGED <<org, lock, sub, payment, processed, ledger, strayed>>

\* The plan of the organisation stays.
CancelCommit(q) ==
    /\ request[q].pc = "cancelling"
    /\ OrgFree /\ CanBook
    /\ sub' = [s \in Subs |-> IF s \in request[q].rows
                              THEN [sub[s] EXCEPT !.status = "cancelled"] ELSE sub[s]]
    /\ End(q)
    /\ UNCHANGED <<org, payment, processed, ledger, strayed>>

-----------------------------------------------------------------------------
(* Orders: CashfreeService and WebhookProcessor *)

\* The view turns down a free plan, and one that is not offered.
Orderable(pl) == pl \in offered /\ Price[pl] > 0

\* create_order, with the session of a development setup.  With a real gateway it asks
\* for organization.users, which does not exist, and no order is placed.
CreateOrder(p, pl) ==
    /\ payment[p].status = "none"
    /\ Orderable(pl)
    /\ payment' = [payment EXCEPT ![p] = [NoPayment EXCEPT !.status = "pending", !.plan = pl]]
    /\ UNCHANGED <<org, lock, sub, processed, ledger, request, strayed>>

\* No handler holds the row of the payment.
PaymentFree(p) == \A q \in Requests : request[q].order # p

\* Mutant of NewEvent: the event is looked up, and recorded by another transaction.
AnyEvent(e) == TRUE

\* get_or_create of the event's row: the handler goes on with an event never seen before.
NewEvent(e) == e \notin processed

\* The event is recorded and the payment locked.  A pending payment of this amount is
\* confirmed; a payment completed already, or another amount than the order's, ends the
\* handler with the event recorded; a payment that failed once is refused.
ConfirmStart(q, a) ==
    LET p == OrderOf[a] IN
    /\ request[q].pc = "idle"
    /\ payment[p].status # "none" /\ PaymentFree(p)
    /\ NewEvent(a)
    /\ \/ /\ payment[p].status = "pending" /\ a \notin Mismatched
          /\ request' = [request EXCEPT ![q] = [Idle EXCEPT !.pc = "confirming", !.order = p,
                                                            !.attempt = a]]
          /\ UNCHANGED processed
       \/ /\ payment[p].status = "completed" \/ a \in Mismatched
          /\ processed' = processed \cup {a}
          /\ UNCHANGED request
    /\ UNCHANGED <<org, lock, sub, payment, ledger, strayed>>

\* The plan is looked up; then the UPDATE that cancels selects the current rows.
ConfirmSelect(q) ==
    /\ request[q].pc = "confirming"
    /\ request' = [request EXCEPT ![q].pc = "selected", ![q].rows = Current,
                                  ![q].grants = payment[request[q].order].plan \in offered]
    /\ UNCHANGED <<org, lock, sub, payment, processed, ledger, strayed>>

ActiveFor(p) == [NoSub EXCEPT !.status = "active", !.plan = payment[p].plan, !.order = p]

\* The rows still current are cancelled, the new one inserted, the plan set, the payment
\* booked; without a plan the payment is booked all the same.
ConfirmCommit(q) ==
    LET p == request[q].order IN
    /\ request[q].pc = "selected"
    /\ CanBook
    /\ payment' = [payment EXCEPT ![p].status = "completed"]
    /\ booked' = [booked EXCEPT ![p] = @ + 1]
    /\ processed' = processed \cup {request[q].attempt}
    /\ \/ /\ request[q].grants
          /\ OrgFree /\ RowsFree(request[q].rows) /\ Rows # Subs
          /\ OnlyCurrent(request[q].rows)
          /\ sub' = Replaced(request[q].rows, ActiveFor(p))
          /\ plan' = payment[p].plan
       \/ ~request[q].grants /\ UNCHANGED <<sub, plan>>
    /\ End(q)
    /\ UNCHANGED <<used, offered, returned, strayed>>

\* handle_payment_failed: refused unless the payment is pending; it records no event.
PaymentFailed(p) ==
    /\ payment[p].status = "pending" /\ PaymentFree(p)
    /\ payment' = [payment EXCEPT ![p].status = "failed"]
    /\ UNCHANGED <<org, lock, sub, processed, ledger, request, strayed>>

\* handle_refund, REFUND_SUCCESS_WEBHOOK: whatever the status of the payment.
RefundSucceeded(r) ==
    LET p     == RefundOf[r].order
        total == payment[p].refunded + RefundOf[r].amount IN
    /\ NewEvent(r)
    /\ PaymentFree(p)
    /\ processed' = processed \cup {r}
    /\ \/ /\ payment[p].status # "none" /\ total <= Price[payment[p].plan]
          /\ CanBook
          /\ payment' = [payment EXCEPT ![p].refunded = total]
          /\ returned' = returned \cup {r}
       \/ /\ payment[p].status = "none" \/ total > Price[payment[p].plan]
          /\ UNCHANGED <<payment, returned>>
    /\ UNCHANGED <<org, lock, sub, booked, request, strayed>>

\* REFUND_FAILED_WEBHOOK is recorded under the id of the refund, so that a later success
\* of that refund counts as processed.
RefundFailed(r) ==
    /\ NewEvent(r)
    /\ processed' = processed \cup {r}
    /\ UNCHANGED <<org, lock, sub, payment, ledger, request, strayed>>

\* CashfreeWebhookView: the type of the event chooses the handler.  What a handler raises
\* is answered like a success, so that only the gateway itself may send the event again.
CashfreeEvent(q) ==
    \/ \E a \in Attempts : ConfirmStart(q, a)
    \/ \E p \in Payments : PaymentFailed(p)
    \/ \E r \in Refunds : RefundSucceeded(r) \/ RefundFailed(r)

-----------------------------------------------------------------------------
(* StripeWebhookView: handle_stripe_event, then the record of the event *)

\* Subscriptions with the Stripe id of the event.
Of(c) == {s \in Rows : sub[s].stripe = c.sid}

\* Each handler locks the subscription and its organisation in one statement.  Whatever
\* raises leaves nothing behind, the event included.
Stripe(e, c, type) ==
    /\ c.type = type /\ NewEvent(e)
    /\ processed' = processed \cup {e}
    /\ UNCHANGED <<used, offered, lock, payment, ledger, request>>

\* The event is recorded and nothing else changes.
Ignored == UNCHANGED <<plan, sub, strayed>>

\* The row takes this status, if the unique constraint lets it.
Moves(s, status, sid) ==
    /\ OrgFree /\ RowsFree({s})
    /\ Accepts(s, status)
    /\ status \in {"active", "trialing"} => OnlyCurrent({s})
    /\ sub' = [sub EXCEPT ![s].status = status, ![s].stripe = sid]

\* A row that becomes current while the organisation holds another plan.
Strays(s, status) == strayed' = (strayed \/ (status \in {"active", "trialing"}
                                             /\ sub[s].plan # plan))

InvoicePaid(e, c) ==
    /\ Stripe(e, c, "invoice.paid")
    /\ \/ Of(c) = {} /\ Ignored
       \/ /\ Of(c) # {} /\ CanBook
          /\ LET s == Latest(Of(c)) IN
             /\ Moves(s, "active", c.sid)
             /\ plan' = sub[s].plan
          /\ UNCHANGED strayed

InvoiceFailed(e, c) ==
    /\ Stripe(e, c, "invoice.payment_failed")
    /\ \/ Of(c) = {} /\ Ignored
       \/ /\ Of(c) # {}
          /\ LET s == Latest(Of(c)) IN
             \/ ~Accepts(s, "past_due") /\ Ignored
             \/ CanBook /\ Moves(s, "past_due", c.sid) /\ UNCHANGED <<plan, strayed>>

\* The newest subscription of the customer takes the id and the status of the event.
SubscriptionCreated(e, c) ==
    /\ Stripe(e, c, "customer.subscription.created")
    /\ \/ Rows = {} /\ Ignored
       \/ /\ Rows # {}
          /\ LET s == Latest(Rows) IN
             \/ ~Accepts(s, c.status) /\ Ignored
             \/ Moves(s, c.status, c.sid) /\ Strays(s, c.status) /\ UNCHANGED plan

SubscriptionUpdated(e, c) ==
    /\ Stripe(e, c, "customer.subscription.updated")
    /\ \/ Of(c) = {} /\ Ignored
       \/ /\ Of(c) # {}
          /\ LET s == Latest(Of(c)) IN
             \/ ~Accepts(s, c.status) /\ Ignored
             \/ Moves(s, c.status, c.sid) /\ Strays(s, c.status) /\ UNCHANGED plan

\* Mutant of Ends: a refused transition is logged, as in invoice.payment_failed.
EndsAnyway(s) == TRUE

\* The transition to "cancelled" raises where it is not allowed, after the plan was saved.
Ends(s) == Accepts(s, "cancelled")

SubscriptionDeleted(e, c) ==
    /\ Stripe(e, c, "customer.subscription.deleted")
    /\ \/ (Free \notin offered \/ Of(c) = {}) /\ Ignored
       \/ /\ Free \in offered /\ Of(c) # {}
          /\ LET s == Latest(Of(c)) IN
             /\ OrgFree /\ RowsFree({s}) /\ Ends(s)
             /\ sub' = [sub EXCEPT ![s].status = "cancelled"]
             /\ strayed' = (strayed \/ Current \ {s} # {})
          /\ plan' = Free

CheckoutCompleted(e, c) ==
    /\ Stripe(e, c, "checkout.session.completed")
    /\ \/ Rows = {} /\ Ignored
       \/ /\ Rows # {} /\ CanBook
          /\ LET s == Latest(Rows) IN
             Moves(s, "active", c.sid) /\ Strays(s, "active")
          /\ UNCHANGED plan

StripeEvent(e, c) ==
    \/ InvoicePaid(e, c) \/ InvoiceFailed(e, c) \/ CheckoutCompleted(e, c)
    \/ SubscriptionCreated(e, c) \/ SubscriptionUpdated(e, c) \/ SubscriptionDeleted(e, c)

-----------------------------------------------------------------------------
RequestStep(q) ==
    \/ \E p \in Plans : UpgradeLock(q, p)
    \/ UpgradeCheck(q) \/ UpgradeCommit(q)
    \/ CancelRead(q) \/ CancelCommit(q)
    \/ CashfreeEvent(q) \/ ConfirmSelect(q) \/ ConfirmCommit(q)
    \/ Abort(q)

Next ==
    \/ \E q \in Requests : RequestStep(q)
    \/ \E p \in Payments, pl \in Plans : CreateOrder(p, pl)
    \/ \E e \in StripeEvents, c \in Contents : StripeEvent(e, c)
    \/ UseMore \/ UseLess
    \/ \E p \in Plans : Withdraw(p)

Spec == Init /\ [][Next]_vars

\* A transaction ends, one way or the other, and is not aborted for ever where it could
\* commit; Cashfree goes on reporting a payment, and some process takes the report.
FairSpec ==
    /\ Spec
    /\ \A q \in Requests :
         /\ WF_vars(UpgradeCheck(q) \/ UpgradeCommit(q) \/ CancelCommit(q) \/ ConfirmSelect(q)
                        \/ ConfirmCommit(q) \/ Abort(q))
         /\ SF_vars(ConfirmSelect(q)) /\ SF_vars(ConfirmCommit(q))
    /\ \A a \in Attempts : SF_vars(\E q \in Requests : ConfirmStart(q, a))

-----------------------------------------------------------------------------
(* Properties *)

\* The organisation holds the plan of its current subscription, through every order of
\* plan changes, confirmed orders, cancellations and invoices -- until Stripe ends an
\* older subscription beside the current one, or makes one current again after the plan
\* has changed: subscription.deleted, created, updated and checkout mind only one row.
PlanOfCurrent == strayed \/ \A s \in Current : sub[s].plan = plan

\* The plan never changes by itself: a step that changes it makes a subscription of the new
\* plan active in that step, or sets the free plan as a subscription becomes cancelled -- be
\* it the current one or not, as subscription.deleted minds no other row.  An event of a
\* subscription that was cancelled before takes no plan away.
PlanMovesWithSubscription ==
    [][plan' # plan =>
          \E s \in Subs :
             \/ /\ sub[s].status # "active" /\ sub'[s].status = "active"
                /\ sub'[s].plan = plan'
             \/ /\ plan' = Free
                /\ sub[s].status # "cancelled" /\ sub'[s].status = "cancelled"]_vars

\* "Cannot downgrade": a request moves an organisation to a free plan only when what it
\* has fits, also when domains and agents are created at the same time.
DowngradeFits ==
    [][\A s \in Subs :
          /\ sub[s].status = "none" /\ sub'[s].status # "none"
          /\ Price[sub'[s].plan] = 0 /\ Price[plan] > 0
          => Quota[plan'] = Unlimited \/ used' <= Quota[plan']]_vars

Granted(p) == {s \in Subs : sub[s].order = p}

Orders == INSTANCE PaymentOrders WITH
    Orders  <- Payments,
    Cost    <- Price,
    status  <- [p \in Payments |-> payment[p].status],
    plan    <- [p \in Payments |-> payment[p].plan],
    granted <- [p \in Payments |-> Granted(p)],
    repaid  <- [p \in Payments |-> payment[p].refunded]

\* Webhooks that come twice, late, together or out of order never book or grant an order
\* twice, never reopen one that failed, and never pay back more than it has cost.
ImplementsOrders == Orders!Spec

\* "Payment processed successfully": an order whose payment Cashfree has reported, and
\* goes on reporting, does not stay pending.
PaidOrdersSettle ==
    \A p \in Payments :
        (\E q \in Requests : request[q].order = p) ~> payment[p].status # "pending"
=============================================================================
