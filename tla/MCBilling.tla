------------------------------- MODULE MCBilling -------------------------------
(* Instances of Billing for TLC. *)
EXTENDS Billing, TLC

CONSTANTS p1, p2, a1, a2, a3, r1, free, pro

Prices == free :> 0 @@ pro :> 2

Quotas == free :> 0 @@ pro :> Unlimited

\* Two payments for the first order, one for the second.
Paying == a1 :> p1 @@ a2 :> p1 @@ a3 :> p2

PayingTwice == a1 :> p1 @@ a2 :> p1

RefundOfFirst == r1 :> [order |-> p1, amount |-> 1]

NoRefund == [r \in {} |-> r]

\* One Stripe subscription: it falls behind, recovers, is paid and is deleted.
Says(type, status) == [type |-> type, sid |-> "sub_1", status |-> status]

OneSubscription ==
    {Says("customer.subscription.created", "past_due"),
     Says("customer.subscription.updated", "active"),
     Says("customer.subscription.deleted", "cancelled"),
     Says("invoice.paid", "none"),
     Says("invoice.payment_failed", "none"),
     Says("checkout.session.completed", "none")}

\* Transactions and the ids of events are interchangeable.
Interchangeable == Permutations(Requests) \cup Permutations(StripeEvents)
=============================================================================
