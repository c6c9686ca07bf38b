----------------------------- MODULE BillingProofs -----------------------------
(***************************************************************************)
(* Theorems about Billing, for every set of plans, orders, refunds, Stripe *)
(* events and requests: the type invariant, that the plan is that of the   *)
(* current subscription, that the plan moves only with a subscription,     *)
(* that a downgrade fits, and that the orders implement PaymentOrders.     *)
(***************************************************************************)
EXTENDS Billing, WellFoundedInduction, TLAPS

\* A request that confirms has locked a pending order; no two have locked the same.
Confirming ==
    /\ \A q \in Requests : request[q].pc \in {"confirming", "selected"} =>
          /\ request[q].order \in Payments /\ request[q].attempt \in Attempts
          /\ payment[request[q].order].status = "pending"
    /\ \A q, r \in Requests :
          request[q].order # Nobody /\ request[q].order = request[r].order => q = r

\* A request that changes the plan holds the organisation, and what it has checked holds
\* until it commits.
Locking ==
    \A q \in Requests :
       /\ request[q].pc \in {"locked", "checked"} => lock = q
       /\ request[q].pc = "checked" /\ Price[request[q].plan] < Price[plan]
             => Fits(request[q].plan)

\* An order that is open has booked and granted nothing, and what is returned was recorded.
OrdersOpen ==
    /\ \A p \in Payments :
          /\ payment[p].status \in {"none", "pending"} => booked[p] = 0 /\ Granted(p) = {}
          /\ payment[p].status = "none" => payment[p].refunded = 0
          /\ payment[p].status = "pending" => Price[payment[p].plan] > 0
    /\ \A s \in Subs : sub[s].status = "none" => sub[s].order = Nobody
    /\ returned \subseteq processed

\* The inductive invariant.
BillingInv == TypeOK /\ Confirming /\ Locking /\ OrdersOpen /\ PlanOfCurrent

LEMMA Least ==
  ASSUME NEW T, T \subseteq Nat, T # {}
  PROVE  \E x \in T : \A y \in T : x <= y
<1> DEFINE Less == OpToRel(<, Nat)
<1>1. PICK x \in T : \A y \in T : ~(<<y, x>> \in Less)
  <2>1. IsWellFoundedOn(Less, Nat)
    BY NatLessThanWellFounded
  <2> HIDE DEF Less
  <2> QED
    BY <2>1, WFMin
<1>2. ASSUME NEW y \in T PROVE x <= y
  <2>1. ~(<<y, x>> \in Less)
    BY <1>1, <1>2
  <2>2. ~(y < x)
    BY <2>1 DEF OpToRel
  <2> QED
    BY <2>2
<1> QED
  BY <1>1, <1>2

\* The next row to be inserted is a row that does not exist.
LEMMA FreshRow == Rows # Subs => Fresh \in Subs \ Rows
<1> SUFFICES ASSUME Rows # Subs PROVE Fresh \in Subs \ Rows
  OBVIOUS
<1>1. Subs \ Rows # {} /\ Subs \ Rows \subseteq Nat
  BY ConstantsAssumption DEF Subs, Rows
<1>2. \E s \in Subs \ Rows : \A u \in Subs \ Rows : s <= u
  BY <1>1, Least
<1> QED
  BY <1>2 DEF Fresh

\* The newest of some rows is one of them.
LEMMA LatestRow == ASSUME NEW S, S \subseteq Subs, S # {} PROVE Latest(S) \in S
<1> DEFINE T == {MaxSubs - s : s \in S}
<1>1. T # {} /\ T \subseteq Nat
  <2>1. PICK s \in S : TRUE
    OBVIOUS
  <2>2. MaxSubs - s \in T
    BY <2>1
  <2>3. ASSUME NEW u \in S PROVE MaxSubs - u \in Nat
    BY ConstantsAssumption DEF Subs
  <2> QED
    BY <2>2, <2>3
<1>2. PICK x \in T : \A y \in T : x <= y
  BY <1>1, Least
<1>3. PICK s \in S : x = MaxSubs - s
  BY <1>2
<1>4. ASSUME NEW u \in S PROVE u <= s
  <2>1. MaxSubs - s <= MaxSubs - u
    BY <1>2, <1>3
  <2> QED
    BY <2>1, ConstantsAssumption DEF Subs
<1> QED
  BY <1>3, <1>4 DEF Latest

LEMMA IdleType == /\ Idle \in RequestState
                  /\ Idle.pc = "idle" /\ Idle.order = Nobody
  BY ConstantsAssumption DEF Idle, RequestState

LEMMA NoSubType == /\ NoSub \in SubRow
                   /\ NoSub.status = "none" /\ NoSub.order = Nobody
  BY ConstantsAssumption DEF NoSub, SubRow

LEMMA NoPaymentType == /\ NoPayment \in PaymentRow
                       /\ NoPayment.status = "none" /\ NoPayment.refunded = 0
  BY ConstantsAssumption DEF NoPayment, PaymentRow

-----------------------------------------------------------------------------
(* Transactions that have not committed *)

\* A request that ends.
LEMMA EndStep ==
  ASSUME BillingInv, NEW q \in Requests, End(q)
  PROVE  /\ request' \in [Requests -> RequestState] /\ lock' \in Requests \cup {Nobody}
         /\ request'[q] = Idle
         /\ \A r \in Requests : r # q => request'[r] = request[r]
         /\ \A r \in Requests : r # q /\ lock = r => lock' = r
  BY IdleType DEF End, BillingInv, TypeOK

LEMMA AbortStep ==
  ASSUME BillingInv, NEW q \in Requests, Abort(q)
  PROVE  BillingInv'
<1>1. UNCHANGED <<org, sub, payment, processed, ledger, strayed>> /\ End(q)
  BY DEF Abort
<1>2. TypeOK'
  BY <1>1, EndStep DEF BillingInv, TypeOK, org, ledger
<1>3. Confirming'
  BY <1>1, EndStep, IdleType DEF BillingInv, Confirming
<1>4. Locking'
  BY <1>1, EndStep, IdleType DEF BillingInv, Locking, Fits, org
<1>5. OrdersOpen' /\ PlanOfCurrent'
  BY <1>1 DEF BillingInv, OrdersOpen, PlanOfCurrent, Granted, Current, org, ledger
<1> QED
  BY <1>2, <1>3, <1>4, <1>5 DEF BillingInv

LEMMA UpgradeLockStep ==
  ASSUME BillingInv, NEW q \in Requests, NEW p \in Plans, UpgradeLock(q, p)
  PROVE  BillingInv'
<1>1. /\ UNCHANGED <<org, sub, payment, processed, ledger, strayed>>
      /\ lock = Nobody /\ lock' = q
      /\ request' = [request EXCEPT ![q] = [Idle EXCEPT !.pc = "locked", !.plan = p]]
  BY DEF UpgradeLock, OrgFree
<1>2. /\ request' \in [Requests -> RequestState]
      /\ request'[q].pc = "locked" /\ request'[q].order = Nobody
      /\ \A r \in Requests : r # q => request'[r] = request[r]
  BY <1>1, IdleType DEF BillingInv, TypeOK, RequestState
<1>3. TypeOK'
  BY <1>1, <1>2 DEF BillingInv, TypeOK, org, ledger
<1>4. Confirming'
  BY <1>1, <1>2 DEF BillingInv, Confirming
<1>5. Locking'
  BY <1>1, <1>2, ConstantsAssumption DEF BillingInv, Locking, Fits, org
<1>6. OrdersOpen' /\ PlanOfCurrent'
  BY <1>1 DEF BillingInv, OrdersOpen, PlanOfCurrent, Granted, Current, org, ledger
<1> QED
  BY <1>3, <1>4, <1>5, <1>6 DEF BillingInv

LEMMA UpgradeCheckStep ==
  ASSUME BillingInv, NEW q \in Requests, UpgradeCheck(q)
  PROVE  BillingInv'
<1>1. CASE End(q)
  <2>1. UNCHANGED <<org, sub, payment, processed, ledger, strayed>>
    BY DEF UpgradeCheck
  <2>2. request[q].pc # "idle"
    BY DEF UpgradeCheck
  <2> QED
    BY <1>1, <2>1, <2>2, AbortStep DEF Abort
<1>2. CASE ~End(q)
  <2>1. /\ UNCHANGED <<org, lock, sub, payment, processed, ledger, strayed>>
        /\ request' = [request EXCEPT ![q].pc = "checked"]
        /\ request[q].pc = "locked"
        /\ Price[request[q].plan] < Price[plan] => Fits(request[q].plan)
    BY <1>2 DEF UpgradeCheck
  <2>2. /\ request' \in [Requests -> RequestState]
        /\ request'[q].pc = "checked" /\ request'[q].order = request[q].order
        /\ request'[q].plan = request[q].plan
        /\ \A r \in Requests : r # q => request'[r] = request[r]
    BY <2>1 DEF BillingInv, TypeOK, RequestState
  <2>3. TypeOK'
    BY <2>1, <2>2 DEF BillingInv, TypeOK, org, ledger
  <2>4. Confirming'
    BY <2>1, <2>2 DEF BillingInv, Confirming
  <2>5. Locking'
    BY <2>1, <2>2 DEF BillingInv, Locking, Fits, org
  <2>6. OrdersOpen' /\ PlanOfCurrent'
    BY <2>1 DEF BillingInv, OrdersOpen, PlanOfCurrent, Granted, Current, org, ledger
  <2> QED
    BY <2>3, <2>4, <2>5, <2>6 DEF BillingInv
<1> QED
  BY <1>1, <1>2

LEMMA CancelReadStep ==
  ASSUME BillingInv, NEW q \in Requests, CancelRead(q)
  PROVE  BillingInv'
<1>1. /\ UNCHANGED <<org, lock, sub, payment, processed, ledger, strayed>>
      /\ request' = [request EXCEPT ![q] = [Idle EXCEPT !.pc = "cancelling",
                                                        !.rows = {Latest(Current)}]]
  BY DEF CancelRead
<1>2. Latest(Current) \in Subs
  BY LatestRow DEF CancelRead, Current
<1>3. /\ request' \in [Requests -> RequestState]
      /\ request'[q].pc = "cancelling" /\ request'[q].order = Nobody
      /\ \A r \in Requests : r # q => request'[r] = request[r]
  BY <1>1, <1>2, IdleType DEF BillingInv, TypeOK, RequestState
<1>4. TypeOK'
  BY <1>1, <1>3 DEF BillingInv, TypeOK, org, ledger
<1>5. Confirming'
  BY <1>1, <1>3 DEF BillingInv, Confirming
<1>6. Locking'
  BY <1>1, <1>3 DEF BillingInv, Locking, Fits, org
<1>7. OrdersOpen' /\ PlanOfCurrent'
  BY <1>1 DEF BillingInv, OrdersOpen, PlanOfCurrent, Granted, Current, org, ledger
<1> QED
  BY <1>4, <1>5, <1>6, <1>7 DEF BillingInv

LEMMA ConfirmSelectStep ==
  ASSUME BillingInv, NEW q \in Requests, ConfirmSelect(q)
  PROVE  BillingInv'
<1>1. /\ UNCHANGED <<org, lock, sub, payment, processed, ledger, strayed>>
      /\ request[q].pc = "confirming"
      /\ request' = [request EXCEPT ![q].pc = "selected", ![q].rows = Current,
                        ![q].grants = payment[request[q].order].plan \in offered]
  BY DEF ConfirmSelect
<1>2. PICK g \in BOOLEAN, S \in SUBSET Subs :
         request' = [request EXCEPT ![q].pc = "selected", ![q].rows = S, ![q].grants = g]
  <2>1. (payment[request[q].order].plan \in offered) \in BOOLEAN /\ Current \in SUBSET Subs
    BY DEF Current
  <2> QED
    BY <1>1, <2>1
<1>3. /\ request' \in [Requests -> RequestState]
      /\ request'[q].pc = "selected" /\ request'[q].order = request[q].order
      /\ request'[q].attempt = request[q].attempt
      /\ \A r \in Requests : r # q => request'[r] = request[r]
  BY <1>2 DEF BillingInv, TypeOK, RequestState
<1>4. TypeOK'
  BY <1>1, <1>3 DEF BillingInv, TypeOK, org, ledger
<1>5. Confirming'
  BY <1>1, <1>3 DEF BillingInv, Confirming
<1>6. Locking'
  BY <1>1, <1>3 DEF BillingInv, Locking, Fits, org
<1>7. OrdersOpen' /\ PlanOfCurrent'
  BY <1>1 DEF BillingInv, OrdersOpen, PlanOfCurrent, Granted, Current, org, ledger
<1> QED
  BY <1>4, <1>5, <1>6, <1>7 DEF BillingInv

LEMMA ConfirmStartStep ==
  ASSUME BillingInv, NEW q \in Requests, NEW a \in Attempts, ConfirmStart(q, a)
  PROVE  BillingInv'
<1> DEFINE p == OrderOf[a]
<1>1. p \in Payments /\ PaymentFree(p)
  BY ConstantsAssumption DEF ConfirmStart
<1>2. CASE processed' = processed \cup {a} /\ UNCHANGED request
  <2>1. UNCHANGED <<org, lock, sub, payment, ledger, strayed>>
    BY DEF ConfirmStart
  <2>2. TypeOK'
    BY <1>2, <2>1 DEF BillingInv, TypeOK, org, ledger
  <2>3. Confirming' /\ Locking'
    BY <1>2, <2>1 DEF BillingInv, Confirming, Locking, Fits, org
  <2>4. OrdersOpen' /\ PlanOfCurrent'
    BY <1>2, <2>1 DEF BillingInv, OrdersOpen, PlanOfCurrent, Granted, Current, org, ledger
  <2> QED
    BY <2>2, <2>3, <2>4 DEF BillingInv
<1>3. CASE ~(processed' = processed \cup {a} /\ UNCHANGED request)
  <2>1. /\ UNCHANGED <<org, lock, sub, payment, processed, ledger, strayed>>
        /\ payment[p].status = "pending"
        /\ request' = [request EXCEPT ![q] = [Idle EXCEPT !.pc = "confirming", !.order = p,
                                                          !.attempt = a]]
    BY <1>3 DEF ConfirmStart
  <2>2. /\ request' \in [Requests -> RequestState]
        /\ request'[q].pc = "confirming"
        /\ request'[q].order = p /\ request'[q].attempt = a
        /\ \A r \in Requests : r # q => request'[r] = request[r]
    BY <1>1, <2>1, IdleType DEF BillingInv, TypeOK, RequestState
  <2>3. TypeOK'
    BY <2>1, <2>2 DEF BillingInv, TypeOK, org, ledger
  <2>4. Confirming'
    BY <1>1, <2>1, <2>2 DEF BillingInv, Confirming, PaymentFree
  <2>5. Locking'
    BY <2>1, <2>2 DEF BillingInv, Locking, Fits, org
  <2>6. OrdersOpen' /\ PlanOfCurrent'
    BY <2>1 DEF BillingInv, OrdersOpen, PlanOfCurrent, Granted, Current, org, ledger
  <2> QED
    BY <2>3, <2>4, <2>5, <2>6 DEF BillingInv
<1> QED
  BY <1>2, <1>3

-----------------------------------------------------------------------------
(* Transactions that commit *)

\* What the rows are after a replacement: one more, and of the others the current ones
\* among S are over.
LEMMA ReplacedRows ==
  ASSUME TypeOK, NEW S \in SUBSET Subs, NEW row \in SubRow, Rows # Subs,
         sub' = Replaced(S, row)
  PROVE  /\ sub' \in [Subs -> SubRow]
         /\ Fresh \in Subs \ Rows /\ sub'[Fresh] = row
         /\ \A s \in Subs : s # Fresh =>
               /\ sub'[s].order = sub[s].order
               /\ sub'[s].status = "none" => sub[s].status = "none"
               /\ s \in S \cap Current => sub'[s].status = "cancelled"
               /\ s \notin S \cap Current => sub'[s] = sub[s]
         /\ Current \subseteq S => Current' \subseteq {Fresh}
<1>1. Fresh \in Subs \ Rows
  BY FreshRow
<1>2. sub' \in [Subs -> SubRow] /\ sub'[Fresh] = row
  BY <1>1 DEF TypeOK, Replaced, SubRow, Statuses
<1>3. ASSUME NEW s \in Subs, s # Fresh
      PROVE  /\ sub'[s].order = sub[s].order
             /\ sub'[s].status = "none" => sub[s].status = "none"
             /\ s \in S \cap Current => sub'[s].status = "cancelled"
             /\ s \notin S \cap Current => sub'[s] = sub[s]
  BY <1>3 DEF TypeOK, Replaced, SubRow
<1>4. ASSUME Current \subseteq S PROVE Current' \subseteq {Fresh}
  <2>1. ASSUME NEW s \in Current', s # Fresh PROVE FALSE
    <3>1. s \in Subs /\ sub'[s].status \in {"active", "trialing"}
      BY <2>1 DEF Current
    <3>2. CASE s \in Current
      BY <1>3, <1>4, <2>1, <3>1, <3>2
    <3>3. CASE s \notin Current
      BY <1>3, <2>1, <3>1, <3>3 DEF Current
    <3> QED
      BY <3>2, <3>3
  <2> QED
    BY <2>1
<1> QED
  BY <1>1, <1>2, <1>3, <1>4

LEMMA UpgradeCommitStep ==
  ASSUME BillingInv, NEW q \in Requests, UpgradeCommit(q)
  PROVE  BillingInv'
<1> DEFINE p == request[q].plan
           row == [NoSub EXCEPT !.status = InitialStatus(p), !.plan = p]
<1>1. p \in Plans /\ lock = q
  BY DEF BillingInv, TypeOK, RequestState, Locking, UpgradeCommit
<1>2. row \in SubRow /\ row.status = "active" /\ row.plan = p /\ row.order = Nobody
  BY <1>1, NoSubType DEF UpgradeCommit, InitialStatus, Statuses, SubRow
<1>3. /\ UNCHANGED <<used, offered, payment, processed, ledger, strayed>>
      /\ plan' = p /\ End(q) /\ Rows # Subs
      /\ sub' = Replaced(Current, row)
  BY DEF UpgradeCommit
<1>4. Current \in SUBSET Subs
  BY DEF Current
<1> HIDE DEF row
<1>5. /\ sub' \in [Subs -> SubRow]
      /\ Fresh \in Subs \ Rows /\ sub'[Fresh] = row
      /\ \A s \in Subs : s # Fresh =>
            /\ sub'[s].order = sub[s].order
            /\ sub'[s].status = "none" => sub[s].status = "none"
      /\ Current' \subseteq {Fresh}
  BY <1>2, <1>3, <1>4, ReplacedRows DEF BillingInv
<1>6. TypeOK'
  BY <1>1, <1>3, <1>5, EndStep DEF BillingInv, TypeOK, ledger
<1>7. Confirming'
  BY <1>3, EndStep, IdleType DEF BillingInv, Confirming
<1>8. Locking'
  BY <1>1, <1>3, EndStep, IdleType DEF BillingInv, Locking
<1>9. OrdersOpen'
  <2>1. ASSUME NEW o \in Payments PROVE Granted(o)' = Granted(o)
    <3>1. sub[Fresh].order = Nobody
      BY <1>5 DEF BillingInv, OrdersOpen, Rows
    <3> QED
      BY <1>2, <1>5, <3>1 DEF Granted
  <2>2. \A s \in Subs : sub'[s].status = "none" => sub'[s].order = Nobody
    BY <1>2, <1>5 DEF BillingInv, OrdersOpen
  <2> QED
    BY <1>3, <2>1, <2>2 DEF BillingInv, OrdersOpen, ledger
<1>10. PlanOfCurrent'
  BY <1>2, <1>3, <1>5 DEF PlanOfCurrent
<1> QED
  BY <1>6, <1>7, <1>8, <1>9, <1>10 DEF BillingInv

LEMMA CancelCommitStep ==
  ASSUME BillingInv, NEW q \in Requests, CancelCommit(q)
  PROVE  BillingInv'
<1>1. /\ UNCHANGED <<org, payment, processed, ledger, strayed>> /\ End(q)
      /\ sub' = [s \in Subs |-> IF s \in request[q].rows
                                THEN [sub[s] EXCEPT !.status = "cancelled"] ELSE sub[s]]
  BY DEF CancelCommit
<1>2. sub' \in [Subs -> SubRow]
  BY <1>1 DEF BillingInv, TypeOK, SubRow, Statuses
<1>3. ASSUME NEW s \in Subs
      PROVE  /\ sub'[s].order = sub[s].order /\ sub'[s].plan = sub[s].plan
             /\ sub'[s].status \in {sub[s].status, "cancelled"}
  BY <1>1 DEF BillingInv, TypeOK, SubRow
<1>4. TypeOK'
  BY <1>1, <1>2, EndStep DEF BillingInv, TypeOK, org, ledger
<1>5. Confirming'
  BY <1>1, EndStep, IdleType DEF BillingInv, Confirming
<1>6. Locking'
  BY <1>1, EndStep, IdleType DEF BillingInv, Locking, Fits, org
<1>7. OrdersOpen'
  BY <1>1, <1>3 DEF BillingInv, OrdersOpen, Granted, ledger
<1>8. PlanOfCurrent'
  BY <1>1, <1>3 DEF BillingInv, PlanOfCurrent, Current, org
<1> QED
  BY <1>4, <1>5, <1>6, <1>7, <1>8 DEF BillingInv

\* What a confirmed order leaves: its payment is booked once, and at most one row is its.
LEMMA ConfirmCommitEffect ==
  ASSUME BillingInv, NEW q \in Requests, ConfirmCommit(q), NEW p, p = request[q].order
  PROVE  /\ p \in Payments
         /\ sub' \in [Subs -> SubRow] /\ plan' \in Plans
         /\ \A o \in Payments : o # p => Granted(o)' = Granted(o)
         /\ \/ Granted(p)' = {}
            \/ \E s \in Subs : Granted(p)' = {s}
         /\ \A s \in Subs : sub'[s].status = "none" => sub'[s].order = Nobody
         /\ PlanOfCurrent'
         /\ plan' # plan => lock = Nobody
         /\ \/ UNCHANGED <<sub, plan>>
            \/ /\ Fresh \in Subs /\ sub[Fresh].status = "none" /\ sub'[Fresh].status = "active"
               /\ sub'[Fresh].plan = plan' /\ Price[plan'] > 0
               /\ \A s \in Subs : s # Fresh /\ sub'[s].status # "none" => sub[s].status # "none"
<1> DEFINE row == ActiveFor(p)
<1>1. /\ p \in Payments /\ payment[p].status = "pending" /\ Granted(p) = {}
      /\ payment[p].plan \in Plans /\ Price[payment[p].plan] > 0
  BY DEF BillingInv, TypeOK, PaymentRow, Confirming, OrdersOpen, ConfirmCommit
<1>2. CASE UNCHANGED <<sub, plan>>
  <2>1. \A o \in Payments : Granted(o)' = Granted(o)
    BY <1>2 DEF Granted
  <2>2. PlanOfCurrent'
    BY <1>2 DEF BillingInv, PlanOfCurrent, Current, ConfirmCommit
  <2>3. /\ sub' \in [Subs -> SubRow] /\ plan' \in Plans
        /\ \A s \in Subs : sub'[s].status = "none" => sub'[s].order = Nobody
    BY <1>2 DEF BillingInv, TypeOK, OrdersOpen
  <2>4. Granted(p)' = {}
    BY <1>1, <2>1
  <2> QED
    BY <1>1, <1>2, <2>1, <2>2, <2>3, <2>4
<1>3. CASE ~UNCHANGED <<sub, plan>>
  <2>1. /\ lock = Nobody /\ Rows # Subs /\ Current \subseteq request[q].rows
        /\ sub' = Replaced(request[q].rows, row)
        /\ plan' = payment[p].plan /\ UNCHANGED strayed
    BY <1>3 DEF ConfirmCommit, OrgFree, OnlyCurrent
  <2>2. request[q].rows \in SUBSET Subs
    BY DEF BillingInv, TypeOK, RequestState
  <2>3. row \in SubRow /\ row.status = "active" /\ row.plan = payment[p].plan /\ row.order = p
    BY <1>1, NoSubType DEF ActiveFor, SubRow, Statuses
  <2> HIDE DEF row
  <2>4. /\ sub' \in [Subs -> SubRow]
        /\ Fresh \in Subs \ Rows /\ sub'[Fresh] = row
        /\ \A s \in Subs : s # Fresh =>
              /\ sub'[s].order = sub[s].order
              /\ sub'[s].status = "none" => sub[s].status = "none"
              /\ s \in request[q].rows \cap Current => sub'[s].status = "cancelled"
              /\ s \notin request[q].rows \cap Current => sub'[s] = sub[s]
        /\ Current \subseteq request[q].rows => Current' \subseteq {Fresh}
    <3>1. TypeOK
      BY DEF BillingInv
    <3> QED
      BY <2>1, <2>2, <2>3, <3>1, ReplacedRows
  <2>5. sub[Fresh].order = Nobody
    BY <2>4 DEF BillingInv, OrdersOpen, Rows
  <2>6. ASSUME NEW o \in Payments, o # p PROVE Granted(o)' = Granted(o)
    BY <2>3, <2>4, <2>5, <2>6, ConstantsAssumption DEF Granted
  <2>7. Granted(p)' = {Fresh}
    <3>1. \A s \in Subs : sub[s].order # p
      BY <1>1 DEF Granted
    <3>2. \A s \in Subs : sub'[s].order = p <=> s = Fresh
      BY <2>3, <2>4, <3>1
    <3>3. Granted(p)' = {s \in Subs : sub'[s].order = p}
      BY DEF Granted
    <3> QED
      BY <2>4, <3>2, <3>3
  <2>8. \A s \in Subs : sub'[s].status = "none" => sub'[s].order = Nobody
    BY <2>3, <2>4 DEF BillingInv, OrdersOpen
  <2>9. PlanOfCurrent'
    BY <2>1, <2>3, <2>4 DEF PlanOfCurrent
  <2>10. \A s \in Subs : s # Fresh /\ sub'[s].status # "none" => sub[s].status # "none"
    BY <2>4 DEF Current
  <2>11. sub[Fresh].status = "none"
    BY <2>4 DEF Rows
  <2> QED
    BY <1>1, <2>1, <2>3, <2>4, <2>6, <2>7, <2>8, <2>9, <2>10, <2>11
<1> QED
  BY <1>2, <1>3

LEMMA ConfirmCommitStep ==
  ASSUME BillingInv, NEW q \in Requests, ConfirmCommit(q)
  PROVE  BillingInv'
<1> PICK p : p = request[q].order
  OBVIOUS
<1>1. /\ payment' = [payment EXCEPT ![p].status = "completed"]
      /\ booked' = [booked EXCEPT ![p] = @ + 1]
      /\ processed' = processed \cup {request[q].attempt}
      /\ End(q) /\ UNCHANGED <<used, offered, returned, strayed>>
  BY DEF ConfirmCommit
<1>2. p \in Payments /\ request[q].attempt \in Attempts /\ payment[p].status = "pending"
  BY DEF BillingInv, Confirming, ConfirmCommit
<1>3. /\ payment' \in [Payments -> PaymentRow] /\ payment'[p].status = "completed"
      /\ \A o \in Payments : o # p => payment'[o] = payment[o] /\ booked'[o] = booked[o]
      /\ booked' \in [Payments -> Nat]
  BY <1>1, <1>2 DEF BillingInv, TypeOK, PaymentRow
<1>4. TypeOK'
  BY <1>1, <1>2, <1>3, EndStep, ConfirmCommitEffect DEF BillingInv, TypeOK
<1>5. Confirming'
  <2>1. \A r \in Requests : r # q => request[r].order # p
    BY <1>2, ConstantsAssumption DEF BillingInv, Confirming
  <2> QED
    BY <1>1, <1>3, <2>1, EndStep, IdleType DEF BillingInv, Confirming
<1>6. Locking'
  <2>1. CASE plan' = plan
    BY <1>1, <2>1, EndStep, IdleType DEF BillingInv, Locking, Fits
  <2>2. CASE plan' # plan
    <3>1. lock = Nobody
      BY <2>2, ConfirmCommitEffect
    <3>2. \A r \in Requests : request[r].pc \notin {"locked", "checked"}
      BY <3>1, ConstantsAssumption DEF BillingInv, Locking
    <3> QED
      BY <1>1, <3>2, EndStep, IdleType DEF Locking
  <2> QED
    BY <2>1, <2>2
<1>7. OrdersOpen'
  BY <1>1, <1>2, <1>3, ConfirmCommitEffect DEF BillingInv, OrdersOpen
<1> QED
  BY <1>4, <1>5, <1>6, <1>7, ConfirmCommitEffect DEF BillingInv

-----------------------------------------------------------------------------
(* Orders, refunds, use *)

\* A step that writes a payment which no request has locked leaves the requests' part alone.
LEMMA PaymentStep ==
  ASSUME BillingInv, UNCHANGED <<org, lock, sub, request, strayed>>,
         NEW p \in Payments, payment' \in [Payments -> PaymentRow],
         \/ payment[p].status # "pending" \/ PaymentFree(p) \/ payment'[p].status = "pending",
         \A o \in Payments : o # p => payment'[o] = payment[o]
  PROVE  Confirming' /\ Locking' /\ PlanOfCurrent'
<1>1. Confirming'
  BY DEF BillingInv, Confirming, PaymentFree
<1>2. Locking' /\ PlanOfCurrent'
  BY DEF BillingInv, Locking, Fits, PlanOfCurrent, Current, org
<1> QED
  BY <1>1, <1>2

LEMMA CreateOrderStep ==
  ASSUME BillingInv, NEW p \in Payments, NEW pl \in Plans, CreateOrder(p, pl)
  PROVE  BillingInv'
<1>1. /\ UNCHANGED <<org, lock, sub, processed, ledger, request, strayed>>
      /\ payment[p].status = "none" /\ Price[pl] > 0
      /\ payment' = [payment EXCEPT ![p] = [NoPayment EXCEPT !.status = "pending", !.plan = pl]]
  BY DEF CreateOrder, Orderable
<1>2. /\ payment' \in [Payments -> PaymentRow]
      /\ payment'[p].status = "pending" /\ payment'[p].plan = pl
      /\ \A o \in Payments : o # p => payment'[o] = payment[o]
  BY <1>1, NoPaymentType DEF BillingInv, TypeOK, PaymentRow
<1>3. TypeOK'
  BY <1>1, <1>2 DEF BillingInv, TypeOK, org, ledger
<1>4. OrdersOpen'
  BY <1>1, <1>2 DEF BillingInv, OrdersOpen, Granted, ledger
<1> QED
  BY <1>1, <1>2, <1>3, <1>4, PaymentStep DEF BillingInv

LEMMA PaymentFailedStep ==
  ASSUME BillingInv, NEW p \in Payments, PaymentFailed(p)
  PROVE  BillingInv'
<1>1. /\ UNCHANGED <<org, lock, sub, processed, ledger, request, strayed>>
      /\ PaymentFree(p)
      /\ payment' = [payment EXCEPT ![p].status = "failed"]
  BY DEF PaymentFailed
<1>2. /\ payment' \in [Payments -> PaymentRow]
      /\ payment'[p].status = "failed"
      /\ \A o \in Payments : o # p => payment'[o] = payment[o]
  BY <1>1 DEF BillingInv, TypeOK, PaymentRow
<1>3. TypeOK'
  BY <1>1, <1>2 DEF BillingInv, TypeOK, org, ledger
<1>4. OrdersOpen'
  BY <1>1, <1>2 DEF BillingInv, OrdersOpen, Granted, ledger
<1> QED
  BY <1>1, <1>2, <1>3, <1>4, PaymentStep DEF BillingInv

\* A refund is added to what its order has paid back, or changes no payment.
LEMMA RefundStep ==
  ASSUME BillingInv, NEW r \in Refunds, RefundSucceeded(r) \/ RefundFailed(r)
  PROVE  BillingInv'
<1> DEFINE p == RefundOf[r].order
<1>1. p \in Payments /\ RefundOf[r].amount \in Nat
  BY ConstantsAssumption
<1>2. /\ UNCHANGED <<org, lock, sub, booked, request, strayed>>
      /\ processed' = processed \cup {r}
  BY DEF RefundSucceeded, RefundFailed, ledger
<1>3. /\ payment' \in [Payments -> PaymentRow]
      /\ returned' \subseteq returned \cup {r}
      /\ \A o \in Payments : /\ payment'[o].status = payment[o].status
                             /\ payment'[o].plan = payment[o].plan
                             /\ payment[o].status = "none" => payment'[o] = payment[o]
  <2>1. CASE UNCHANGED <<payment, returned>>
    BY <2>1 DEF BillingInv, TypeOK
  <2>2. CASE ~UNCHANGED <<payment, returned>>
    <3>1. /\ payment[p].status # "none"
          /\ payment' = [payment EXCEPT ![p].refunded = payment[p].refunded + RefundOf[r].amount]
          /\ returned' = returned \cup {r}
      BY <2>2 DEF RefundSucceeded, RefundFailed, ledger
    <3>2. payment[p].refunded + RefundOf[r].amount \in Nat
      BY <1>1 DEF BillingInv, TypeOK, PaymentRow
    <3> QED
      BY <1>1, <3>1, <3>2 DEF BillingInv, TypeOK, PaymentRow
  <2> QED
    BY <2>1, <2>2
<1>4. TypeOK'
  BY <1>2, <1>3 DEF BillingInv, TypeOK, org
<1>5. Confirming' /\ Locking' /\ PlanOfCurrent'
  BY <1>2, <1>3 DEF BillingInv, Confirming, Locking, Fits, PlanOfCurrent, Current, org
<1>6. OrdersOpen'
  BY <1>2, <1>3 DEF BillingInv, OrdersOpen, Granted
<1> QED
  BY <1>4, <1>5, <1>6 DEF BillingInv

\* What is used does not grow while a plan change holds the organisation.
LEMMA UseStep ==
  ASSUME BillingInv, UseMore \/ UseLess \/ \E p \in Plans : Withdraw(p)
  PROVE  BillingInv'
<1>1. UNCHANGED <<plan, lock, sub, payment, processed, ledger, request, strayed>>
  BY DEF UseMore, UseLess, Withdraw
<1>2. used' \in 0..MaxUsed /\ offered' \subseteq Plans
  BY ConstantsAssumption DEF BillingInv, TypeOK, UseMore, UseLess, Withdraw
<1>3. used' <= used \/ lock = Nobody
  BY DEF BillingInv, TypeOK, UseMore, UseLess, Withdraw, OrgFree
<1>4. TypeOK'
  BY <1>1, <1>2 DEF BillingInv, TypeOK, ledger
<1>5. Confirming' /\ OrdersOpen' /\ PlanOfCurrent'
  BY <1>1 DEF BillingInv, Confirming, OrdersOpen, PlanOfCurrent, Granted, Current, ledger
<1>6. Locking'
  <2>1. CASE lock = Nobody
    BY <1>1, <2>1, ConstantsAssumption DEF BillingInv, Locking
  <2>2. CASE used' <= used
    <3>1. ASSUME NEW q \in Requests, request[q].pc = "checked",
                 Price[request[q].plan] < Price[plan]
          PROVE  Fits(request[q].plan)'
      <4>1. request[q].plan \in Plans /\ Fits(request[q].plan)
        BY <3>1 DEF BillingInv, TypeOK, RequestState, Locking
      <4>2. used \in Nat /\ used' \in Nat
        BY <1>2 DEF BillingInv, TypeOK
      <4> QED
        BY <1>1, <2>2, <4>1, <4>2, ConstantsAssumption DEF Fits, Unlimited
    <3> QED
      BY <1>1, <3>1 DEF BillingInv, Locking
  <2> QED
    BY <1>3, <2>1, <2>2
<1> QED
  BY <1>4, <1>5, <1>6 DEF BillingInv

-----------------------------------------------------------------------------
(* Events of Stripe *)

\* A row takes another status, in a transaction that nobody's lock keeps from committing.
Moved(s, status) ==
    /\ lock = Nobody
    /\ sub[s].status # "none"
    /\ status \in Statuses /\ status \in ValidTransitions[sub[s].status]
    /\ sub' \in [Subs -> SubRow]
    /\ sub'[s].status = status
    /\ sub'[s].plan = sub[s].plan /\ sub'[s].order = sub[s].order
    /\ \A t \in Subs : t # s => sub'[t] = sub[t]
    /\ status \in {"active", "trialing"} => Current \subseteq {s}

\* The plan follows, stays, or falls back to the free one.
PlanFollows(s, status) ==
    \/ status = "active" /\ plan' = sub[s].plan /\ UNCHANGED strayed
    \/ UNCHANGED plan /\ Strays(s, status)
    \/ /\ status = "cancelled" /\ plan' = Free
       /\ strayed' = (strayed \/ Current \ {s} # {})

LEMMA MovesEffect ==
  ASSUME TypeOK, NEW s \in Rows, NEW status, NEW sid \in StripeIds, Moves(s, status, sid)
  PROVE  Moved(s, status)
<1>1. /\ lock = Nobody /\ status \in ValidTransitions[sub[s].status]
      /\ status \in {"active", "trialing"} => Current \subseteq {s}
      /\ sub' = [sub EXCEPT ![s].status = status, ![s].stripe = sid]
  BY DEF Moves, OrgFree, Accepts, OnlyCurrent
<1>2. s \in Subs /\ sub[s] \in SubRow /\ sub[s].status # "none"
  BY DEF TypeOK, Rows
<1>3. status \in Statuses
  BY <1>1, <1>2 DEF ValidTransitions, Statuses, SubRow
<1>4. sub' \in [Subs -> SubRow]
  BY <1>1, <1>2, <1>3 DEF TypeOK, SubRow
<1>5. /\ sub'[s].status = status
      /\ sub'[s].plan = sub[s].plan /\ sub'[s].order = sub[s].order
      /\ \A t \in Subs : t # s => sub'[t] = sub[t]
  BY <1>1, <1>2 DEF TypeOK, SubRow
<1> QED
  BY <1>1, <1>2, <1>3, <1>4, <1>5 DEF Moved

LEMMA StripeEffect ==
  ASSUME TypeOK, NEW e \in StripeEvents, NEW c \in Contents, StripeEvent(e, c)
  PROVE  /\ UNCHANGED <<used, offered, lock, payment, ledger, request>>
         /\ processed' = processed \cup {e}
         /\ \/ UNCHANGED <<plan, sub, strayed>>
            \/ \E s \in Subs, status \in Statuses : Moved(s, status) /\ PlanFollows(s, status)
<1>1. /\ UNCHANGED <<used, offered, lock, payment, ledger, request>>
      /\ processed' = processed \cup {e}
  BY DEF StripeEvent, Stripe, InvoicePaid, InvoiceFailed, SubscriptionCreated,
         SubscriptionUpdated, SubscriptionDeleted, CheckoutCompleted
<1>2. c.sid \in StripeIds
  BY DEF StripeIds
<1>3. Of(c) \subseteq Rows /\ Rows \subseteq Subs
  BY DEF Of, Rows
<1>4. strayed \in BOOLEAN
  BY DEF TypeOK
<1> DEFINE Effect == \/ UNCHANGED <<plan, sub, strayed>>
                     \/ \E s \in Subs, status \in Statuses :
                           Moved(s, status) /\ PlanFollows(s, status)
<1>5. ASSUME NEW s \in Rows, NEW status, Moves(s, status, c.sid), PlanFollows(s, status)
      PROVE  Effect
  <2>1. Moved(s, status)
    BY <1>2, <1>5, MovesEffect
  <2>2. status \in Statuses /\ s \in Subs
    BY <1>3, <2>1 DEF Moved
  <2> QED
    BY <1>5, <2>1, <2>2
<1>6. ASSUME Ignored PROVE Effect
  BY <1>6 DEF Ignored
<1>7. ASSUME ~Ignored, InvoicePaid(e, c) PROVE Effect
  <2>1. PICK s \in Rows : /\ Moves(s, "active", c.sid)
                          /\ plan' = sub[s].plan /\ UNCHANGED strayed
    BY <1>3, <1>7, LatestRow DEF InvoicePaid
  <2> QED
    BY <1>5, <2>1 DEF PlanFollows
<1>8. ASSUME ~Ignored, InvoiceFailed(e, c) PROVE Effect
  <2>1. PICK s \in Rows : Moves(s, "past_due", c.sid) /\ UNCHANGED <<plan, strayed>>
    BY <1>3, <1>8, LatestRow DEF InvoiceFailed
  <2>2. Strays(s, "past_due")
    BY <1>4, <2>1 DEF Strays
  <2> QED
    BY <1>5, <2>1, <2>2 DEF PlanFollows
<1>9. ASSUME ~Ignored, SubscriptionCreated(e, c) PROVE Effect
  <2>1. PICK s \in Rows : Moves(s, c.status, c.sid) /\ Strays(s, c.status) /\ UNCHANGED plan
    BY <1>3, <1>9, LatestRow DEF SubscriptionCreated
  <2> QED
    BY <1>5, <2>1 DEF PlanFollows
<1>10. ASSUME ~Ignored, SubscriptionUpdated(e, c) PROVE Effect
  <2>1. PICK s \in Rows : Moves(s, c.status, c.sid) /\ Strays(s, c.status) /\ UNCHANGED plan
    BY <1>3, <1>10, LatestRow DEF SubscriptionUpdated
  <2> QED
    BY <1>5, <2>1 DEF PlanFollows
<1>11. ASSUME ~Ignored, CheckoutCompleted(e, c) PROVE Effect
  <2>1. PICK s \in Rows : Moves(s, "active", c.sid) /\ Strays(s, "active") /\ UNCHANGED plan
    BY <1>3, <1>11, LatestRow DEF CheckoutCompleted
  <2> QED
    BY <1>5, <2>1 DEF PlanFollows
<1>12. ASSUME ~Ignored, SubscriptionDeleted(e, c) PROVE Effect
  <2>1. PICK s \in Rows : /\ OrgFree /\ Ends(s) /\ plan' = Free
                          /\ sub' = [sub EXCEPT ![s].status = "cancelled"]
                          /\ strayed' = (strayed \/ Current \ {s} # {})
    BY <1>3, <1>12, LatestRow DEF SubscriptionDeleted
  <2>2. Moved(s, "cancelled")
    BY <2>1 DEF Moved, Ends, Accepts, OrgFree, TypeOK, SubRow, Statuses, Rows
  <2> QED
    BY <1>3, <2>1, <2>2 DEF PlanFollows, Statuses
<1>13. Effect
  BY <1>6, <1>7, <1>8, <1>9, <1>10, <1>11, <1>12 DEF StripeEvent
<1> QED
  BY <1>1, <1>13

\* The plan still is that of the current subscription, or has strayed.
LEMMA FollowedPlan ==
  ASSUME BillingInv, NEW s \in Subs, NEW status \in Statuses,
         Moved(s, status), PlanFollows(s, status)
  PROVE  PlanOfCurrent' /\ plan' \in Plans /\ strayed' \in BOOLEAN
<1>1. sub[s].plan \in Plans /\ plan \in Plans /\ strayed \in BOOLEAN
  BY DEF BillingInv, TypeOK, SubRow
<1>2. ASSUME NEW t \in Current'
      PROVE  \/ t # s /\ t \in Current /\ sub'[t].plan = sub[t].plan
             \/ t = s /\ status \in {"active", "trialing"} /\ sub'[t].plan = sub[s].plan
  BY <1>2 DEF Moved, Current
<1>3. CASE status = "active" /\ plan' = sub[s].plan /\ UNCHANGED strayed
  <2>1. \A t \in Current' : t = s
    BY <1>2, <1>3 DEF Moved
  <2> QED
    BY <1>1, <1>2, <1>3, <2>1 DEF PlanOfCurrent
<1>4. CASE UNCHANGED plan /\ Strays(s, status)
  <2>1. strayed' \in BOOLEAN
    BY <1>1, <1>4 DEF Strays
  <2>2. CASE strayed'
    BY <1>1, <1>4, <2>1, <2>2 DEF PlanOfCurrent
  <2>3. CASE ~strayed'
    <3>1. /\ ~strayed
          /\ status \in {"active", "trialing"} => sub[s].plan = plan
      BY <1>4, <2>3 DEF Strays
    <3>2. \A t \in Current : sub[t].plan = plan
      BY <3>1 DEF BillingInv, PlanOfCurrent
    <3>3. \A t \in Current' : sub'[t].plan = plan'
      BY <1>2, <1>4, <3>1, <3>2
    <3> QED
      BY <1>1, <1>4, <2>1, <3>3 DEF PlanOfCurrent
  <2> QED
    BY <2>2, <2>3
<1>5. CASE /\ status = "cancelled" /\ plan' = Free
           /\ strayed' = (strayed \/ Current \ {s} # {})
  <2>1. strayed' \in BOOLEAN
    BY <1>1, <1>5
  <2>2. CASE strayed'
    BY <1>5, <2>1, <2>2, ConstantsAssumption DEF PlanOfCurrent
  <2>3. CASE ~strayed'
    <3>1. Current \subseteq {s}
      BY <1>5, <2>3
    <3>2. Current' = {}
      BY <1>2, <1>5, <3>1
    <3> QED
      BY <1>5, <2>1, <3>2, ConstantsAssumption DEF PlanOfCurrent
  <2> QED
    BY <2>2, <2>3
<1> QED
  BY <1>3, <1>4, <1>5 DEF PlanFollows

LEMMA StripeStep ==
  ASSUME BillingInv, NEW e \in StripeEvents, NEW c \in Contents, StripeEvent(e, c)
  PROVE  BillingInv'
<1>1. /\ UNCHANGED <<used, offered, lock, payment, ledger, request>>
      /\ processed' = processed \cup {e}
      /\ \/ UNCHANGED <<plan, sub, strayed>>
         \/ \E s \in Subs, status \in Statuses : Moved(s, status) /\ PlanFollows(s, status)
  BY StripeEffect DEF BillingInv
<1>2. CASE UNCHANGED <<plan, sub, strayed>>
  <2>1. TypeOK'
    BY <1>1, <1>2 DEF BillingInv, TypeOK, ledger
  <2>2. Confirming' /\ OrdersOpen'
    BY <1>1, <1>2 DEF BillingInv, Confirming, OrdersOpen, Granted, ledger
  <2>3. Locking' /\ PlanOfCurrent'
    BY <1>1, <1>2 DEF BillingInv, Locking, Fits, PlanOfCurrent, Current
  <2> QED
    BY <2>1, <2>2, <2>3 DEF BillingInv
<1>3. ASSUME NEW s \in Subs, NEW status \in Statuses,
             Moved(s, status), PlanFollows(s, status)
      PROVE  BillingInv'
  <2>1. PlanOfCurrent' /\ plan' \in Plans /\ strayed' \in BOOLEAN
    BY <1>3, FollowedPlan
  <2>2. TypeOK'
    BY <1>1, <1>3, <2>1 DEF BillingInv, TypeOK, ledger, Moved
  <2>3. Confirming'
    BY <1>1 DEF BillingInv, Confirming
  <2>4. Locking'
    BY <1>1, <1>3, ConstantsAssumption DEF BillingInv, Locking, Moved
  <2>5. OrdersOpen'
    <3>1. \A t \in Subs : /\ sub'[t].order = sub[t].order
                          /\ sub'[t].status = "none" => sub[t].status = "none"
      BY <1>3 DEF Moved, Statuses
    <3>2. \A p \in Payments : Granted(p)' = Granted(p)
      BY <3>1 DEF Granted
    <3> QED
      BY <1>1, <3>1, <3>2 DEF BillingInv, OrdersOpen, ledger
  <2> QED
    BY <2>1, <2>2, <2>3, <2>4, <2>5 DEF BillingInv
<1> QED
  BY <1>1, <1>2, <1>3

-----------------------------------------------------------------------------
(* The invariant *)

LEMMA InvInit == Init => BillingInv
<1> SUFFICES ASSUME Init PROVE BillingInv
  OBVIOUS
<1>1. /\ sub = [s \in Subs |-> NoSub] /\ payment = [p \in Payments |-> NoPayment]
      /\ request = [q \in Requests |-> Idle]
      /\ booked = [p \in Payments |-> 0]
      /\ plan = Free /\ used = 0 /\ offered = Plans /\ lock = Nobody
      /\ processed = {} /\ returned = {} /\ strayed = FALSE
  BY DEF Init
<1>2. TypeOK
  <2>1. /\ sub \in [Subs -> SubRow] /\ payment \in [Payments -> PaymentRow]
        /\ request \in [Requests -> RequestState]
    BY <1>1, IdleType, NoSubType, NoPaymentType
  <2>2. booked \in [Payments -> Nat] /\ used \in 0..MaxUsed
    BY <1>1, ConstantsAssumption
  <2>3. strayed \in BOOLEAN
    BY <1>1
  <2> QED
    BY <1>1, <2>1, <2>2, <2>3, ConstantsAssumption DEF TypeOK
<1>3. Confirming /\ Locking
  BY <1>1, IdleType DEF Confirming, Locking
<1>4. Current = {}
  BY <1>1, NoSubType DEF Current
<1>5. \A p \in Payments : Granted(p) = {}
  BY <1>1, NoSubType, ConstantsAssumption DEF Granted
<1> QED
  BY <1>1, <1>2, <1>3, <1>4, <1>5, NoSubType, NoPaymentType
  DEF BillingInv, OrdersOpen, PlanOfCurrent

LEMMA InvStep == BillingInv /\ [Next]_vars => BillingInv'
<1> SUFFICES ASSUME BillingInv, [Next]_vars PROVE BillingInv'
  OBVIOUS
<1>1. ASSUME NEW q \in Requests, RequestStep(q) PROVE BillingInv'
  <2>1. CASE \E p \in Plans : UpgradeLock(q, p)
    BY <2>1, UpgradeLockStep
  <2>2. CASE UpgradeCheck(q) \/ UpgradeCommit(q)
    BY <2>2, UpgradeCheckStep, UpgradeCommitStep
  <2>3. CASE CancelRead(q) \/ CancelCommit(q)
    BY <2>3, CancelReadStep, CancelCommitStep
  <2>4. CASE CashfreeEvent(q)
    BY <2>4, ConfirmStartStep, PaymentFailedStep, RefundStep DEF CashfreeEvent
  <2>5. CASE ConfirmSelect(q) \/ ConfirmCommit(q)
    BY <2>5, ConfirmSelectStep, ConfirmCommitStep
  <2>6. CASE Abort(q)
    BY <2>6, AbortStep
  <2> QED
    BY <1>1, <2>1, <2>2, <2>3, <2>4, <2>5, <2>6 DEF RequestStep
<1>2. CASE \E p \in Payments, pl \in Plans : CreateOrder(p, pl)
  BY <1>2, CreateOrderStep
<1>3. CASE \E e \in StripeEvents, c \in Contents : StripeEvent(e, c)
  BY <1>3, StripeStep
<1>4. CASE UseMore \/ UseLess \/ \E p \in Plans : Withdraw(p)
  BY <1>4, UseStep
<1>5. CASE UNCHANGED vars
  <2>1. TypeOK' /\ PlanOfCurrent'
    BY <1>5 DEF vars, BillingInv, TypeOK, PlanOfCurrent, Current
  <2>2. Confirming' /\ Locking' /\ OrdersOpen'
    BY <1>5 DEF vars, BillingInv, Confirming, Locking, Fits, OrdersOpen, Granted
  <2> QED
    BY <2>1, <2>2 DEF BillingInv
<1> QED
  BY <1>1, <1>2, <1>3, <1>4, <1>5 DEF Next

-----------------------------------------------------------------------------
(* Theorems *)

\* Every state that requests, webhooks and staff reach is well typed.
THEOREM BillingTypeCorrect == Spec => []TypeOK
<1>1. BillingInv => TypeOK
  BY DEF BillingInv
<1> QED
  BY InvInit, InvStep, <1>1, PTL DEF Spec

\* upgrade_plan, confirm_payment and the handlers of Stripe's events leave the organisation
\* with the plan of its current subscription, unless an event of Stripe has parted them.
THEOREM PlanIsCurrent == Spec => []PlanOfCurrent
<1>1. BillingInv => PlanOfCurrent
  BY DEF BillingInv
<1> QED
  BY InvInit, InvStep, <1>1, PTL DEF Spec

\* What a plan change inserts.
LEMMA UpgradeEffect ==
  ASSUME BillingInv, NEW q \in Requests, UpgradeCommit(q)
  PROVE  /\ Fresh \in Subs /\ sub[Fresh].status = "none"
         /\ sub'[Fresh].status = "active" /\ sub'[Fresh].plan = plan'
         /\ \A s \in Subs : s # Fresh /\ sub'[s].status # "none" => sub[s].status # "none"
         /\ plan' \in Plans /\ UNCHANGED used
         /\ Price[plan'] < Price[plan] => Fits(plan')
<1> DEFINE p == request[q].plan
           row == [NoSub EXCEPT !.status = InitialStatus(p), !.plan = p]
<1>1. p \in Plans /\ plan' = p /\ Rows # Subs /\ sub' = Replaced(Current, row) /\ UNCHANGED used
  BY DEF BillingInv, TypeOK, RequestState, UpgradeCommit
<1>2. row \in SubRow /\ row.status = "active" /\ row.plan = p
  BY <1>1, NoSubType DEF UpgradeCommit, InitialStatus, Statuses, SubRow
<1>3. Current \in SUBSET Subs
  BY DEF Current
<1>4. Price[p] < Price[plan] => Fits(p)
  BY DEF BillingInv, Locking, UpgradeCommit
<1> HIDE DEF row
<1>5. /\ Fresh \in Subs \ Rows /\ sub'[Fresh] = row
      /\ \A s \in Subs : s # Fresh /\ s \in Current => sub[s].status # "none"
      /\ \A s \in Subs : s # Fresh /\ s \notin Current => sub'[s] = sub[s]
  BY <1>1, <1>2, <1>3, ReplacedRows DEF BillingInv, Current
<1>6. sub[Fresh].status = "none"
  BY <1>5 DEF Rows
<1> QED
  BY <1>1, <1>2, <1>4, <1>5, <1>6

\* A cancellation has locked a row that exists.
Selected == \A q \in Requests : request[q].pc = "cancelling" => request[q].rows \subseteq Rows

\* No row is ever deleted.
LEMMA RowsStay ==
  ASSUME BillingInv, [Next]_vars
  PROVE  Rows \subseteq Rows'
<1> SUFFICES ASSUME NEW s \in Subs, sub[s].status # "none" PROVE sub'[s].status # "none"
  BY DEF Rows
<1>1. ASSUME NEW q \in Requests, UpgradeCommit(q) PROVE sub'[s].status # "none"
  <2> DEFINE p == request[q].plan
             row == [NoSub EXCEPT !.status = InitialStatus(p), !.plan = p]
  <2>1. p \in Plans /\ Rows # Subs /\ sub' = Replaced(Current, row)
    BY <1>1 DEF BillingInv, TypeOK, RequestState, UpgradeCommit
  <2>2. row \in SubRow
    BY <1>1, <2>1, NoSubType DEF UpgradeCommit, InitialStatus, Statuses, SubRow
  <2>3. Current \in SUBSET Subs /\ TypeOK
    BY DEF Current, BillingInv
  <2> HIDE DEF row
  <2>4. Fresh \in Subs \ Rows /\ (s # Fresh /\ sub'[s].status = "none" => sub[s].status = "none")
    BY <2>1, <2>2, <2>3, ReplacedRows
  <2> QED
    BY <2>4 DEF Rows
<1>2. ASSUME NEW q \in Requests, ConfirmCommit(q) PROVE sub'[s].status # "none"
  <2> PICK p : p = request[q].order
    OBVIOUS
  <2> DEFINE row == ActiveFor(p)
  <2>1. CASE UNCHANGED sub
    BY <2>1
  <2>2. CASE ~UNCHANGED sub
    <3>1. Rows # Subs /\ sub' = Replaced(request[q].rows, row)
      BY <1>2, <2>2 DEF ConfirmCommit
    <3>2. request[q].rows \in SUBSET Subs /\ p \in Payments /\ TypeOK
      BY <1>2 DEF BillingInv, TypeOK, RequestState, Confirming, ConfirmCommit
    <3>3. row \in SubRow
      BY <3>2, NoSubType DEF TypeOK, PaymentRow, ActiveFor, SubRow, Statuses
    <3> HIDE DEF row
    <3>4. Fresh \in Subs \ Rows /\ (s # Fresh /\ sub'[s].status = "none" => sub[s].status = "none")
      BY <3>1, <3>2, <3>3, ReplacedRows
    <3> QED
      BY <3>4 DEF Rows
  <2> QED
    BY <2>1, <2>2
<1>3. ASSUME NEW q \in Requests, CancelCommit(q) PROVE sub'[s].status # "none"
  BY <1>3 DEF CancelCommit, BillingInv, TypeOK, SubRow
<1>4. ASSUME NEW e \in StripeEvents, NEW c \in Contents, StripeEvent(e, c)
      PROVE  sub'[s].status # "none"
  <2>1. \/ UNCHANGED sub
        \/ \E t \in Subs, status \in Statuses : Moved(t, status)
    BY <1>4, StripeEffect DEF BillingInv
  <2> QED
    BY <2>1 DEF Moved, Statuses
<1>5. ASSUME NEW q \in Requests, \/ \E p \in Plans : UpgradeLock(q, p)
                                 \/ UpgradeCheck(q) \/ CancelRead(q) \/ CashfreeEvent(q)
                                 \/ ConfirmSelect(q) \/ Abort(q)
      PROVE  UNCHANGED sub
  BY <1>5 DEF UpgradeLock, UpgradeCheck, CancelRead, CashfreeEvent, ConfirmStart, PaymentFailed,
              RefundSucceeded, RefundFailed, ConfirmSelect, Abort
<1>6. ASSUME \/ \E p \in Payments, pl \in Plans : CreateOrder(p, pl)
             \/ UseMore \/ UseLess \/ (\E p \in Plans : Withdraw(p)) \/ UNCHANGED vars
      PROVE  UNCHANGED sub
  BY <1>6 DEF CreateOrder, UseMore, UseLess, Withdraw, vars
<1> QED
  BY <1>1, <1>2, <1>3, <1>4, <1>5, <1>6 DEF Next, RequestStep

LEMMA SelectedStep == BillingInv /\ Selected /\ [Next]_vars => Selected'
<1> SUFFICES ASSUME BillingInv, Selected, [Next]_vars,
                    NEW q \in Requests, request'[q].pc = "cancelling"
             PROVE  request'[q].rows \subseteq Rows'
  BY DEF Selected
<1>1. CASE request'[q] = request[q]
  BY <1>1, RowsStay DEF Selected
<1>2. ASSUME NEW r \in Requests, request' = [request EXCEPT ![r] = Idle]
      PROVE  request'[q] = request[q]
  BY <1>2, IdleType DEF BillingInv, TypeOK
<1>3. ASSUME NEW r \in Requests, CancelRead(r), request'[q] # request[q]
      PROVE  request'[q].rows \subseteq Rows
  <2>1. request' = [request EXCEPT ![r] = [Idle EXCEPT !.pc = "cancelling",
                                                       !.rows = {Latest(Current)}]]
    BY <1>3 DEF CancelRead
  <2>2. request'[q].rows = {Latest(Current)}
    BY <1>3, <2>1, IdleType DEF BillingInv, TypeOK, RequestState
  <2>3. Latest(Current) \in Current /\ Current \subseteq Rows
    BY <1>3, LatestRow DEF CancelRead, Current, Rows
  <2> QED
    BY <2>2, <2>3
<1>4. ASSUME NEW r \in Requests, NEW p \in Plans, UpgradeLock(r, p)
      PROVE  request'[q] = request[q]
  BY <1>4, IdleType DEF BillingInv, TypeOK, RequestState, UpgradeLock
<1>5. ASSUME NEW r \in Requests, NEW a \in Attempts, ConfirmStart(r, a)
      PROVE  request'[q] = request[q]
  <2>1. CASE UNCHANGED request
    BY <2>1
  <2>2. CASE request' = [request EXCEPT ![r] = [Idle EXCEPT !.pc = "confirming",
                                                   !.order = OrderOf[a], !.attempt = a]]
    BY <2>2, IdleType DEF BillingInv, TypeOK, RequestState
  <2> QED
    BY <1>5, <2>1, <2>2 DEF ConfirmStart
<1>6. ASSUME NEW r \in Requests, UpgradeCheck(r)
      PROVE  request'[q] = request[q]
  BY <1>2, <1>6 DEF BillingInv, TypeOK, RequestState, UpgradeCheck, End
<1>7. ASSUME NEW r \in Requests, ConfirmSelect(r)
      PROVE  request'[q] = request[q]
  BY <1>7 DEF BillingInv, TypeOK, RequestState, ConfirmSelect
<1>8. ASSUME NEW r \in Requests, UpgradeCommit(r) \/ CancelCommit(r) \/ ConfirmCommit(r) \/ Abort(r)
      PROVE  request'[q] = request[q]
  BY <1>2, <1>8 DEF UpgradeCommit, CancelCommit, ConfirmCommit, Abort, End
<1>9. ASSUME \/ \E p \in Payments : PaymentFailed(p)
             \/ \E f \in Refunds : RefundSucceeded(f) \/ RefundFailed(f)
             \/ \E p \in Payments, pl \in Plans : CreateOrder(p, pl)
             \/ UseMore \/ UseLess \/ (\E p \in Plans : Withdraw(p)) \/ UNCHANGED vars
      PROVE  request'[q] = request[q]
  BY <1>9 DEF PaymentFailed, RefundSucceeded, RefundFailed, CreateOrder, UseMore, UseLess,
              Withdraw, vars
<1>10. ASSUME NEW e \in StripeEvents, NEW c \in Contents, StripeEvent(e, c)
       PROVE  request'[q] = request[q]
  BY <1>10, StripeEffect DEF BillingInv
<1>11. CASE \E r \in Requests : CancelRead(r)
  BY <1>1, <1>3, <1>11, RowsStay
<1>12. CASE ~ \E r \in Requests : CancelRead(r)
  BY <1>1, <1>4, <1>5, <1>6, <1>7, <1>8, <1>9, <1>10, <1>12 DEF Next, RequestStep, CashfreeEvent
<1> QED
  BY <1>11, <1>12

\* What the theorems about the plan rest on.
PlanInv == BillingInv /\ Selected

LEMMA PlanInvInit == Init => PlanInv
  BY InvInit, IdleType DEF Init, PlanInv, Selected

LEMMA PlanInvStep == PlanInv /\ [Next]_vars => PlanInv'
  BY InvStep, SelectedStep DEF PlanInv

\* Apart from plan changes, confirmed orders and Stripe's events, nothing changes the plan
\* or inserts a subscription.
LEMMA PlanSteps ==
  ASSUME PlanInv, [Next]_vars
  PROVE  \/ UNCHANGED plan /\ \A s \in Subs : sub'[s].status # "none" => sub[s].status # "none"
         \/ \E q \in Requests : UpgradeCommit(q) \/ ConfirmCommit(q)
         \/ \E e \in StripeEvents, c \in Contents : StripeEvent(e, c)
<1>1. ASSUME NEW q \in Requests, CancelCommit(q)
      PROVE  UNCHANGED plan /\ \A s \in Subs : sub'[s].status # "none" => sub[s].status # "none"
  <2>1. Current \subseteq Rows /\ UNCHANGED plan
    BY <1>1 DEF Current, Rows, CancelCommit, org
  <2>2. request[q].rows \subseteq Rows
    BY <1>1 DEF PlanInv, Selected, CancelCommit
  <2> QED
    BY <1>1, <2>1, <2>2 DEF CancelCommit, Rows
<1>2. ASSUME NEW q \in Requests, \/ \E p \in Plans : UpgradeLock(q, p)
                                 \/ UpgradeCheck(q) \/ CancelRead(q) \/ CashfreeEvent(q)
                                 \/ ConfirmSelect(q) \/ Abort(q)
      PROVE  UNCHANGED <<plan, sub>>
  BY <1>2 DEF UpgradeLock, UpgradeCheck, CancelRead, CashfreeEvent, ConfirmStart, PaymentFailed,
              RefundSucceeded, RefundFailed, ConfirmSelect, Abort, org
<1>3. ASSUME \/ \E p \in Payments, pl \in Plans : CreateOrder(p, pl)
             \/ UseMore \/ UseLess \/ (\E p \in Plans : Withdraw(p)) \/ UNCHANGED vars
      PROVE  UNCHANGED <<plan, sub>>
  BY <1>3 DEF CreateOrder, UseMore, UseLess, Withdraw, vars, org
<1> QED
  BY <1>1, <1>2, <1>3 DEF Next, RequestStep

\* handle_stripe_event, upgrade_plan and handle_payment_success change the plan only in the
\* step that makes a subscription of the new plan active, or sets the free one as a
\* subscription, current or not, becomes cancelled.
THEOREM PlanMoves == Spec => PlanMovesWithSubscription
<1> DEFINE Moves1 ==
      plan' # plan =>
         \E s \in Subs :
            \/ /\ sub[s].status # "active" /\ sub'[s].status = "active"
               /\ sub'[s].plan = plan'
            \/ /\ plan' = Free
               /\ sub[s].status # "cancelled" /\ sub'[s].status = "cancelled"
<1>1. ASSUME PlanInv, [Next]_vars PROVE Moves1
  <2>1. ASSUME NEW q \in Requests, UpgradeCommit(q) PROVE Moves1
    BY <1>1, <2>1, UpgradeEffect DEF PlanInv
  <2>2. ASSUME NEW q \in Requests, ConfirmCommit(q) PROVE Moves1
    BY <1>1, <2>2, ConfirmCommitEffect DEF PlanInv
  <2>3. ASSUME NEW e \in StripeEvents, NEW c \in Contents, StripeEvent(e, c) PROVE Moves1
    <3>1. \/ UNCHANGED plan
          \/ \E s \in Subs, status \in Statuses : Moved(s, status) /\ PlanFollows(s, status)
      BY <1>1, <2>3, StripeEffect DEF PlanInv, BillingInv
    <3>2. ASSUME NEW s \in Subs, NEW status \in Statuses, Moved(s, status),
                 PlanFollows(s, status)
          PROVE  Moves1
      BY <3>2 DEF Moved, PlanFollows, ValidTransitions
    <3> QED
      BY <3>1, <3>2
  <2> QED
    BY <1>1, <2>1, <2>2, <2>3, PlanSteps
<1> QED
  BY PlanInvInit, PlanInvStep, <1>1, PTL DEF Spec, PlanMovesWithSubscription

\* A request that moves the organisation to a free plan moves it to one that what it has
\* fits, whatever domains and agents are created meanwhile.
THEOREM DowngradeChecked == Spec => DowngradeFits
<1> DEFINE Down(s) == /\ sub[s].status = "none" /\ sub'[s].status # "none"
                      /\ Price[sub'[s].plan] = 0 /\ Price[plan] > 0
           FitsAfter == Quota[plan'] = Unlimited \/ used' <= Quota[plan']
<1>1. ASSUME PlanInv, [Next]_vars, NEW s \in Subs, Down(s) PROVE FitsAfter
  <2>1. ASSUME NEW q \in Requests, UpgradeCommit(q) PROVE FitsAfter
    BY <1>1, <2>1, UpgradeEffect, ConstantsAssumption DEF PlanInv, Fits
  <2>2. ASSUME NEW q \in Requests, ConfirmCommit(q) PROVE FALSE
    BY <1>1, <2>2, ConfirmCommitEffect DEF PlanInv
  <2>3. ASSUME NEW e \in StripeEvents, NEW c \in Contents, StripeEvent(e, c) PROVE FALSE
    <3>1. \/ UNCHANGED sub
          \/ \E t \in Subs, status \in Statuses : Moved(t, status)
      BY <1>1, <2>3, StripeEffect DEF PlanInv, BillingInv
    <3> QED
      BY <1>1, <3>1 DEF Moved
  <2> QED
    BY <1>1, <2>1, <2>2, <2>3, PlanSteps
<1>2. PlanInv /\ [Next]_vars => [\A s \in Subs : Down(s) => FitsAfter]_vars
  BY <1>1
<1> QED
  BY PlanInvInit, PlanInvStep, <1>2, PTL DEF Spec, DowngradeFits

-----------------------------------------------------------------------------
(* Refinement *)

\* As PaymentOrders sees it, a step that leaves the payments, the ledger and the orders of
\* the subscriptions alone is no step.
LEMMA OrdersStutter ==
  ASSUME UNCHANGED <<payment, booked, returned>>,
         \A s \in Subs : sub'[s].order = sub[s].order
  PROVE  UNCHANGED Orders!vars
<1>1. \A p \in Payments : Granted(p)' = Granted(p)
  BY DEF Granted
<1> QED
  BY <1>1 DEF Orders!vars

LEMMA OrdersInit == Init => Orders!Init
<1> SUFFICES ASSUME Init PROVE Orders!Init
  OBVIOUS
<1>1. \A p \in Payments : Granted(p) = {}
  BY NoSubType, ConstantsAssumption DEF Init, Granted
<1>2. \A p \in Payments : payment[p] = NoPayment
  BY DEF Init
<1>3. NoPayment.plan \in DOMAIN Price
  BY ConstantsAssumption DEF NoPayment
<1> QED
  BY <1>1, <1>2, <1>3, NoPaymentType DEF Init, Orders!Init

LEMMA OrdersStep == PlanInv /\ [Next]_vars => [Orders!Next]_(Orders!vars)
<1> SUFFICES ASSUME PlanInv, [Next]_vars PROVE Orders!Next \/ UNCHANGED Orders!vars
  OBVIOUS
<1> USE DEF PlanInv
<1>1. ASSUME NEW p \in Payments, NEW pl \in Plans, CreateOrder(p, pl) PROVE Orders!Place(p)
  <2>1. /\ payment[p].status = "none" /\ payment[p].refunded = 0
        /\ payment' = [payment EXCEPT ![p] = [NoPayment EXCEPT !.status = "pending", !.plan = pl]]
        /\ UNCHANGED <<sub, booked, returned>>
    BY <1>1 DEF CreateOrder, BillingInv, OrdersOpen, ledger
  <2>2. /\ payment'[p].status = "pending" /\ payment'[p].plan = pl /\ payment'[p].refunded = 0
        /\ \A o \in Payments : o # p => payment'[o] = payment[o]
    BY <2>1, NoPaymentType DEF BillingInv, TypeOK, PaymentRow
  <2>3. \A o \in Payments : Granted(o)' = Granted(o)
    BY <2>1 DEF Granted
  <2>4. pl \in DOMAIN Price
    BY ConstantsAssumption
  <2>5. [o \in Payments |-> payment'[o].status]
           = [[o \in Payments |-> payment[o].status] EXCEPT ![p] = "pending"]
    BY <2>2
  <2>6. [o \in Payments |-> payment'[o].plan]
           = [[o \in Payments |-> payment[o].plan] EXCEPT ![p] = pl]
    BY <2>2
  <2>7. /\ [o \in Payments |-> payment'[o].refunded] = [o \in Payments |-> payment[o].refunded]
        /\ [o \in Payments |-> Granted(o)'] = [o \in Payments |-> Granted(o)]
    BY <2>1, <2>2, <2>3
  <2> QED
    BY <2>1, <2>4, <2>5, <2>6, <2>7 DEF Orders!Place
<1>2. ASSUME NEW q \in Requests, ConfirmCommit(q), NEW p, p = request[q].order
      PROVE  p \in Payments /\ Orders!Complete(p)
  <2>1. /\ p \in Payments /\ payment[p].status = "pending"
        /\ booked[p] = 0 /\ Granted(p) = {}
    BY <1>2 DEF BillingInv, Confirming, OrdersOpen, ConfirmCommit
  <2>2. /\ payment' = [payment EXCEPT ![p].status = "completed"]
        /\ booked' = [booked EXCEPT ![p] = booked[p] + 1] /\ UNCHANGED returned
    BY <1>2 DEF ConfirmCommit
  <2>3. /\ payment'[p].status = "completed" /\ payment'[p].plan = payment[p].plan
        /\ payment'[p].refunded = payment[p].refunded
        /\ \A o \in Payments : o # p => payment'[o] = payment[o]
    BY <2>1, <2>2 DEF BillingInv, TypeOK, PaymentRow
  <2>4. /\ \A o \in Payments : o # p => Granted(o)' = Granted(o)
        /\ Granted(p)' = Granted(p) \/ \E s \in Subs : Granted(p)' = {s}
    BY <1>2, <2>1, ConfirmCommitEffect
  <2>5. [o \in Payments |-> payment'[o].status]
           = [[o \in Payments |-> payment[o].status] EXCEPT ![p] = "completed"]
    BY <2>3
  <2>6. /\ [o \in Payments |-> payment'[o].plan] = [o \in Payments |-> payment[o].plan]
        /\ [o \in Payments |-> payment'[o].refunded] = [o \in Payments |-> payment[o].refunded]
    BY <2>3
  <2>7. \/ [o \in Payments |-> Granted(o)'] = [o \in Payments |-> Granted(o)]
        \/ \E s \in Subs : [o \in Payments |-> Granted(o)']
                              = [[o \in Payments |-> Granted(o)] EXCEPT ![p] = {s}]
    <3>1. CASE Granted(p)' = Granted(p)
      <4>1. \A o \in Payments : Granted(o)' = Granted(o)
        BY <2>4, <3>1
      <4> QED
        BY <4>1
    <3>2. ASSUME NEW s \in Subs, Granted(p)' = {s}
          PROVE  [o \in Payments |-> Granted(o)']
                    = [[o \in Payments |-> Granted(o)] EXCEPT ![p] = {s}]
      BY <2>4, <3>2
    <3> QED
      BY <2>4, <3>1, <3>2
  <2> QED
    BY <2>1, <2>2, <2>5, <2>6, <2>7 DEF Orders!Complete
<1>3. ASSUME NEW p \in Payments, PaymentFailed(p) PROVE Orders!Fail(p)
  <2>1. /\ payment[p].status = "pending"
        /\ payment' = [payment EXCEPT ![p].status = "failed"]
        /\ UNCHANGED <<sub, booked, returned>>
    BY <1>3 DEF PaymentFailed, ledger
  <2>2. /\ payment'[p].status = "failed" /\ payment'[p].plan = payment[p].plan
        /\ payment'[p].refunded = payment[p].refunded
        /\ \A o \in Payments : o # p => payment'[o] = payment[o]
    BY <2>1 DEF BillingInv, TypeOK, PaymentRow
  <2>3. \A o \in Payments : Granted(o)' = Granted(o)
    BY <2>1 DEF Granted
  <2>4. [o \in Payments |-> payment'[o].status]
           = [[o \in Payments |-> payment[o].status] EXCEPT ![p] = "failed"]
    BY <2>2
  <2>5. /\ [o \in Payments |-> payment'[o].plan] = [o \in Payments |-> payment[o].plan]
        /\ [o \in Payments |-> payment'[o].refunded] = [o \in Payments |-> payment[o].refunded]
        /\ [o \in Payments |-> Granted(o)'] = [o \in Payments |-> Granted(o)]
    BY <2>2, <2>3
  <2> QED
    BY <2>1, <2>4, <2>5 DEF Orders!Fail
<1>4. ASSUME NEW r \in Refunds, RefundSucceeded(r)
      PROVE  Orders!Return(r) \/ UNCHANGED Orders!vars
  <2> DEFINE p == RefundOf[r].order
             a == RefundOf[r].amount
  <2>1. p \in Payments /\ UNCHANGED <<sub, booked>>
    BY <1>4, ConstantsAssumption DEF RefundSucceeded
  <2>2. CASE UNCHANGED <<payment, returned>>
    BY <2>1, <2>2, OrdersStutter
  <2>3. CASE ~UNCHANGED <<payment, returned>>
    <3>1. /\ payment[p].status # "none"
          /\ payment[p].refunded + a <= Price[payment[p].plan]
          /\ payment' = [payment EXCEPT ![p].refunded = payment[p].refunded + a]
          /\ returned' = returned \cup {r}
      BY <1>4, <2>3 DEF RefundSucceeded
    <3>2. r \notin returned
      BY <1>4 DEF RefundSucceeded, NewEvent, BillingInv, OrdersOpen
    <3>3. /\ payment'[p].refunded = payment[p].refunded + a
          /\ payment'[p].status = payment[p].status /\ payment'[p].plan = payment[p].plan
          /\ \A o \in Payments : o # p => payment'[o] = payment[o]
      BY <2>1, <3>1 DEF BillingInv, TypeOK, PaymentRow
    <3>4. \A o \in Payments : Granted(o)' = Granted(o)
      BY <2>1 DEF Granted
    <3> QED
      BY <2>1, <3>1, <3>2, <3>3, <3>4 DEF Orders!Return
  <2> QED
    BY <2>2, <2>3
<1>5. ASSUME NEW q \in Requests, UpgradeCommit(q) PROVE UNCHANGED Orders!vars
  <2> DEFINE p == request[q].plan
             row == [NoSub EXCEPT !.status = InitialStatus(p), !.plan = p]
  <2>1. /\ p \in Plans /\ Rows # Subs /\ sub' = Replaced(Current, row)
        /\ UNCHANGED <<payment, booked, returned>>
    BY <1>5 DEF BillingInv, TypeOK, RequestState, UpgradeCommit, ledger
  <2>2. row \in SubRow /\ row.order = Nobody
    BY <1>5, <2>1, NoSubType DEF UpgradeCommit, InitialStatus, Statuses, SubRow
  <2>3. Current \in SUBSET Subs /\ TypeOK
    BY DEF Current, BillingInv
  <2> HIDE DEF row
  <2>4. /\ Fresh \in Subs \ Rows /\ sub'[Fresh] = row
        /\ \A s \in Subs : s # Fresh => sub'[s].order = sub[s].order
    BY <2>1, <2>2, <2>3, ReplacedRows
  <2>5. sub[Fresh].order = Nobody
    BY <2>4 DEF BillingInv, OrdersOpen, Rows
  <2> QED
    BY <2>1, <2>2, <2>4, <2>5, OrdersStutter
<1>6. ASSUME NEW q \in Requests, CancelCommit(q) PROVE UNCHANGED Orders!vars
  <2>1. \A s \in Subs : sub'[s].order = sub[s].order
    BY <1>6 DEF CancelCommit, BillingInv, TypeOK, SubRow
  <2> QED
    BY <1>6, <2>1, OrdersStutter DEF CancelCommit, ledger
<1>7. ASSUME NEW e \in StripeEvents, NEW c \in Contents, StripeEvent(e, c)
      PROVE  UNCHANGED Orders!vars
  <2>1. /\ UNCHANGED <<payment, ledger>>
        /\ \/ UNCHANGED sub
           \/ \E s \in Subs, status \in Statuses : Moved(s, status)
    BY <1>7, StripeEffect DEF BillingInv
  <2>2. \A s \in Subs : sub'[s].order = sub[s].order
    BY <2>1 DEF Moved
  <2> QED
    BY <2>1, <2>2, OrdersStutter DEF ledger
<1>8. ASSUME \/ \E q \in Requests : \/ \E p \in Plans : UpgradeLock(q, p)
                                    \/ \E a \in Attempts : ConfirmStart(q, a)
                                    \/ UpgradeCheck(q) \/ CancelRead(q)
                                    \/ ConfirmSelect(q) \/ Abort(q)
             \/ \E r \in Refunds : RefundFailed(r)
             \/ UseMore \/ UseLess \/ (\E p \in Plans : Withdraw(p)) \/ UNCHANGED vars
      PROVE  UNCHANGED Orders!vars
  <2>1. UNCHANGED <<payment, sub, booked, returned>>
    BY <1>8 DEF UpgradeLock, ConfirmStart, UpgradeCheck, CancelRead, ConfirmSelect, Abort,
                RefundFailed, UseMore, UseLess, Withdraw, vars, ledger
  <2> QED
    BY <2>1, OrdersStutter
<1>9. CASE \E q \in Requests : ConfirmCommit(q)
  BY <1>2, <1>9 DEF Orders!Next
<1>10. CASE ~ \E q \in Requests : ConfirmCommit(q)
  BY <1>1, <1>3, <1>4, <1>5, <1>6, <1>7, <1>8, <1>10
  DEF Next, RequestStep, CashfreeEvent, Orders!Next
<1> QED
  BY <1>9, <1>10

\* However often, late or out of order Cashfree reports, each order is completed or failed
\* once, books one payment, grants at most one subscription, and repays no more than it cost.
THEOREM OrdersImplemented == Spec => ImplementsOrders
  BY PlanInvInit, PlanInvStep, OrdersInit, OrdersStep, PTL
  DEF Spec, ImplementsOrders, Orders!Spec
=============================================================================
