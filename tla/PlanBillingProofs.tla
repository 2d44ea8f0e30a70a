------------------------- MODULE PlanBillingProofs -------------------------
(***************************************************************************)
(* Theorems about buying a plan, for any number of orders, of calls that   *)
(* work on them at once, of days, changes and failures.                    *)
(***************************************************************************)
EXTENDS PlanBilling, FiniteSetTheorems, TLAPS

USE BillingAssumption

(* The steps by the variables they leave alone.                            *)
Bills(o) == CreateOrder(o) \/ Decline(o) \/ Pay(o) \/ Refund(o)
Quiet == People \/ Clock \/ UNCHANGED vars

LEMMA Steps ==
  ASSUME [Next]_vars
  PROVE  \/ \E k \in Calls, o \in Orders : Verify(k, o) \/ Import(k, o)
         \/ \E k \in Calls, e \in events : HookPaid(k, e) \/ HookRefund(k, e)
         \/ \E k \in Calls : CallStep(k)
         \/ \E o \in Orders : Bills(o)
         \/ \E e \in events : HookFailed(e) \/ Lose(e)
         \/ Quiet
  BY DEF Next, Arrive, Razorpay, Bills, Quiet
-----------------------------------------------------------------------------
(* Types.                                                                  *)
Money == /\ bill \in [Orders -> Order]
         /\ row \in [Orders -> Payment]
         /\ failed \in [Orders -> [Attempts -> Payment]]
         /\ redeemed \in Nat
         /\ redemption \subseteq Orders
         /\ events \subseteq Event
         /\ granted \in [Orders -> Nat]
Called == call \in [Calls -> Handling]
Planned == /\ sub \in Subscription
           /\ orgPlan \in AnyPlan
           /\ clerk \in Clerk
           /\ cron \in BOOLEAN
           /\ gate \subseteq {"status", "planType"}
           /\ time \in 0 .. MaxTime
           /\ raced \in BOOLEAN
Bounded == ops \in 0 .. MaxOps /\ upsets \in 0 .. MaxUpsets

LEMMA TypeParts == TypeOK <=> Money /\ Called /\ Planned /\ Bounded
  BY DEF TypeOK, Money, Called, Planned, Bounded

LEMMA BoundedStep ==
  ASSUME Bounded, [Next]_vars
  PROVE  Bounded'
<1>1. \/ UNCHANGED bounds
      \/ Operation /\ UNCHANGED upsets
      \/ Upset /\ UNCHANGED ops
  BY Steps DEF bounds, Bills, CallStep, Quiet, People, Clock, CreateOrder, Decline,
     Pay, Refund, Verify, Import, HookPaid, HookRefund, HookFailed, Lose, Look,
     Activate, Redeem, FindPayment, WriteRefund, CallFails, Cancel, Resume, Assign,
     Revoke, WritePlanType, ReadEnd, Extend, CronList, CronExpire, CronFails,
     GateRead, GateStatus, GatePlanType, Tick, vars
<1> QED
  BY <1>1 DEF Bounded, bounds, Operation, Upset

LEMMA Dayed == \A p \in AnyPlan : Days[p] \in Nat
  BY DEF AnyPlan

(* A call goes from one place to another.                                  *)
LEMMA CallMoves ==
  ASSUME Called, NEW k \in Calls, NEW h \in Handling, call' = [call EXCEPT ![k] = h]
  PROVE  Called'
  BY DEF Called

LEMMA CallReturns ==
  ASSUME Called, NEW k \in Calls, Return(k)
  PROVE  Called'
<1>1. NoCall \in Handling
  BY DEF NoCall, Handling, Statuses
<1> QED
  BY <1>1, CallMoves DEF Return

LEMMA CallBegins ==
  ASSUME Called, NEW k \in Calls, NEW o \in Orders, NEW total \in 0 .. Price,
         NEW place \in {"look", "refund"}, Begin(k, place, o, total)
  PROVE  Called'
<1>1. [NoCall EXCEPT !.at = place, !.bill = o, !.total = total] \in Handling
  BY DEF NoCall, Handling, Statuses
<1> QED
  BY <1>1, CallMoves DEF Begin

LEMMA CallPlaces ==
  ASSUME Called, NEW k \in Calls,
         NEW place \in {"look", "activate", "redeem", "refund", "amount"},
         call' = [call EXCEPT ![k].at = place]
  PROVE  Called'
  BY DEF Called, Handling

LEMMA CallSince ==
  ASSUME Called, NEW k \in Calls, NEW place \in {"look", "activate", "redeem"},
         NEW t \in Nat, call' = [call EXCEPT ![k].at = place, ![k].since = t]
  PROVE  Called'
  BY DEF Called, Handling

LEMMA CallRecorded ==
  ASSUME Called, NEW k \in Calls, AfterRecord(k)
  PROVE  Called'
  BY CallPlaces, CallReturns DEF AfterRecord

(* The row that a refund is written to.                                    *)
LEMMA PaymentTyped ==
  ASSUME TypeOK, NEW o \in Orders
  PROVE  /\ PaymentOf(o) \in Payment
         /\ Blocked(o) => bill[o].by \in Attempts
<1>1. bill[o].by \in Attempts \cup {NoAttempt}
  BY DEF TypeOK, Order
<1> QED
  BY <1>1 DEF TypeOK, PaymentOf, Blocked

(* A call that is under way has an order.                                  *)
Busy == \A k \in Calls : call[k].at # "idle" => call[k].bill \in Orders

(* An order that is paid was paid by an attempt.                           *)
Captured == \A o \in Orders : bill[o].status = "paid" => bill[o].by # NoAttempt

LEMMA CalledStep ==
  ASSUME TypeOK, Busy, [Next]_vars
  PROVE  Called'
<1> USE TypeParts
<1>1. ASSUME NEW k \in Calls, NEW o \in Orders, Verify(k, o) PROVE Called'
  BY <1>1, CallBegins DEF Verify
<1>2. ASSUME NEW k \in Calls, NEW o \in Orders, Import(k, o) PROVE Called'
  <2>1. bill[o].refund \in 0 .. Price
    BY DEF TypeOK, Order
  <2> QED
    BY <1>2, <2>1, CallBegins DEF Import
<1>3. ASSUME NEW k \in Calls, NEW e \in events, HookPaid(k, e) \/ HookRefund(k, e)
      PROVE  Called'
  <2>1. e.bill \in Orders /\ e.total \in 0 .. Price
    BY DEF TypeOK, Event
  <2> QED
    BY <1>3, <2>1, CallBegins DEF HookPaid, HookRefund
<1>4. ASSUME NEW k \in Calls, CallStep(k) PROVE Called'
  <2>1. CASE Look(k)
    <3>1. time \in Nat
      BY DEF TypeOK
    <3> QED
      BY <2>1, <3>1, CallRecorded, CallSince DEF Look
  <2>2. CASE Activate(k)
    BY <2>2, CallSince DEF Activate
  <2>3. CASE Redeem(k)
    BY <2>3, CallRecorded DEF Redeem
  <2>4. CASE FindPayment(k)
    <3>1. call[k].bill \in Orders
      BY <2>4 DEF FindPayment, Busy
    <3>2. PaymentOf(call[k].bill).status \in Statuses
      BY <3>1, PaymentTyped DEF Payment
    <3>3. CASE PaymentOf(call[k].bill).status # "none"
      BY <2>4, <3>2, <3>3 DEF FindPayment, Called, Handling
    <3>4. CASE PaymentOf(call[k].bill).status = "none"
      BY <2>4, <3>4, CallReturns DEF FindPayment
    <3> QED
      BY <3>3, <3>4
  <2>5. CASE WriteRefund(k) \/ CallFails(k)
    BY <2>5, CallReturns DEF WriteRefund, CallFails
  <2> QED
    BY <1>4, <2>1, <2>2, <2>3, <2>4, <2>5 DEF CallStep
<1>5. ASSUME UNCHANGED call PROVE Called'
  BY <1>5 DEF Called
<1>6. ASSUME NEW o \in Orders, Bills(o) PROVE Called'
  BY <1>5, <1>6 DEF Bills, CreateOrder, Decline, Pay, Refund
<1>7. ASSUME NEW e \in events, HookFailed(e) \/ Lose(e) PROVE Called'
  BY <1>5, <1>7 DEF HookFailed, Lose
<1>8. CASE Quiet
  BY <1>5, <1>8 DEF Quiet, People, Clock, Cancel, Resume, Assign, Revoke,
     WritePlanType, ReadEnd, Extend, CronList, CronExpire, CronFails, GateRead,
     GateStatus, GatePlanType, Tick, vars
<1> QED
  BY Steps, <1>1, <1>2, <1>3, <1>4, <1>6, <1>7, <1>8

LEMMA PlannedGrants ==
  ASSUME NEW p \in AnyPlan, NEW since \in Nat, Grant(p, since + Days[p])
  PROVE  sub' \in Subscription
  BY Dayed DEF Grant, Subscription

LEMMA PlannedStep ==
  ASSUME TypeOK, Busy, [Next]_vars
  PROVE  Planned'
<1>0. Planned /\ time \in Nat
  BY TypeParts DEF Planned
<1>1. ASSUME UNCHANGED <<time, plan, others, raced>> PROVE Planned'
  BY <1>0, <1>1 DEF Planned, plan, others
<1>2. ASSUME NEW k \in Calls, NEW o \in Orders, Verify(k, o) \/ Import(k, o) PROVE Planned'
  BY <1>1, <1>2 DEF Verify, Import, ghosts
<1>3. ASSUME NEW k \in Calls, NEW e \in events, HookPaid(k, e) \/ HookRefund(k, e)
      PROVE  Planned'
  BY <1>1, <1>3 DEF HookPaid, HookRefund, ghosts
<1>4. ASSUME NEW k \in Calls, Activate(k) PROVE Planned'
  <2>1. call[k].bill \in Orders /\ call[k].since \in Nat
    BY <1>4 DEF Activate, Busy, TypeOK, Handling
  <2>2. bill[call[k].bill].plan \in AnyPlan
    BY <2>1 DEF TypeOK, Order
  <2>3. CASE Insertable(call[k].bill)
    <3>1. sub' \in Subscription
      BY <1>4, <2>1, <2>2, <2>3, PlannedGrants DEF Activate
    <3>2. orgPlan' \in AnyPlan /\ raced' \in BOOLEAN /\ UNCHANGED <<time, others>>
      BY <1>4, <2>2, <2>3 DEF Activate, Grant
    <3> QED
      BY <1>0, <3>1, <3>2 DEF Planned, others
  <2>4. CASE ~Insertable(call[k].bill)
    BY <1>1, <1>4, <2>4 DEF Activate, ghosts
  <2> QED
    BY <2>3, <2>4
<1>5. ASSUME NEW k \in Calls, CallStep(k), ~Activate(k) PROVE Planned'
  BY <1>1, <1>5 DEF CallStep, Look, Redeem, FindPayment, WriteRefund, CallFails, ghosts
<1>6. ASSUME NEW o \in Orders, Bills(o) PROVE Planned'
  BY <1>1, <1>6 DEF Bills, CreateOrder, Decline, Pay, Refund, ghosts
<1>7. ASSUME NEW e \in events, HookFailed(e) \/ Lose(e) PROVE Planned'
  BY <1>1, <1>7 DEF HookFailed, Lose, ghosts
<1>8. CASE Assign
  <2>1. PICK p \in AnyPlan : /\ Grant(p, time + Days[p])
                             /\ clerk' = [Resting EXCEPT !.at = "planType", !.plan = p]
    BY <1>8 DEF Assign
  <2>2. sub' \in Subscription /\ raced' \in BOOLEAN
    BY <1>0, <2>1, PlannedGrants DEF Grant
  <2>3. clerk' \in Clerk
    BY <2>1 DEF Resting, Clerk
  <2> QED
    BY <1>0, <1>8, <2>2, <2>3 DEF Assign, Planned
<1>9. CASE Extend \/ ReadEnd
  <2>1. sub \in Subscription /\ clerk \in Clerk
    BY <1>0 DEF Planned
  <2>2. CASE Extend
    <3>1. sub' \in Subscription /\ clerk' \in Clerk /\ raced' \in BOOLEAN
      BY <2>1, <2>2 DEF Extend, Subscription, Clerk, Resting, AnyPlan
    <3> QED
      BY <1>0, <2>2, <3>1 DEF Extend, Planned
  <2>3. CASE ReadEnd
    <3>1. (IF Ended THEN time ELSE sub.end) + 1 \in Nat
      BY <1>0, <2>1 DEF Subscription
    <3>2. clerk' \in Clerk
      BY <2>3, <3>1 DEF ReadEnd, Clerk, Resting, AnyPlan
    <3> QED
      BY <1>0, <2>3, <3>2 DEF ReadEnd, Planned, plan, ghosts
  <2> QED
    BY <1>9, <2>2, <2>3
<1>10. CASE Cancel \/ Resume \/ Revoke \/ WritePlanType
  <2>1. sub' \in Subscription
    BY <1>0, <1>10 DEF Planned, Subscription, Cancel, Resume, Revoke, WritePlanType
  <2>2. clerk' \in Clerk
    BY <1>0, <1>10 DEF Planned, Clerk, Resting, AnyPlan, Cancel, Resume, Revoke,
       WritePlanType, others
  <2>3. orgPlan' \in AnyPlan
    BY <1>0, <1>10 DEF Planned, Clerk, Cancel, Resume, Revoke, WritePlanType
  <2>4. raced' \in BOOLEAN /\ UNCHANGED <<time, cron, gate>>
    BY <1>0, <1>10 DEF Planned, Cancel, Resume, Revoke, WritePlanType, others, ghosts
  <2> QED
    BY <1>0, <2>1, <2>2, <2>3, <2>4 DEF Planned
<1>11. CASE CronList \/ CronExpire \/ CronFails \/ GateRead \/ GateStatus \/ GatePlanType
  <2>1. sub' \in Subscription /\ orgPlan' \in AnyPlan
    BY <1>0, <1>11 DEF Planned, Subscription, AnyPlan, CronList, CronExpire, CronFails,
       GateRead, GateStatus, GatePlanType, plan
  <2>2. cron' \in BOOLEAN /\ gate' \subseteq {"status", "planType"}
    BY <1>0, <1>11 DEF Planned, CronList, CronExpire, CronFails, GateRead,
       GateStatus, GatePlanType
  <2>3. UNCHANGED <<time, clerk, raced>>
    BY <1>11 DEF CronList, CronExpire, CronFails, GateRead, GateStatus, GatePlanType, ghosts
  <2> QED
    BY <1>0, <2>1, <2>2, <2>3 DEF Planned
<1>12. CASE Tick
  BY <1>0, <1>12 DEF Tick, Planned, plan, others, ghosts
<1>13. CASE UNCHANGED vars
  BY <1>1, <1>13 DEF vars, ghosts
<1> QED
  BY Steps, <1>2, <1>3, <1>4, <1>5, <1>6, <1>7, <1>8, <1>9, <1>10, <1>11, <1>12, <1>13
     DEF Quiet, People, Clock
LEMMA MoneyStep ==
  ASSUME TypeOK, Busy, Captured, [Next]_vars
  PROVE  Money'
<1>0. Money
  BY TypeParts
<1>1. ASSUME UNCHANGED <<money, granted>> PROVE Money'
  BY <1>0, <1>1 DEF Money, money
<1>2. ASSUME events' \subseteq events, UNCHANGED <<bill, row, redeemed, redemption, granted>>,
             failed' \in [Orders -> [Attempts -> Payment]]
      PROVE  Money'
  BY <1>0, <1>2 DEF Money
<1>3. ASSUME NEW k \in Calls, NEW o \in Orders, Verify(k, o) \/ Import(k, o) PROVE Money'
  BY <1>1, <1>3 DEF Verify, Import, ghosts
<1>4. ASSUME NEW k \in Calls, NEW e \in events, HookPaid(k, e) \/ HookRefund(k, e)
      PROVE  Money'
  BY <1>0, <1>2, <1>4 DEF HookPaid, HookRefund, ghosts, Money
<1>5. ASSUME NEW k \in Calls, CallStep(k) PROVE Money'
  <2>1. CASE Look(k) \/ FindPayment(k) \/ CallFails(k)
    BY <1>1, <2>1 DEF Look, FindPayment, CallFails, ghosts
  <2>2. CASE Activate(k)
    <3>1. CASE Insertable(call[k].bill)
      <4>1. row' \in [Orders -> Payment] /\ granted' \in [Orders -> Nat]
        <5>1. [status |-> "SUCCESS", refunded |-> 0] \in Payment
          BY DEF Payment, Statuses
        <5>2. granted' \in [Orders -> Nat]
          BY <1>0, <2>2, <3>1 DEF Activate, Money
        <5>3. row' \in [Orders -> Payment]
          BY <1>0, <2>2, <3>1, <5>1 DEF Activate, Money
        <5> QED
          BY <5>2, <5>3
      <4> QED
        BY <1>0, <2>2, <4>1 DEF Activate, Money
    <3>2. CASE ~Insertable(call[k].bill)
      BY <1>1, <2>2, <3>2 DEF Activate, ghosts, money
    <3> QED
      BY <3>1, <3>2
  <2>3. CASE Redeem(k)
    <3>1. call[k].bill \in Orders
      BY <2>3 DEF Redeem, Busy
    <3> QED
      BY <1>0, <2>3, <3>1 DEF Redeem, Money, ghosts
  <2>4. CASE WriteRefund(k)
    <3>1. call[k] \in Handling
      BY DEF TypeOK
    <3>2. RefundedRow(call[k].total, call[k].status) \in Payment
      BY <3>1 DEF RefundedRow, Handling, Payment, Statuses
    <3>3. CASE Blocked(call[k].bill)
      <4>1. call[k].bill \in Orders /\ bill[call[k].bill].by \in Attempts
        BY <2>4, <3>3, PaymentTyped DEF WriteRefund, Busy
      <4> DEFINE r == RefundedRow(call[k].total, call[k].status)
                 o == call[k].bill
      <4>2. failed' = [failed EXCEPT ![o] = [@ EXCEPT ![bill[o].by] = r]] /\ UNCHANGED row
        BY <2>4, <3>3 DEF WriteRefund
      <4>3. [failed[o] EXCEPT ![bill[o].by] = r] \in [Attempts -> Payment]
        BY <1>0, <3>2, <4>1 DEF Money
      <4> HIDE DEF r, o
      <4>4. failed' \in [Orders -> [Attempts -> Payment]]
        BY <1>0, <4>2, <4>3 DEF Money
      <4> QED
        BY <1>0, <2>4, <4>2, <4>4 DEF WriteRefund, Money, ghosts
    <3>4. CASE ~Blocked(call[k].bill)
      <4>1. row' \in [Orders -> Payment] /\ UNCHANGED failed
        BY <1>0, <2>4, <3>2, <3>4 DEF WriteRefund, Money
      <4> QED
        BY <1>0, <2>4, <4>1 DEF WriteRefund, Money, ghosts
    <3> QED
      BY <3>3, <3>4
  <2> QED
    BY <1>5, <2>1, <2>2, <2>3, <2>4 DEF CallStep
<1>6. ASSUME NEW o \in Orders, Bills(o) PROVE Money'
  <2>1. ASSUME NEW kinds \in SUBSET EventKinds, NEW a \in Attempts,
               NEW total \in 0 .. Price, Announce(kinds, o, a, total)
        PROVE  events' \subseteq Event
    <3>1. [kind : kinds, bill : {o}, by : {a}, total : {total}] \subseteq Event
      BY DEF Event
    <3> QED
      BY <1>0, <2>1, <3>1 DEF Announce, Money
  <2>2. CASE CreateOrder(o)
    BY <1>0, <2>2 DEF CreateOrder, Money, Order, AnyPlan, ghosts
  <2>3. CASE Decline(o)
    <3>1. {"payment.failed"} \in SUBSET EventKinds /\ 0 \in 0 .. Price
      BY DEF EventKinds
    <3>2. events' \subseteq Event
      BY <2>1, <2>3, <3>1 DEF Decline
    <3> QED
      BY <1>0, <2>3, <3>2 DEF Decline, Money, ghosts
  <2>4. CASE Pay(o)
    <3>1. {"payment.captured", "order.paid"} \in SUBSET EventKinds /\ 0 \in 0 .. Price
      BY DEF EventKinds
    <3>2. PICK a \in Attempts :
            /\ bill' = [bill EXCEPT ![o].status = "paid", ![o].by = a]
            /\ Announce({"payment.captured", "order.paid"}, o, a, 0)
      BY <2>4 DEF Pay
    <3>3. bill' \in [Orders -> Order]
      BY <1>0, <3>2 DEF Money, Order
    <3>4. events' \subseteq Event
      BY <2>1, <3>1, <3>2
    <3> QED
      BY <1>0, <2>4, <3>3, <3>4 DEF Pay, Money, ghosts
  <2>5. CASE Refund(o)
    <3>1. {"refund.processed"} \in SUBSET EventKinds
      BY DEF EventKinds
    <3>2. bill[o].refund \in 0 .. Price /\ bill[o].by \in Attempts
      BY <1>0, <2>5 DEF Refund, Money, Order, Captured
    <3>3. PICK total \in bill[o].refund + 1 .. Price :
            /\ bill' = [bill EXCEPT ![o].refund = total]
            /\ Announce({"refund.processed"}, o, bill[o].by, total)
      BY <2>5 DEF Refund
    <3>4. total \in 0 .. Price
      BY <3>2
    <3>5. bill' \in [Orders -> Order]
      BY <1>0, <3>3, <3>4 DEF Money, Order
    <3>6. events' \subseteq Event
      BY <2>1, <3>1, <3>2, <3>3, <3>4
    <3> QED
      BY <1>0, <2>5, <3>5, <3>6 DEF Refund, Money, ghosts
  <2> QED
    BY <1>6, <2>2, <2>3, <2>4, <2>5 DEF Bills
<1>7. ASSUME NEW e \in events, HookFailed(e) \/ Lose(e) PROVE Money'
  <2>1. e.bill \in Orders /\ e.by \in Attempts
    BY <1>0 DEF Money, Event
  <2>2. FailedRow \in Payment
    BY DEF FailedRow, Payment, Statuses
  <2>3. HookFailed(e) => failed' \in [Orders -> [Attempts -> Payment]]
    BY <1>0, <2>1, <2>2 DEF HookFailed, RecordFailure, Money
  <2>4. CASE HookFailed(e)
    <3>1. events' \subseteq events /\ UNCHANGED <<bill, row, redeemed, redemption, granted>>
      BY <2>4 DEF HookFailed, RecordFailure, ghosts
    <3> QED
      BY <1>2, <2>3, <2>4, <3>1
  <2>5. CASE Lose(e)
    BY <1>0, <1>2, <2>5 DEF Lose, ghosts, Money
  <2> QED
    BY <1>7, <2>4, <2>5
<1>8. CASE Quiet
  BY <1>1, <1>8 DEF Quiet, People, Clock, Cancel, Resume, Assign, Revoke,
     WritePlanType, ReadEnd, Extend, CronList, CronExpire, CronFails, GateRead,
     GateStatus, GatePlanType, Tick, vars, ghosts
<1> QED
  BY Steps, <1>3, <1>4, <1>5, <1>6, <1>7, <1>8
-----------------------------------------------------------------------------
(* What is true of the orders that are spoken of.  An order is only worked *)
(* on once Razorpay has its money, nobody is told of more refunds than     *)
(* were made, and whoever is about to write a refund has found a payment.  *)
Told ==
  \A e \in events : e.kind # "payment.failed" =>
    bill[e.bill].status = "paid" /\ e.total <= bill[e.bill].refund

Working(k) ==
  call[k].at # "idle" =>
    /\ call[k].bill \in Orders
    /\ bill[call[k].bill].status = "paid"
    /\ call[k].total <= bill[call[k].bill].refund
    /\ call[k].at = "redeem" => Recorded(call[k].bill)
    /\ call[k].at = "amount" =>
         /\ PaymentOf(call[k].bill).status # "none"
         /\ call[k].status # "none"
         /\ call[k].status = "REFUNDED" => bill[call[k].bill].refund = Price

Booked(o) ==
  /\ ~(Recorded(o) /\ Blocked(o))
  /\ row[o].status = "none" => row[o].refunded = 0
  /\ Recorded(o) => bill[o].status = "paid"
  /\ row[o].refunded <= bill[o].refund
  /\ row[o].status = "REFUNDED" => bill[o].refund = Price
  /\ granted[o] <= 1 /\ (Recorded(o) <=> granted[o] = 1)

Failures(o) ==
  \A a \in Attempts :
    /\ failed[o][a].refunded <= bill[o].refund
    /\ failed[o][a].status = "REFUNDED" => bill[o].refund = Price

Sold(o) ==
  /\ bill[o].status = "none" => bill[o].refund = 0
  /\ bill[o].status = "paid" => bill[o].by # NoAttempt

Truth ==
  /\ Told
  /\ \A k \in Calls : Working(k)
  /\ \A o \in Orders : Booked(o)
  /\ \A o \in Orders : Failures(o)
  /\ \A o \in Orders : Sold(o)

LEMMA TruthIsBusy == Truth => Busy /\ Captured
  BY DEF Truth, Working, Busy, Sold, Captured

LEMMA TypesStep ==
  ASSUME TypeOK, Truth, [Next]_vars
  PROVE  TypeOK'
  BY TruthIsBusy, TypeParts, MoneyStep, CalledStep, PlannedStep, BoundedStep
     DEF TypeOK, Money, Called, Planned, Bounded

(* A step that leaves the books alone and takes one call further.          *)
LEMMA OneCall ==
  ASSUME TypeOK, Truth, NEW k \in Calls, UNCHANGED <<bill, row, failed, granted>>,
         events' \subseteq events, NEW h, call' = [call EXCEPT ![k] = h], Working(k)'
  PROVE  Truth'
<1>1. Told'
  BY DEF Truth, Told
<1>2. ASSUME NEW q \in Calls, q # k PROVE Working(q)'
  <2>1. call'[q] = call[q]
    BY <1>2 DEF TypeOK
  <2> QED
    BY <2>1 DEF Truth, Working, Recorded, PaymentOf, Blocked
<1>3. Working(k)'
  OBVIOUS
<1>4. \A o \in Orders : Booked(o)' /\ Failures(o)' /\ Sold(o)'
  BY DEF Truth, Booked, Failures, Sold, Recorded, Blocked
<1> QED
  BY <1>1, <1>2, <1>3, <1>4 DEF Truth

LEMMA TruthReturns ==
  ASSUME TypeOK, Truth, NEW k \in Calls, UNCHANGED <<bill, row, failed, granted>>,
         events' \subseteq events, Return(k)
  PROVE  Truth'
<1>1. Working(k)'
  BY DEF Return, Working, NoCall, TypeOK
<1> QED
  BY <1>1, OneCall DEF Return

LEMMA TruthBegins ==
  ASSUME TypeOK, Truth, NEW k \in Calls, UNCHANGED <<bill, row, failed, granted>>,
         events' \subseteq events, NEW o \in Orders, bill[o].status = "paid",
         NEW total \in 0 .. bill[o].refund, NEW place \in {"look", "refund"},
         Begin(k, place, o, total)
  PROVE  Truth'
<1>1. call'[k] = [NoCall EXCEPT !.at = place, !.bill = o, !.total = total]
  BY DEF Begin, TypeOK
<1>2. bill[o].refund \in Nat
  BY DEF TypeOK, Order
<1>3. Working(k)'
  BY <1>1, <1>2 DEF Working, NoCall
<1> QED
  BY <1>3, OneCall DEF Begin

LEMMA TruthMoves ==
  ASSUME TypeOK, Truth, NEW k \in Calls, UNCHANGED <<bill, row, failed, granted, events>>,
         call[k].at # "idle", NEW place \in {"look", "activate", "refund"}, NEW t,
         \/ call' = [call EXCEPT ![k].at = place]
         \/ call' = [call EXCEPT ![k].at = place, ![k].since = t]
  PROVE  Truth'
<1>1. call[k] \in Handling
  BY DEF TypeOK
<1>2. /\ call'[k].at = place
      /\ call'[k].bill = call[k].bill
      /\ call'[k].total = call[k].total
  BY <1>1 DEF TypeOK, Handling
<1>3. Working(k)'
  BY <1>2 DEF Truth, Working
<1> QED
  BY <1>3, OneCall

LEMMA TruthRecorded ==
  ASSUME TypeOK, Truth, NEW k \in Calls, UNCHANGED <<bill, row, failed, granted, events>>,
         call[k].at # "idle", AfterRecord(k)
  PROVE  Truth'
  BY TruthReturns, TruthMoves DEF AfterRecord

(* A step that only touches the books of one order, for the better.        *)
LEMMA OneOrder ==
  ASSUME TypeOK, Truth, NEW o \in Orders, UNCHANGED <<row, failed, granted, call>>,
         NEW h \in Order, bill' = [bill EXCEPT ![o] = h],
         h.refund >= bill[o].refund,
         bill[o].status = "paid" => h.status = "paid" /\ h.by = bill[o].by,
         h.status = "paid" => h.by # NoAttempt,
         h.status # "none" \/ h = bill[o],
         \A e \in events' : e \in events \/ e.kind = "payment.failed"
            \/ (e.bill = o /\ h.status = "paid" /\ e.total <= h.refund)
  PROVE  Truth'
<1>1. /\ \A p \in Orders : /\ bill[p].refund \in 0 .. Price
                           /\ bill'[p].refund \in 0 .. Price
                           /\ bill'[p].refund >= bill[p].refund
                           /\ bill[p].status = "paid" =>
                                bill'[p].status = "paid" /\ bill'[p].by = bill[p].by
      /\ bill'[o] = h
  BY DEF TypeOK, Order
<1>2. Told'
  <2>1. ASSUME NEW e \in events', e.kind # "payment.failed"
        PROVE  bill'[e.bill].status = "paid" /\ e.total <= bill'[e.bill].refund
    <3>1. CASE e \in events
      <4>1. e.bill \in Orders /\ e.total \in Nat
        BY <3>1 DEF TypeOK, Event
      <4>2. bill[e.bill].status = "paid" /\ e.total <= bill[e.bill].refund
        BY <2>1, <3>1 DEF Truth, Told
      <4> QED
        BY <1>1, <4>1, <4>2
    <3>2. CASE e.bill = o /\ h.status = "paid" /\ e.total <= h.refund
      BY <1>1, <3>2
    <3> QED
      BY <2>1, <3>1, <3>2
  <2> QED
    BY <2>1 DEF Told
<1>3. \A p \in Orders : bill[p].status = "paid" =>
        (Blocked(p)' <=> Blocked(p)) /\ PaymentOf(p)' = PaymentOf(p)
  BY <1>1 DEF Blocked, PaymentOf
<1>4. ASSUME NEW k \in Calls PROVE Working(k)'
  <2>1. call[k].total \in Nat /\ UNCHANGED call
    BY DEF TypeOK, Handling
  <2> QED
    BY <1>1, <1>3, <2>1 DEF Truth, Working, Recorded
<1>5. ASSUME NEW p \in Orders PROVE Booked(p)'
  <2>1. row[p].refunded \in Nat
    BY DEF TypeOK, Payment
  <2> QED
    BY <1>1, <1>3, <2>1 DEF Truth, Booked, Recorded
<1>6. ASSUME NEW p \in Orders PROVE Failures(p)'
  <2>1. \A a \in Attempts : failed[p][a].refunded \in Nat
    BY DEF TypeOK, Payment
  <2>2. Price \in Nat
    OBVIOUS
  <2> QED
    BY <1>1, <2>1, <2>2 DEF Truth, Failures
<1>7. ASSUME NEW p \in Orders PROVE Sold(p)'
  BY <1>1 DEF Truth, Sold, TypeOK
<1> QED
  BY <1>2, <1>4, <1>5, <1>6, <1>7 DEF Truth

LEMMA TruthBills ==
  ASSUME TypeOK, Truth, NEW o \in Orders, Bills(o)
  PROVE  Truth'
<1>0. bill[o] \in Order /\ row[o] \in Payment
  BY DEF TypeOK
<1>1. CASE CreateOrder(o)
  <2>1. bill[o].status = "none"
    BY <1>1 DEF CreateOrder
  <2>2. PICK p \in Plans, coupon \in BOOLEAN :
          bill' = [bill EXCEPT ![o] = [status |-> "open", plan |-> p, coupon |-> coupon,
                                       by |-> NoAttempt, refund |-> 0]]
    BY <1>1 DEF CreateOrder
  <2>3. bill[o].refund = 0
    BY <2>1 DEF Truth, Sold
  <2> DEFINE h == [status |-> "open", plan |-> p, coupon |-> coupon,
                   by |-> NoAttempt, refund |-> 0]
  <2>4. h \in Order /\ h.refund = 0 /\ h.status = "open"
    BY DEF Order, AnyPlan
  <2>5. bill' = [bill EXCEPT ![o] = h]
    BY <2>2
  <2>6. UNCHANGED <<row, failed, granted, call>> /\ events' = events
    BY <1>1 DEF CreateOrder, ghosts
  <2> HIDE DEF h
  <2>7. h.refund >= bill[o].refund /\ h.status # "none"
    BY <2>3, <2>4
  <2>8. bill[o].status # "paid" /\ h.status # "paid"
    BY <2>1, <2>4
  <2> QED
    BY <2>4, <2>5, <2>6, <2>7, <2>8, OneOrder
<1>2. CASE Decline(o)
  <2>1. UNCHANGED <<bill, row, failed, granted, call>>
    BY <1>2 DEF Decline, ghosts
  <2>2. \A e \in events' : e \in events \/ e.kind = "payment.failed"
    BY <1>2 DEF Decline, Announce
  <2>3. Told'
    BY <2>1, <2>2 DEF Truth, Told
  <2>4. \A k \in Calls : Working(k)'
    BY <2>1 DEF Truth, Working, Recorded, PaymentOf, Blocked
  <2>5. \A p \in Orders : Booked(p)' /\ Failures(p)' /\ Sold(p)'
    BY <2>1 DEF Truth, Booked, Failures, Sold, Recorded, Blocked
  <2> QED
    BY <2>3, <2>4, <2>5 DEF Truth
<1>3. CASE Pay(o)
  <2>0. PICK a \in Attempts :
          /\ bill' = [bill EXCEPT ![o].status = "paid", ![o].by = a]
          /\ Announce({"payment.captured", "order.paid"}, o, a, 0)
    BY <1>3 DEF Pay
  <2> DEFINE h == [bill[o] EXCEPT !.status = "paid", !.by = a]
  <2>1. /\ h \in Order /\ h.status = "paid" /\ h.by = a
        /\ h.refund = bill[o].refund /\ h.refund \in 0 .. Price
    BY <1>0 DEF Order
  <2>2. bill' = [bill EXCEPT ![o] = h]
    BY <2>0 DEF TypeOK
  <2>3. \A e \in events' : e \in events \/ (e.bill = o /\ e.total = 0)
    BY <2>0 DEF Announce
  <2>4. UNCHANGED <<row, failed, granted, call>> /\ bill[o].status # "paid"
    BY <1>3 DEF Pay, ghosts
  <2> HIDE DEF h
  <2>5. h.refund >= bill[o].refund /\ h.status # "none" /\ 0 <= h.refund /\ h.by # NoAttempt
    BY <2>1
  <2>6. \A e \in events' : e \in events \/ e.kind = "payment.failed"
          \/ (e.bill = o /\ h.status = "paid" /\ e.total <= h.refund)
    BY <2>1, <2>3, <2>5
  <2> QED
    BY <2>1, <2>2, <2>4, <2>5, <2>6, OneOrder
<1>4. CASE Refund(o)
  <2>1. PICK total \in bill[o].refund + 1 .. Price :
          /\ bill' = [bill EXCEPT ![o].refund = total]
          /\ Announce({"refund.processed"}, o, bill[o].by, total)
    BY <1>4 DEF Refund
  <2> DEFINE h == [bill[o] EXCEPT !.refund = total]
  <2>2. bill[o].refund \in 0 .. Price /\ bill[o].status = "paid" /\ bill[o].by # NoAttempt
    BY <1>0, <1>4 DEF Order, Refund, Truth, Sold
  <2>3. /\ h \in Order /\ h.status = "paid" /\ h.by = bill[o].by /\ h.refund = total
        /\ total \in Nat /\ total >= bill[o].refund
    BY <1>0, <2>2 DEF Order
  <2>4. bill' = [bill EXCEPT ![o] = h]
    BY <2>1 DEF TypeOK
  <2>5. \A e \in events' : e \in events \/ (e.bill = o /\ e.total = total)
    BY <2>1 DEF Announce
  <2>6. UNCHANGED <<row, failed, granted, call>>
    BY <1>4 DEF Refund, ghosts
  <2> HIDE DEF h
  <2>7. \A e \in events' : e \in events \/ e.kind = "payment.failed"
          \/ (e.bill = o /\ h.status = "paid" /\ e.total <= h.refund)
    BY <2>3, <2>5
  <2> QED
    BY <2>2, <2>3, <2>4, <2>6, <2>7, OneOrder
<1> QED
  BY <1>1, <1>2, <1>3, <1>4 DEF Bills

LEMMA TruthCalls ==
  ASSUME TypeOK, Truth, NEW k \in Calls, CallStep(k)
  PROVE  Truth'
<1>1. CASE Look(k)
  BY <1>1, TruthRecorded, TruthMoves DEF Look, money, ghosts
<1>2. CASE Activate(k)
  <2>1. call[k].bill \in Orders /\ bill[call[k].bill].status = "paid"
    BY <1>2 DEF Activate, Truth, Working
  <2>2. CASE ~Insertable(call[k].bill)
    BY <1>2, <2>2, TruthMoves DEF Activate, ghosts
  <2>3. CASE Insertable(call[k].bill)
    <3> DEFINE o == call[k].bill
    <3>1. /\ row' = [row EXCEPT ![o] = [status |-> "SUCCESS", refunded |-> 0]]
          /\ granted' = [granted EXCEPT ![o] = @ + 1]
          /\ call' = [call EXCEPT ![k].at = "redeem", ![k].since = 0]
          /\ UNCHANGED <<bill, failed, events>>
      BY <1>2, <2>3 DEF Activate
    <3>2. /\ row'[o] = [status |-> "SUCCESS", refunded |-> 0]
          /\ \A p \in Orders : p # o => row'[p] = row[p] /\ granted'[p] = granted[p]
          /\ granted'[o] = granted[o] + 1
      BY <2>1, <3>1 DEF TypeOK
    <3>3. granted[o] = 0
      <4>1. ~Recorded(o)
        BY <2>3 DEF Insertable
      <4>2. granted[o] \in Nat
        BY <2>1 DEF TypeOK
      <4> QED
        BY <2>1, <4>1, <4>2 DEF Truth, Booked
    <3>4. Told'
      BY <3>1 DEF Truth, Told
    <3>5. ASSUME NEW q \in Calls PROVE Working(q)'
      <4>1. CASE q = k
        <5>1. /\ call'[k].at = "redeem"
              /\ call'[k].bill = o
              /\ call'[k].total = call[k].total
          BY <3>1 DEF TypeOK, Handling
        <5>2. call[k].total <= bill[o].refund
          BY <1>2 DEF Activate, Truth, Working
        <5> QED
          BY <2>1, <3>1, <3>2, <4>1, <5>1, <5>2 DEF Working, Recorded
      <4>2. CASE q # k
        <5>1. call'[q] = call[q]
          BY <3>1, <4>2 DEF TypeOK
        <5>2. \A p \in Orders :
                /\ Recorded(p) => Recorded(p)'
                /\ PaymentOf(p).status # "none" => PaymentOf(p)'.status # "none"
          BY <3>1, <3>2 DEF Recorded, PaymentOf, Blocked
        <5>3. UNCHANGED bill
          BY <3>1
        <5> HIDE DEF o
        <5> QED
          BY <5>1, <5>2, <5>3 DEF Truth, Working
      <4> QED
        BY <4>1, <4>2
    <3>6. ASSUME NEW p \in Orders PROVE Booked(p)'
      <4>1. bill[p].refund \in Nat
        BY DEF TypeOK, Order
      <4>2. CASE p = o
        <5>1. ~Blocked(p)'
          BY <2>3, <3>1, <4>2 DEF Insertable, Blocked
        <5>2. bill'[p] = bill[p] /\ bill[p].status = "paid" /\ granted'[p] = 1
          BY <2>1, <3>1, <3>2, <3>3, <4>2
        <5>3. row'[p].status = "SUCCESS" /\ row'[p].refunded = 0
          BY <3>2, <4>2
        <5> QED
          BY <4>1, <5>1, <5>2, <5>3 DEF Booked, Recorded
      <4>3. CASE p # o
        BY <3>1, <3>2, <4>3 DEF Truth, Booked, Recorded, Blocked
      <4> QED
        BY <4>2, <4>3
    <3>7. \A p \in Orders : Failures(p)' /\ Sold(p)'
      BY <3>1 DEF Truth, Failures, Sold
    <3> QED
      BY <3>4, <3>5, <3>6, <3>7 DEF Truth
  <2> QED
    BY <2>2, <2>3
<1>3. CASE Redeem(k)
  BY <1>3, TruthRecorded DEF Redeem, ghosts
<1>4. CASE FindPayment(k)
  <2> DEFINE found == PaymentOf(call[k].bill)
  <2>1. CASE found.status = "none"
    BY <1>4, <2>1, TruthReturns DEF FindPayment, money, ghosts
  <2>2. CASE found.status # "none"
    <3>1. /\ call' = [call EXCEPT ![k].at = "amount", ![k].status = found.status]
          /\ UNCHANGED <<bill, row, failed, granted, events>>
      BY <1>4, <2>2 DEF FindPayment, money, ghosts
    <3>2. /\ call'[k].at = "amount"
          /\ call'[k].bill = call[k].bill
          /\ call'[k].total = call[k].total
          /\ call'[k].status = found.status
      BY <3>1 DEF TypeOK, Handling
    <3>3. call[k].bill \in Orders /\ Working(k)
      BY <1>4 DEF FindPayment, Truth, Working
    <3>4. found.status = "REFUNDED" => bill[call[k].bill].refund = Price
      BY <3>3, PaymentTyped DEF Truth, Booked, Failures, PaymentOf
    <3>5. PaymentOf(call[k].bill)' = found
      BY <3>1, <3>2 DEF PaymentOf, Blocked
    <3>6. Working(k)'
      BY <1>4, <2>2, <3>1, <3>2, <3>3, <3>4, <3>5 DEF Working, FindPayment
    <3> QED
      BY <3>1, <3>6, OneCall
  <2> QED
    BY <2>1, <2>2
<1>5. CASE WriteRefund(k)
  <2> DEFINE o == call[k].bill
             r == RefundedRow(call[k].total, call[k].status)
  <2>1. /\ o \in Orders /\ bill[o].status = "paid" /\ call[k].total <= bill[o].refund
        /\ PaymentOf(o).status # "none" /\ call[k].status # "none"
        /\ call[k].status = "REFUNDED" => bill[o].refund = Price
    BY <1>5 DEF WriteRefund, Truth, Working
  <2>2. /\ IF Blocked(o)
             THEN failed' = [failed EXCEPT ![o][bill[o].by] = r] /\ UNCHANGED row
             ELSE row' = [row EXCEPT ![o] = r] /\ UNCHANGED failed
        /\ UNCHANGED <<bill, events, granted>>
    BY <1>5 DEF WriteRefund, ghosts
  <2>3. call[k].total \in 0 .. Price /\ bill[o].refund \in 0 .. Price
    BY <2>1 DEF TypeOK, Handling, Order
  <2>4. /\ r.status # "none" /\ r.refunded = call[k].total
        /\ r.status = "REFUNDED" => bill[o].refund = Price
    BY <2>1, <2>3 DEF RefundedRow
  <2> HIDE DEF r
  <2>5. \A p \in Orders : (Recorded(p)' <=> Recorded(p)) /\ (Blocked(p)' <=> Blocked(p))
    BY <2>1, <2>2, <2>4, PaymentTyped DEF TypeOK, Recorded, Blocked, PaymentOf
  <2>6. /\ \A p \in Orders : row'[p] = row[p] \/ (p = o /\ Recorded(o) /\ row'[p] = r)
        /\ \A p \in Orders, a \in Attempts :
             failed'[p][a] = failed[p][a] \/ (p = o /\ failed'[p][a] = r)
    BY <2>1, <2>2 DEF TypeOK, PaymentOf, Recorded
  <2>7. \A p \in Orders : PaymentOf(p).status # "none" => PaymentOf(p)'.status # "none"
    BY <2>2, <2>4, <2>5, <2>6, PaymentTyped DEF PaymentOf, Recorded
  <2>8. Told'
    BY <2>2 DEF Truth, Told
  <2>9. ASSUME NEW q \in Calls PROVE Working(q)'
    <3>1. CASE q = k
      BY <1>5, <3>1 DEF WriteRefund, Return, TypeOK, Working, NoCall
    <3>2. CASE q # k
      <4>1. call'[q] = call[q]
        BY <1>5, <3>2 DEF WriteRefund, Return, TypeOK
      <4>2. call[q].at # "idle" => call[q].bill \in Orders
        BY DEF Truth, Working
      <4> HIDE DEF o
      <4> QED
        BY <2>2, <2>5, <2>7, <4>1, <4>2 DEF Truth, Working
    <3> QED
      BY <3>1, <3>2
  <2>10. ASSUME NEW p \in Orders PROVE Booked(p)'
    <3>1. Booked(p)
      BY DEF Truth
    <3>2. CASE row'[p] = row[p]
      BY <2>2, <2>5, <3>1, <3>2 DEF Booked
    <3>3. CASE p = o /\ Recorded(o) /\ row'[p] = r
      BY <2>1, <2>2, <2>4, <2>5, <3>1, <3>3 DEF Booked
    <3> QED
      BY <2>6, <3>2, <3>3
  <2>11. ASSUME NEW p \in Orders PROVE Failures(p)'
    <3>1. Failures(p)
      BY DEF Truth
    <3>2. ASSUME NEW a \in Attempts
          PROVE  /\ failed'[p][a].refunded <= bill'[p].refund
                 /\ failed'[p][a].status = "REFUNDED" => bill'[p].refund = Price
      BY <2>1, <2>2, <2>4, <2>6, <3>1 DEF Failures
    <3> QED
      BY <3>2 DEF Failures
  <2>12. \A p \in Orders : Sold(p)'
    BY <2>2 DEF Truth, Sold
  <2> QED
    BY <2>8, <2>9, <2>10, <2>11, <2>12 DEF Truth
<1>6. CASE CallFails(k)
  BY <1>6, TruthReturns DEF CallFails, money, ghosts
<1> QED
  BY <1>1, <1>2, <1>3, <1>4, <1>5, <1>6 DEF CallStep

(* A failure on record is not a payment, and it does not lose the row of   *)
(* one.                                                                    *)
LEMMA TruthFails ==
  ASSUME TypeOK, Truth, NEW e \in events, HookFailed(e)
  PROVE  Truth'
<1> DEFINE o == e.bill
           a == e.by
<1>1. o \in Orders /\ a \in Attempts
  BY DEF TypeOK, Event
<1>2. UNCHANGED <<bill, row, granted, call>> /\ events' \subseteq events
  BY DEF HookFailed, RecordFailure, ghosts
<1>3. CASE UNCHANGED failed
  BY <1>2, <1>3 DEF Truth, Told, Working, Booked, Failures, Sold, Recorded, PaymentOf, Blocked
<1>4. CASE /\ failed' = [failed EXCEPT ![o][a] = FailedRow]
           /\ failed[o][a].status = "none"
           /\ ~(Recorded(o) /\ bill[o].by = a)
  <2>1. \A p \in Orders, b \in Attempts :
          failed'[p][b] = failed[p][b] \/ (p = o /\ b = a /\ failed'[p][b] = FailedRow)
    BY <1>1, <1>4 DEF TypeOK
  <2>2. FailedRow.status = "FAILED" /\ FailedRow.refunded = 0
    BY DEF FailedRow
  <2> HIDE DEF o, a
  <2>3. \A p \in Orders : /\ Recorded(p)' <=> Recorded(p)
                          /\ Recorded(p) /\ ~Blocked(p) => ~Blocked(p)'
    BY <1>2, <1>4, <2>1, PaymentTyped DEF Recorded, Blocked, TypeOK, Order
  <2>4. \A p \in Orders : PaymentOf(p).status # "none" => PaymentOf(p)'.status # "none"
    <3> SUFFICES ASSUME NEW p \in Orders, PaymentOf(p).status # "none"
                 PROVE  PaymentOf(p)'.status # "none"
      OBVIOUS
    <3>1. CASE Blocked(p)
      <4>1. bill[p].by \in Attempts /\ failed[p][bill[p].by].status # "none"
        BY <3>1, PaymentTyped DEF Blocked
      <4>2. failed'[p][bill[p].by].status # "none"
        BY <2>1, <2>2, <4>1
      <4>3. Blocked(p)'
        BY <1>2, <3>1, <4>2 DEF Blocked
      <4> QED
        BY <1>2, <4>2, <4>3 DEF PaymentOf
    <3>2. CASE ~Blocked(p)
      <4>1. Recorded(p)
        BY <3>2 DEF PaymentOf, Recorded
      <4> QED
        BY <1>2, <2>3, <3>2, <4>1 DEF PaymentOf
    <3> QED
      BY <3>1, <3>2
  <2>5. Told'
    BY <1>2 DEF Truth, Told
  <2>6. \A k \in Calls : Working(k)'
    BY <1>2, <2>3, <2>4 DEF Truth, Working
  <2>7. \A p \in Orders : Booked(p)' /\ Sold(p)'
    BY <1>2, <2>3 DEF Truth, Booked, Sold
  <2>8. ASSUME NEW p \in Orders, NEW b \in Attempts
        PROVE  /\ failed'[p][b].refunded <= bill'[p].refund
               /\ failed'[p][b].status = "REFUNDED" => bill'[p].refund = Price
    <3>1. bill[p].refund \in Nat
      BY DEF TypeOK, Order
    <3>2. Failures(p)
      BY DEF Truth
    <3> QED
      BY <1>2, <2>1, <2>2, <3>1, <3>2 DEF Failures
  <2> QED
    BY <2>5, <2>6, <2>7, <2>8 DEF Truth, Failures
<1> QED
  BY <1>3, <1>4 DEF HookFailed, RecordFailure

LEMMA TruthStep ==
  ASSUME TypeOK, Truth, [Next]_vars
  PROVE  Truth'
<1>1. ASSUME NEW k \in Calls, NEW o \in Orders, Verify(k, o) \/ Import(k, o) PROVE Truth'
  <2>1. bill[o].refund \in Nat /\ bill[o].status = "paid" /\ UNCHANGED <<bill, row, failed, granted, events>>
    BY <1>1 DEF TypeOK, Order, Verify, Import, money, ghosts
  <2>2. Begin(k, "look", o, 0) \/ Begin(k, "look", o, bill[o].refund)
    BY <1>1 DEF Verify, Import
  <2> QED
    BY <2>1, <2>2, TruthBegins
<1>2. ASSUME NEW k \in Calls, NEW e \in events, HookPaid(k, e) \/ HookRefund(k, e)
      PROVE  Truth'
  <2>1. /\ e.kind # "payment.failed" /\ UNCHANGED <<bill, row, failed, granted>>
        /\ events' \subseteq events
    BY <1>2 DEF HookPaid, HookRefund, ghosts
  <2>2. e.bill \in Orders /\ e.total \in Nat
    BY DEF TypeOK, Event
  <2>3. bill[e.bill].refund \in Nat /\ bill[e.bill].status = "paid" /\ e.total <= bill[e.bill].refund
    BY <2>1, <2>2 DEF Truth, Told, TypeOK, Order
  <2>4. Begin(k, "look", e.bill, 0) \/ Begin(k, "refund", e.bill, e.total)
    BY <1>2 DEF HookPaid, HookRefund
  <2> QED
    BY <2>1, <2>2, <2>3, <2>4, TruthBegins
<1>3. ASSUME UNCHANGED <<bill, row, failed, granted, call>>, events' \subseteq events
      PROVE  Truth'
  BY <1>3 DEF Truth, Told, Working, Booked, Failures, Sold, Recorded, PaymentOf, Blocked
<1>4. ASSUME NEW e \in events, HookFailed(e) \/ Lose(e) PROVE Truth'
  BY <1>3, <1>4, TruthFails DEF Lose, ghosts
<1>5. CASE Quiet
  BY <1>3, <1>5 DEF Quiet, People, Clock, Cancel, Resume, Assign, Revoke,
     WritePlanType, ReadEnd, Extend, CronList, CronExpire, CronFails, GateRead,
     GateStatus, GatePlanType, Tick, vars, money, ghosts
<1> QED
  BY Steps, <1>1, <1>2, <1>4, <1>5, TruthCalls, TruthBills

LEMMA TruthInit == Init => TypeOK /\ Truth
<1> SUFFICES ASSUME Init PROVE TypeOK /\ Truth
  OBVIOUS
<1>1. Days[Free] \in Nat /\ Price \in Nat
  BY Dayed DEF AnyPlan
<1>2. Bounded /\ Called
  BY <1>1 DEF Init, Bounded, Called, NoCall, Handling, Statuses
<1>3. Planned
  <2>1. sub \in Subscription /\ orgPlan \in AnyPlan
    BY <1>1 DEF Init, Subscription, AnyPlan
  <2>2. clerk \in Clerk
    BY DEF Init, Resting, Clerk, AnyPlan
  <2>3. cron \in BOOLEAN /\ raced \in BOOLEAN
    BY DEF Init
  <2>4. gate \subseteq {"status", "planType"} /\ time \in 0 .. MaxTime
    BY DEF Init
  <2> QED
    BY <2>1, <2>2, <2>3, <2>4 DEF Planned
<1>4. Money
  BY <1>1 DEF Init, Money, NoRow, Order, Payment, Statuses, AnyPlan
<1>5. Told /\ \A k \in Calls : Working(k)
  BY DEF Init, Told, Working, NoCall
<1>6. \A o \in Orders : Booked(o) /\ Failures(o) /\ Sold(o)
  BY <1>1 DEF Init, Booked, Failures, Sold, NoRow, Recorded, Blocked
<1> QED
  BY <1>2, <1>3, <1>4, <1>5, <1>6, TypeParts DEF Truth

LEMMA Truthful == Spec => [](TypeOK /\ Truth)
<1>1. TypeOK /\ Truth /\ [Next]_vars => (TypeOK /\ Truth)'
  BY TypesStep, TruthStep
<1> QED
  BY <1>1, TruthInit, PTL DEF Spec

(* The rows, the calls and the orders keep their types.                    *)
THEOREM TypeCorrect == Spec => []TypeOK
  BY Truthful, PTL

(* No order is turned into a period twice, and none without a Payment,     *)
(* however many of the browser, the events and imports work on it at once. *)
THEOREM NeverExtendedTwice == Spec => []ExtendedOnce
<1>1. Truth => ExtendedOnce
  BY DEF Truth, Booked, ExtendedOnce
<1> QED
  BY <1>1, Truthful, PTL

(* What is on record as refunded has been refunded, in whatever order the  *)
(* events come.                                                            *)
THEOREM NeverAheadOfRazorpay == Spec => []RefundNeverAhead
<1>1. TypeOK /\ Truth => RefundNeverAhead
  BY PaymentTyped DEF Truth, Booked, Failures, RefundNeverAhead, PaymentOf
<1> QED
  BY <1>1, Truthful, PTL
-----------------------------------------------------------------------------
(* Whoever is about to expire the plan has found it over, and what is      *)
(* expired is over, as long as no change of the period fell in between.    *)
Cut == ~raced /\ (Expiring \/ sub.status = "EXPIRED") => Ended

LEMMA CutStep ==
  ASSUME TypeOK, Cut, [Next]_vars
  PROVE  Cut'
<1>0. /\ time \in Nat /\ raced \in BOOLEAN /\ sub.end \in Nat
  BY DEF TypeOK, Subscription
<1>1. CASE UNCHANGED <<time, sub, cron, gate, raced>>
  BY <1>1 DEF Cut, Expiring, Ended
<1>2. ASSUME UNCHANGED <<time, cron, gate>>, sub'.status # "EXPIRED",
             raced' = (raced \/ Expiring)
      PROVE  Cut'
  <2>1. CASE raced \/ Expiring
    BY <1>2, <2>1 DEF Cut
  <2>2. CASE ~raced /\ ~Expiring
    BY <1>2, <2>2 DEF Cut, Expiring
  <2> QED
    BY <2>1, <2>2
<1>3. ASSUME NEW k \in Calls, Activate(k) PROVE Cut'
  <2>1. CASE Insertable(call[k].bill)
    BY <1>2, <1>3, <2>1 DEF Activate, Grant, others
  <2>2. CASE ~Insertable(call[k].bill)
    BY <1>1, <1>3, <2>2 DEF Activate, plan, others, ghosts
  <2> QED
    BY <2>1, <2>2
<1>4. CASE Cancel
  <2>1. sub'.status = "CANCELLED" /\ sub'.end = sub.end
    BY <1>4 DEF Cancel, TypeOK, Subscription
  <2> QED
    BY <1>4, <2>1 DEF Cancel, Cut, Expiring, Ended, others, ghosts
<1>5. CASE Resume \/ Assign \/ Revoke \/ Extend
  <2>1. sub'.status # "EXPIRED"
    <3>1. sub \in Subscription
      BY DEF TypeOK
    <3>2. CASE Resume \/ Extend
      BY <3>1, <3>2 DEF Resume, Extend, Subscription
    <3>3. CASE Assign
      BY <3>3 DEF Assign, Grant
    <3>4. CASE Revoke
      <4>1. PICK end \in {sub.end, time} :
              sub' = [sub EXCEPT !.status = "CANCELLED", !.end = end]
        BY <3>4 DEF Revoke
      <4> QED
        BY <3>1, <4>1 DEF Subscription
    <3> QED
      BY <1>5, <3>2, <3>3, <3>4
  <2> QED
    BY <1>2, <1>5, <2>1 DEF Resume, Assign, Revoke, Extend, Grant, others
<1>6. CASE CronList \/ GateRead
  BY <1>6 DEF CronList, GateRead, Cut, Expirable, Ended, plan, ghosts
<1>7. CASE CronExpire \/ GateStatus
  <2>1. Expiring /\ sub'.end = sub.end /\ UNCHANGED <<time, raced>>
    BY <1>7 DEF CronExpire, GateStatus, Expiring, TypeOK, Subscription, ghosts
  <2> QED
    BY <2>1 DEF Cut, Ended
<1>8. CASE CronFails \/ GatePlanType
  BY <1>8 DEF CronFails, GatePlanType, Cut, Expiring, Ended, plan, ghosts
<1>9. CASE Tick
  BY <1>0, <1>9 DEF Tick, Cut, Expiring, Ended, plan, others, ghosts
<1>10. ASSUME NEW k \in Calls, CallStep(k) PROVE Cut'
  BY <1>1, <1>3, <1>10 DEF CallStep, Look, Redeem, FindPayment, WriteRefund,
     CallFails, plan, others, ghosts
<1>11. CASE Quiet
  BY <1>1, <1>4, <1>5, <1>6, <1>7, <1>8, <1>9, <1>11
     DEF Quiet, People, Clock, WritePlanType, ReadEnd, vars, plan, others, ghosts
<1>12. ASSUME NEW k \in Calls,
             \/ \E o \in Orders : Verify(k, o) \/ Import(k, o)
             \/ \E e \in events : HookPaid(k, e) \/ HookRefund(k, e)
       PROVE  Cut'
  BY <1>1, <1>12 DEF Verify, Import, HookPaid, HookRefund, plan, others, ghosts
<1>13. ASSUME NEW e \in events, HookFailed(e) \/ Lose(e) PROVE Cut'
  BY <1>1, <1>13 DEF HookFailed, Lose, plan, others, ghosts
<1>14. ASSUME NEW o \in Orders, Bills(o) PROVE Cut'
  BY <1>1, <1>14 DEF Bills, CreateOrder, Decline, Pay, Refund, plan, others, ghosts
<1> QED
  BY Steps, <1>10, <1>11, <1>12, <1>13, <1>14

(* A plan is only expired early by somebody who had found it over before   *)
(* its period was changed: with any number of orders and calls.            *)
THEOREM CutOnlyWhenOver == Spec => []CutOnlyByRace
<1>1. Init => Cut
  BY DEF Init, Cut, Expiring
<1>2. TypeOK /\ Cut /\ [Next]_vars => Cut'
  BY CutStep
<1>3. Cut => CutOnlyByRace
  BY DEF Cut, CutOnlyByRace
<1> QED
  BY <1>1, <1>2, <1>3, Truthful, PTL DEF Spec
-----------------------------------------------------------------------------
(* A payment that is not on record has an event on its way or somebody who *)
(* works on it; a recorded one whose coupon is not counted has the caller  *)
(* who recorded it.                                                        *)
Announced(o) ==
  \E e \in events : e.bill = o /\ e.kind \in {"payment.captured", "order.paid"}
Carried(o, places) == \E k \in Calls : call[k].bill = o /\ call[k].at \in places

Unrecorded(o) ==
  bill[o].status = "paid" /\ ~Recorded(o) =>
    Announced(o) \/ Carried(o, {"look", "activate"})
Uncounted(o) ==
  Recorded(o) /\ bill[o].coupon /\ o \notin redemption => Carried(o, {"redeem"})
Pending == upsets = 0 => \A o \in Orders : Unrecorded(o) /\ Uncounted(o)

(* A call that goes from one place to another takes its order along, and   *)
(* nobody else is moved.                                                   *)
LEMMA OthersCarry ==
  ASSUME TypeOK, NEW k \in Calls, NEW h, call' = [call EXCEPT ![k] = h],
         NEW o \in Orders, NEW places, Carried(o, places),
         call[k].bill # o \/ call[k].at \notin places \/ (h.bill = o /\ h.at \in places)
  PROVE  Carried(o, places)'
<1>1. PICK q \in Calls : call[q].bill = o /\ call[q].at \in places
  BY DEF Carried
<1>2. CASE q = k
  BY <1>1, <1>2 DEF TypeOK, Carried
<1>3. CASE q # k
  BY <1>1, <1>3 DEF TypeOK, Carried
<1> QED
  BY <1>2, <1>3

(* The call k has come to h, and neither the books nor the paid events     *)
(* have changed.                                                           *)
LEMMA PendingMoves ==
  ASSUME TypeOK, Pending, NEW k \in Calls, NEW h, call' = [call EXCEPT ![k] = h],
         UNCHANGED <<bill, row, redemption, upsets>>,
         \A e \in events : e.kind \in {"payment.captured", "order.paid"} =>
            e \in events' \/ (h.bill = e.bill /\ h.at = "look"),
         \/ call[k].at \notin {"look", "activate", "redeem"}
         \/ call[k].at \in {"look", "activate"} /\ Recorded(call[k].bill)
         \/ /\ call[k].at \in {"look", "activate"}
            /\ h.bill = call[k].bill /\ h.at \in {"look", "activate"}
         \/ call[k].at = "redeem" /\ (bill[call[k].bill].coupon => call[k].bill \in redemption)
  PROVE  Pending'
<1> SUFFICES ASSUME upsets = 0, NEW o \in Orders PROVE Unrecorded(o)' /\ Uncounted(o)'
  BY DEF Pending
<1>1. Unrecorded(o)'
  <2> SUFFICES ASSUME bill[o].status = "paid", ~Recorded(o)
               PROVE  Announced(o)' \/ Carried(o, {"look", "activate"})'
    BY DEF Unrecorded, Recorded
  <2>1. CASE Announced(o)
    <3>1. PICK e \in events : e.bill = o /\ e.kind \in {"payment.captured", "order.paid"}
      BY <2>1 DEF Announced
    <3>2. CASE e \in events'
      BY <3>1, <3>2 DEF Announced
    <3>3. CASE h.bill = e.bill /\ h.at = "look"
      BY <3>1, <3>3 DEF TypeOK, Carried
    <3> QED
      BY <3>1, <3>2, <3>3
  <2>2. CASE Carried(o, {"look", "activate"})
    BY <2>2, OthersCarry
  <2> QED
    BY <2>1, <2>2 DEF Pending, Unrecorded
<1>2. Uncounted(o)'
  <2> SUFFICES ASSUME Recorded(o), bill[o].coupon, o \notin redemption
               PROVE  Carried(o, {"redeem"})'
    BY DEF Uncounted, Recorded
  <2>1. Carried(o, {"redeem"})
    BY DEF Pending, Uncounted
  <2> QED
    BY <2>1, OthersCarry
<1> QED
  BY <1>1, <1>2

LEMMA PendingLooks ==
  ASSUME TypeOK, Truth, Pending, NEW k \in Calls, Look(k) \/ FindPayment(k)
  PROVE  Pending'
<1>0. call[k] \in Handling /\ UNCHANGED <<bill, row, redemption, upsets, events>>
  BY DEF TypeOK, Look, FindPayment, money, bounds
<1>1. CASE call' = [call EXCEPT ![k] = NoCall] /\ (call[k].at = "refund" \/ (call[k].at = "look" /\ Recorded(call[k].bill)))
  BY <1>0, <1>1, PendingMoves
<1>2. ASSUME NEW t, NEW st,
             \/ Look(k) /\ Recorded(call[k].bill) /\ call' = [call EXCEPT ![k].at = "refund"]
             \/ Look(k) /\ call' = [call EXCEPT ![k].at = "activate", ![k].since = t]
             \/ FindPayment(k) /\ call' = [call EXCEPT ![k].at = "amount", ![k].status = st]
      PROVE  Pending'
  <2>1. CASE Look(k) /\ Recorded(call[k].bill) /\ call' = [call EXCEPT ![k].at = "refund"]
    <3> DEFINE h == [call[k] EXCEPT !.at = "refund"]
    <3>1. call' = [call EXCEPT ![k] = h]
      BY <2>1
    <3> HIDE DEF h
    <3> QED
      BY <1>0, <2>1, <3>1, PendingMoves DEF Look
  <2>2. CASE Look(k) /\ call' = [call EXCEPT ![k].at = "activate", ![k].since = t]
    <3> DEFINE h == [call[k] EXCEPT !.at = "activate", !.since = t]
    <3>1. call' = [call EXCEPT ![k] = h]
      BY <2>2 DEF TypeOK
    <3>2. h.bill = call[k].bill /\ h.at = "activate"
      BY <1>0 DEF Handling
    <3> HIDE DEF h
    <3> QED
      BY <1>0, <2>2, <3>1, <3>2, PendingMoves DEF Look
  <2>3. CASE FindPayment(k) /\ call' = [call EXCEPT ![k].at = "amount", ![k].status = st]
    <3> DEFINE h == [call[k] EXCEPT !.at = "amount", !.status = st]
    <3>1. call' = [call EXCEPT ![k] = h]
      BY <2>3 DEF TypeOK
    <3> HIDE DEF h
    <3> QED
      BY <1>0, <2>3, <3>1, PendingMoves DEF FindPayment
  <2> QED
    BY <1>2, <2>1, <2>2, <2>3
<1>3. CASE Look(k) /\ Recorded(call[k].bill)
  BY <1>1, <1>2, <1>3 DEF Look, AfterRecord, Return
<1>4. CASE Look(k) /\ ~Recorded(call[k].bill)
  BY <1>2, <1>4 DEF Look
<1>5. CASE FindPayment(k)
  BY <1>1, <1>2, <1>5 DEF FindPayment, Return
<1> QED
  BY <1>3, <1>4, <1>5

LEMMA PendingActivates ==
  ASSUME TypeOK, Truth, Pending, NEW k \in Calls, Activate(k)
  PROVE  Pending'
<1> DEFINE o == call[k].bill
<1>0. call[k] \in Handling /\ o \in Orders /\ call[k].at = "activate"
      /\ UNCHANGED <<bill, redemption, upsets, events>>
  BY DEF TypeOK, Truth, Working, Activate, bounds
<1>1. CASE ~Insertable(o)
  <2> DEFINE h == [call[k] EXCEPT !.at = "look", !.since = 0]
  <2>1. call' = [call EXCEPT ![k] = h] /\ UNCHANGED row
    BY <1>1 DEF Activate, TypeOK
  <2>2. h.at = "look" /\ h.bill = o
    BY <1>0 DEF Handling
  <2> HIDE DEF h
  <2> QED
    BY <1>0, <1>1, <2>1, <2>2, PendingMoves
<1>2. CASE Insertable(o)
  <2> DEFINE h == [call[k] EXCEPT !.at = "redeem", !.since = 0]
  <2>1. /\ call' = [call EXCEPT ![k] = h]
        /\ row' = [row EXCEPT ![o] = [status |-> "SUCCESS", refunded |-> 0]]
    BY <1>2 DEF Activate, TypeOK
  <2>2. h.at = "redeem" /\ h.bill = o
    BY <1>0 DEF Handling
  <2>3. /\ row'[o].status = "SUCCESS"
        /\ \A p \in Orders : p # o => row'[p] = row[p]
    BY <1>0, <2>1 DEF TypeOK
  <2>4. call'[k] = h
    BY <2>1 DEF TypeOK
  <2> HIDE DEF h
  <2> SUFFICES ASSUME upsets = 0, NEW p \in Orders PROVE Unrecorded(p)' /\ Uncounted(p)'
    BY <1>0 DEF Pending
  <2>5. CASE p = o
    BY <1>0, <2>2, <2>3, <2>4, <2>5 DEF Unrecorded, Uncounted, Recorded, Carried
  <2>6. CASE p # o
    <3>1. \A places : Carried(p, places) => Carried(p, places)'
      BY <2>1, <2>6, OthersCarry
    <3>2. Unrecorded(p) /\ Uncounted(p)
      BY DEF Pending
    <3>3. Announced(p) <=> Announced(p)'
      BY <1>0 DEF Announced
    <3>4. (Recorded(p)' <=> Recorded(p)) /\ bill'[p] = bill[p]
      BY <1>0, <2>3, <2>6 DEF Recorded
    <3> HIDE DEF o
    <3>5. Unrecorded(p)'
      BY <3>1, <3>2, <3>3, <3>4 DEF Unrecorded
    <3>6. Uncounted(p)'
      BY <1>0, <3>1, <3>2, <3>4 DEF Uncounted
    <3> QED
      BY <3>5, <3>6
  <2> QED
    BY <2>5, <2>6
<1> QED
  BY <1>1, <1>2

LEMMA PendingRedeems ==
  ASSUME TypeOK, Truth, Pending, NEW k \in Calls, Redeem(k)
  PROVE  Pending'
<1> DEFINE o == call[k].bill
<1>0. call[k] \in Handling /\ call[k].at = "redeem" /\ o \in Orders
      /\ UNCHANGED <<bill, row, upsets, events>>
  BY DEF TypeOK, Truth, Working, Redeem, bounds
<1>1. /\ redemption \subseteq redemption'
      /\ bill[o].coupon => o \in redemption'
  BY DEF Redeem, Countable
<1>2. PICK h : call' = [call EXCEPT ![k] = h]
  <2>1. CASE call' = [call EXCEPT ![k].at = "refund"]
    <3> DEFINE g == [call[k] EXCEPT !.at = "refund"]
    <3>1. call' = [call EXCEPT ![k] = g]
      BY <2>1
    <3> HIDE DEF g
    <3> QED
      BY <3>1
  <2> QED
    BY <2>1 DEF Redeem, AfterRecord, Return
<1> SUFFICES ASSUME upsets = 0, NEW p \in Orders PROVE Unrecorded(p)' /\ Uncounted(p)'
  BY <1>0 DEF Pending
<1>3. Unrecorded(p) /\ Uncounted(p)
  BY DEF Pending
<1>4. Carried(p, {"look", "activate"}) => Carried(p, {"look", "activate"})'
  BY <1>0, <1>2, OthersCarry
<1>5. p # o /\ Carried(p, {"redeem"}) => Carried(p, {"redeem"})'
  BY <1>2, OthersCarry
<1>6. Unrecorded(p)'
  BY <1>0, <1>3, <1>4 DEF Unrecorded, Recorded, Announced
<1> HIDE DEF o
<1>7. Uncounted(p)'
  BY <1>0, <1>1, <1>3, <1>5 DEF Uncounted, Recorded
<1> QED
  BY <1>6, <1>7

LEMMA PendingRefunds ==
  ASSUME TypeOK, Truth, Pending, NEW k \in Calls, WriteRefund(k)
  PROVE  Pending'
<1> DEFINE o == call[k].bill
<1>0. /\ call[k].at = "amount" /\ o \in Orders /\ call[k].status # "none"
      /\ PaymentOf(o).status # "none"
      /\ UNCHANGED <<bill, redemption, upsets, events>>
      /\ \/ UNCHANGED row
         \/ /\ ~Blocked(o)
            /\ row' = [row EXCEPT ![o] = RefundedRow(call[k].total, call[k].status)]
      /\ call' = [call EXCEPT ![k] = NoCall]
  BY DEF Truth, Working, WriteRefund, Return, bounds
<1>1. \A p \in Orders : Recorded(p)' <=> Recorded(p)
  BY <1>0 DEF TypeOK, Recorded, RefundedRow, PaymentOf
<1> SUFFICES ASSUME upsets = 0, NEW p \in Orders PROVE Unrecorded(p)' /\ Uncounted(p)'
  BY <1>0 DEF Pending
<1>2. /\ Carried(p, {"look", "activate"}) => Carried(p, {"look", "activate"})'
      /\ Carried(p, {"redeem"}) => Carried(p, {"redeem"})'
  BY <1>0, OthersCarry
<1>3. Unrecorded(p) /\ Uncounted(p)
  BY DEF Pending
<1>4. Announced(p) <=> Announced(p)'
  BY <1>0 DEF Announced
<1> QED
  BY <1>0, <1>1, <1>2, <1>3, <1>4 DEF Unrecorded, Uncounted

LEMMA PendingBills ==
  ASSUME TypeOK, Truth, Pending, NEW o \in Orders, Bills(o)
  PROVE  Pending'
<1>0. UNCHANGED <<row, redemption, upsets, call>> /\ events \subseteq events'
  BY DEF Bills, CreateOrder, Decline, Pay, Refund, Announce, bounds
<1> SUFFICES ASSUME upsets = 0, NEW p \in Orders PROVE Unrecorded(p)' /\ Uncounted(p)'
  BY <1>0 DEF Pending
<1>1. Unrecorded(p) /\ Uncounted(p)
  BY DEF Pending
<1>2. /\ Announced(p) => Announced(p)'
      /\ \A places : Carried(p, places) <=> Carried(p, places)'
      /\ Recorded(p) <=> Recorded(p)'
  BY <1>0 DEF Announced, Carried, Recorded
<1>3. CASE bill'[p].status = bill[p].status /\ bill'[p].coupon = bill[p].coupon
  BY <1>0, <1>1, <1>2, <1>3 DEF Unrecorded, Uncounted
<1>4. CASE p = o /\ CreateOrder(o)
  <2>1. bill[o].status = "none" /\ bill'[o].status = "open"
    BY <1>4 DEF CreateOrder, TypeOK
  <2>2. ~Recorded(o)
    BY <2>1 DEF Truth, Booked
  <2> QED
    BY <1>2, <1>4, <2>1, <2>2 DEF Unrecorded, Uncounted
<1>5. CASE p = o /\ Pay(o)
  <2>1. bill[o] \in Order
    BY DEF TypeOK
  <2>0. PICK a \in Attempts :
          /\ bill' = [bill EXCEPT ![o].status = "paid", ![o].by = a]
          /\ Announce({"payment.captured", "order.paid"}, o, a, 0)
    BY <1>5 DEF Pay
  <2>2. bill'[o].coupon = bill[o].coupon
    BY <2>0, <2>1 DEF TypeOK, Order
  <2>3. [kind |-> "order.paid", bill |-> o, by |-> a, total |-> 0] \in events'
    BY <2>0 DEF Announce
  <2>4. Announced(o)'
    BY <2>3 DEF Announced
  <2> QED
    BY <1>0, <1>1, <1>2, <1>5, <2>2, <2>4 DEF Unrecorded, Uncounted
<1>6. CASE p # o
  <2>1. bill'[p] = bill[p]
    BY <1>6 DEF Bills, CreateOrder, Decline, Pay, Refund, TypeOK
  <2> QED
    BY <1>3, <2>1
<1>7. CASE Decline(o)
  BY <1>3, <1>7 DEF Decline
<1>8. CASE Refund(o)
  <2>1. bill[o] \in Order
    BY DEF TypeOK
  <2>2. PICK total \in bill[o].refund + 1 .. Price : bill' = [bill EXCEPT ![o].refund = total]
    BY <1>8 DEF Refund
  <2>3. bill'[o].status = bill[o].status /\ bill'[o].coupon = bill[o].coupon
    BY <2>1, <2>2 DEF TypeOK, Order
  <2> QED
    BY <1>3, <1>6, <2>3
<1> QED
  BY <1>4, <1>5, <1>6, <1>7, <1>8 DEF Bills

LEMMA PendingStep ==
  ASSUME TypeOK, Truth, Pending, [Next]_vars
  PROVE  Pending'
<1>0. ASSUME Upset PROVE Pending'
  <2>1. upsets' # 0
    BY <1>0 DEF Upset, TypeOK
  <2> QED
    BY <2>1 DEF Pending
<1>1. ASSUME NEW k \in Calls, NEW o \in Orders, NEW place, NEW total,
             call[k].at = "idle", Begin(k, place, o, total),
             UNCHANGED <<bill, row, redemption, upsets>>,
             \A e \in events : e.kind \in {"payment.captured", "order.paid"} =>
                e \in events' \/ (place = "look" /\ e.bill = o)
      PROVE  Pending'
  <2> DEFINE h == [NoCall EXCEPT !.at = place, !.bill = o, !.total = total]
  <2>1. call' = [call EXCEPT ![k] = h] /\ h.bill = o /\ h.at = place
    BY <1>1 DEF Begin, NoCall
  <2> HIDE DEF h
  <2> QED
    BY <1>1, <2>1, PendingMoves
<1>2. ASSUME NEW k \in Calls, NEW o \in Orders, Verify(k, o) \/ Import(k, o) PROVE Pending'
  BY <1>1, <1>2 DEF Verify, Import, money, bounds
<1>3. ASSUME NEW k \in Calls, NEW e \in events, HookPaid(k, e) \/ HookRefund(k, e)
      PROVE  Pending'
  <2>1. e.bill \in Orders
    BY DEF TypeOK, Event
  <2> QED
    BY <1>1, <1>3, <2>1 DEF HookPaid, HookRefund, bounds
<1>4. ASSUME NEW k \in Calls, CallStep(k) PROVE Pending'
  BY <1>0, <1>4, PendingLooks, PendingActivates, PendingRedeems, PendingRefunds
     DEF CallStep, CallFails
<1>5. ASSUME UNCHANGED <<bill, row, redemption, upsets, call>>,
             \A e \in events : e.kind \in {"payment.captured", "order.paid"} => e \in events'
      PROVE  Pending'
  BY <1>5 DEF Pending, Unrecorded, Uncounted, Announced, Carried, Recorded
<1>6. ASSUME NEW e \in events, HookFailed(e) \/ Lose(e) PROVE Pending'
  BY <1>0, <1>5, <1>6 DEF HookFailed, RecordFailure, Lose, bounds
<1>7. CASE Quiet
  BY <1>0, <1>5, <1>7 DEF Quiet, People, Clock, Cancel, Resume, Assign, Revoke,
     WritePlanType, ReadEnd, Extend, CronList, CronExpire, CronFails, GateRead,
     GateStatus, GatePlanType, Tick, vars, money, bounds
<1> QED
  BY Steps, <1>2, <1>3, <1>4, <1>6, <1>7, PendingBills
-----------------------------------------------------------------------------
(* The coupon's counter.                                                   *)
Tally ==
  /\ IsFiniteSet(redemption)
  /\ redeemed = Cardinality(redemption)
  /\ \A o \in redemption : bill[o].coupon /\ Recorded(o)

LEMMA TallyStep ==
  ASSUME TypeOK, Truth, Tally, [Next]_vars
  PROVE  Tally'
<1>1. ASSUME UNCHANGED <<redemption, redeemed>>,
             \A o \in redemption : bill'[o].coupon = bill[o].coupon /\ (Recorded(o) => Recorded(o)')
      PROVE  Tally'
  BY <1>1 DEF Tally
<1>2. ASSUME UNCHANGED <<redemption, redeemed, bill, row>> PROVE Tally'
  BY <1>1, <1>2 DEF Recorded
<1>3. ASSUME NEW k \in Calls, Activate(k) \/ WriteRefund(k) PROVE Tally'
  <2>1. call[k].bill \in Orders /\ (WriteRefund(k) => call[k].status # "none")
    BY <1>3 DEF Truth, Working, Activate, WriteRefund
  <2>2. \A o \in Orders : Recorded(o) => Recorded(o)'
    BY <1>3, <2>1 DEF Activate, WriteRefund, RefundedRow, Recorded, TypeOK
  <2>3. redemption \subseteq Orders
    BY DEF TypeOK
  <2> QED
    BY <1>1, <1>3, <2>2, <2>3 DEF Activate, WriteRefund
<1>4. ASSUME NEW k \in Calls, Redeem(k) PROVE Tally'
  <2> DEFINE o == call[k].bill
  <2>1. Recorded(o) /\ UNCHANGED <<bill, row>>
    BY <1>4 DEF Redeem, Truth, Working
  <2>2. CASE ~Countable(o)
    BY <1>2, <1>4, <2>1, <2>2 DEF Redeem
  <2>3. CASE Countable(o)
    <3>1. redemption' = redemption \cup {o} /\ redeemed' = redeemed + 1
      BY <1>4, <2>3 DEF Redeem
    <3>2. o \notin redemption /\ bill[o].coupon
      BY <2>3 DEF Countable
    <3>3. IsFiniteSet(redemption') /\ Cardinality(redemption') = Cardinality(redemption) + 1
      BY <3>1, <3>2, FS_AddElement DEF Tally
    <3> HIDE DEF o
    <3> QED
      BY <2>1, <3>1, <3>2, <3>3 DEF Tally, Recorded
  <2> QED
    BY <2>2, <2>3
<1>5. ASSUME NEW k \in Calls, CallStep(k) PROVE Tally'
  BY <1>2, <1>3, <1>4, <1>5 DEF CallStep, Look, FindPayment, CallFails, money
<1>6. ASSUME NEW o \in Orders, Bills(o) PROVE Tally'
  <2>1. UNCHANGED <<redemption, redeemed, row>> /\ redemption \subseteq Orders
    BY <1>6 DEF Bills, CreateOrder, Decline, Pay, Refund, TypeOK
  <2>2. bill[o] \in Order
    BY DEF TypeOK
  <2>3. CASE CreateOrder(o)
    <3>1. bill[o].status = "none"
      BY <2>3 DEF CreateOrder
    <3>2. ~Recorded(o)
      BY <3>1 DEF Truth, Booked
    <3>3. o \notin redemption
      BY <3>2 DEF Tally
    <3>4. \A p \in Orders : p # o => bill'[p] = bill[p]
      BY <2>3 DEF CreateOrder, TypeOK
    <3> QED
      BY <1>1, <2>1, <3>3, <3>4 DEF Recorded
  <2>4. CASE Pay(o) \/ Refund(o)
    <3>1. ASSUME NEW t, NEW a, \/ bill' = [bill EXCEPT ![o].refund = t]
                               \/ bill' = [bill EXCEPT ![o].status = "paid", ![o].by = a]
          PROVE  Tally'
      <4>0. \A p \in Orders : bill[p] \in Order
        BY DEF TypeOK
      <4>1. CASE bill' = [bill EXCEPT ![o].refund = t]
        BY <1>1, <2>1, <4>0, <4>1 DEF TypeOK, Order, Recorded
      <4>2. CASE bill' = [bill EXCEPT ![o].status = "paid", ![o].by = a]
        <5>1. \A p \in Orders : bill'[p].coupon = bill[p].coupon
          BY <4>0, <4>2 DEF TypeOK, Order
        <5> QED
          BY <1>1, <2>1, <5>1 DEF Recorded
      <4> QED
        BY <3>1, <4>1, <4>2
    <3>2. CASE Pay(o)
      BY <3>1, <3>2 DEF Pay
    <3>3. CASE Refund(o)
      BY <3>1, <3>3 DEF Refund
    <3> QED
      BY <2>4, <3>2, <3>3
  <2>5. CASE Decline(o)
    BY <1>2, <2>5 DEF Decline
  <2> QED
    BY <1>6, <2>3, <2>4, <2>5 DEF Bills
<1>7. CASE Quiet
  BY <1>2, <1>7 DEF Quiet, People, Clock, Cancel, Resume, Assign, Revoke,
     WritePlanType, ReadEnd, Extend, CronList, CronExpire, CronFails, GateRead,
     GateStatus, GatePlanType, Tick, vars, money
<1>8. ASSUME NEW k \in Calls,
             \/ \E o \in Orders : Verify(k, o) \/ Import(k, o)
             \/ \E e \in events : HookPaid(k, e) \/ HookRefund(k, e)
      PROVE  Tally'
  BY <1>2, <1>8 DEF Verify, Import, HookPaid, HookRefund, money
<1>9. ASSUME NEW e \in events, HookFailed(e) \/ Lose(e) PROVE Tally'
  BY <1>2, <1>9 DEF HookFailed, RecordFailure, Lose
<1> QED
  BY Steps, <1>5, <1>6, <1>7, <1>8, <1>9

LEMMA Settled == Spec => [](TypeOK /\ Truth /\ Pending /\ Tally)
<1>1. Init => Pending /\ Tally
  BY FS_EmptySet DEF Init, Pending, Unrecorded, Uncounted, Tally, NoRow, Recorded
<1>2. TypeOK /\ Truth /\ Pending /\ Tally /\ [Next]_vars => (Pending /\ Tally)'
  BY PendingStep, TallyStep
<1> QED
  BY <1>1, <1>2, Truthful, PTL DEF Spec

(* As long as no call of ours failed and no event was lost, a payment that *)
(* no event and no call has still to record is on record, however many     *)
(* attempts of its order have failed before it.                            *)
THEOREM EveryPaymentRecorded == Spec => []PaidIsRecorded
<1>1. Pending => PaidIsRecorded
  BY DEF Pending, Unrecorded, Announced, Carried, PaidIsRecorded, Waiting
<1> QED
  BY <1>1, Settled, PTL

(* A coupon's counter is the number of payments it was redeemed with.      *)
THEOREM CouponsCounted == Spec => []CouponCounted
<1>1. Pending /\ Tally => CouponCounted
  BY DEF Pending, Tally, Uncounted, Carried, CouponCounted, Waiting
<1> QED
  BY <1>1, Settled, PTL
=============================================================================
