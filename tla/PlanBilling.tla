---------------------------- MODULE PlanBilling ----------------------------
(***************************************************************************)
(* modules/billing: the plan of one organization, how it is bought with    *)
(* Razorpay, given back, cancelled, changed by an administrator and ended  *)
(* when its period is over.  A payment reaches activatePlanFromOrder from  *)
(* the browser, from two webhook events and from an administrator's        *)
(* import; everything that touches the subscription row runs at the same   *)
(* time as everything else, on any instance.                               *)
(***************************************************************************)
EXTENDS Integers, FiniteSets

CONSTANTS
  Orders,          \* Razorpay orders of the organization
  NoOrder,         \* the order of a call that has none
  Attempts,        \* Razorpay payments: the attempts to pay an order
  NoAttempt,       \* of an order that is not paid
  Calls,           \* requests and events being handled at once
  Plans,           \* plans that are sold
  Days,            \* plan -> length of its period
  Free,            \* FREE_DEMO
  Price,           \* what an order costs, in units that are refunded
  MaxRedemptions,  \* Coupon.maxRedemptions
  MaxTime,         \* bound: days that pass
  MaxOps,          \* bound: requests of customer and staff, failed attempts, refunds
  MaxUpsets        \* bound: calls that fail or are lost

ASSUME BillingAssumption ==
  /\ NoOrder \notin Orders
  /\ NoAttempt \notin Attempts
  /\ Free \notin Plans
  /\ Days \in [Plans \cup {Free} -> Nat \ {0}]
  /\ Price \in Nat \ {0}
  /\ MaxRedemptions \in Nat
  /\ MaxTime \in Nat
  /\ MaxOps \in Nat
  /\ MaxUpsets \in Nat

VARIABLES
  time,
  sub,        \* Subscription: status, plan, currentPeriodEnd
  orgPlan,    \* Organization.planType
  bill,       \* the orders at Razorpay
  row,        \* Payment with this razorpayOrderId
  failed,     \* Payment with this razorpayPaymentId and no razorpayOrderId
  redeemed,   \* Coupon.redeemedCount
  redemption, \* CouponRedemption
  events,     \* webhook events on their way
  call,       \* the requests and events being handled
  clerk,      \* an upgrade, a grant or a revocation between its two writes
  cron,       \* checkAndExpireSubscriptions has listed the subscription
  gate,       \* writes isSubscriptionActive has not waited for
  ops, upsets,
  granted,    \* how often each order was turned into a period
  raced       \* the period was changed while an expiry was under way

money == <<bill, row, failed, redeemed, redemption, events>>
plan == <<sub, orgPlan>>
others == <<clerk, cron, gate>>
bounds == <<ops, upsets>>
ghosts == <<granted, raced>>
vars == <<time, money, plan, call, others, bounds, ghosts>>

AnyPlan == Plans \cup {Free}
NoRow == [status |-> "none", refunded |-> 0]
FailedRow == [status |-> "FAILED", refunded |-> 0]
NoCall == [at |-> "idle", bill |-> NoOrder, since |-> 0, total |-> 0, status |-> "none"]
Resting == [at |-> "idle", plan |-> Free, end |-> 0]

Order == [status : {"none", "open", "paid"}, plan : AnyPlan, coupon : BOOLEAN,
          by : Attempts \cup {NoAttempt}, refund : 0 .. Price]
Statuses == {"none", "SUCCESS", "FAILED", "REFUNDED"}
Payment == [status : Statuses, refunded : 0 .. Price]
Subscription == [status : {"ACTIVE", "CANCELLED", "EXPIRED"},
                 plan : AnyPlan, end : Nat]
Handling == [at : {"idle", "look", "activate", "redeem", "refund", "amount"},
             bill : Orders \cup {NoOrder}, since : Nat, total : 0 .. Price,
             status : Statuses]
Clerk == [at : {"idle", "planType", "extend"}, plan : AnyPlan, end : Nat]
EventKinds == {"payment.captured", "order.paid", "payment.failed", "refund.processed"}
Event == [kind : EventKinds, bill : Orders, by : Attempts, total : 0 .. Price]

TypeOK ==
  /\ time \in 0 .. MaxTime
  /\ sub \in Subscription
  /\ orgPlan \in AnyPlan
  /\ bill \in [Orders -> Order]
  /\ row \in [Orders -> Payment]
  /\ failed \in [Orders -> [Attempts -> Payment]]
  /\ redeemed \in Nat
  /\ redemption \subseteq Orders
  /\ events \subseteq Event
  /\ call \in [Calls -> Handling]
  /\ clerk \in Clerk
  /\ cron \in BOOLEAN
  /\ gate \subseteq {"status", "planType"}
  /\ ops \in 0 .. MaxOps
  /\ upsets \in 0 .. MaxUpsets
  /\ granted \in [Orders -> Nat]
  /\ raced \in BOOLEAN

(* auth.service.ts: an organization begins with the demo plan.             *)
Init ==
  /\ time = 0
  /\ sub = [status |-> "ACTIVE", plan |-> Free, end |-> Days[Free]]
  /\ orgPlan = Free
  /\ bill = [o \in Orders |-> [status |-> "none", plan |-> Free, coupon |-> FALSE,
                               by |-> NoAttempt, refund |-> 0]]
  /\ row = [o \in Orders |-> NoRow]
  /\ failed = [o \in Orders |-> [a \in Attempts |-> NoRow]]
  /\ redeemed = 0
  /\ redemption = {}
  /\ events = {}
  /\ call = [k \in Calls |-> NoCall]
  /\ clerk = Resting
  /\ cron = FALSE
  /\ gate = {}
  /\ ops = 0
  /\ upsets = 0
  /\ granted = [o \in Orders |-> 0]
  /\ raced = FALSE
-----------------------------------------------------------------------------
Upset == upsets < MaxUpsets /\ upsets' = upsets + 1
Operation == ops < MaxOps /\ ops' = ops + 1

Recorded(o) == row[o].status # "none"

(* The attempt that was captured is on record as failed, and that row      *)
(* holds its razorpayPaymentId.                                            *)
Blocked(o) == bill[o].by # NoAttempt /\ failed[o][bill[o].by].status # "none"

Ended == sub.end < time
ExpirableAnyTime == sub.status = "ACTIVE"
Expirable == sub.status = "ACTIVE" /\ Ended

(* Somebody has read the subscription as over and not yet written it.      *)
Expiring == cron \/ gate # {}

(* createRazorpayOrder: the coupon is looked at here and only counted when *)
(* the order has been paid.  Coupon and price travel in the order's notes. *)
CouponGood == redeemed < MaxRedemptions /\ redemption = {}

CreateOrder(o) ==
  /\ bill[o].status = "none"
  /\ \E p \in Plans, coupon \in BOOLEAN :
       /\ coupon => CouponGood
       /\ bill' = [bill EXCEPT ![o] = [status |-> "open", plan |-> p, coupon |-> coupon,
                                       by |-> NoAttempt, refund |-> 0]]
  /\ UNCHANGED <<time, row, failed, redeemed, redemption, events, plan, call,
                 others, bounds, ghosts>>

(* Razorpay, as the webhook knows it: attempts may fail before one is      *)
(* captured - another one, or one that was reported as failed and then     *)
(* went through after all -, a captured payment is announced twice, and a  *)
(* refund is announced with the total refunded so far.                     *)
Announce(kinds, o, a, total) ==
  events' = events \cup [kind : kinds, bill : {o}, by : {a}, total : {total}]

Decline(o) ==
  /\ Operation
  /\ bill[o].status = "open"
  /\ \E a \in Attempts : Announce({"payment.failed"}, o, a, 0)
  /\ UNCHANGED <<time, bill, row, failed, redeemed, redemption, plan, call,
                 others, upsets, ghosts>>

Pay(o) ==
  /\ bill[o].status = "open"
  /\ \E a \in Attempts :
       /\ bill' = [bill EXCEPT ![o].status = "paid", ![o].by = a]
       /\ Announce({"payment.captured", "order.paid"}, o, a, 0)
  /\ UNCHANGED <<time, row, failed, redeemed, redemption, plan, call,
                 others, bounds, ghosts>>

Refund(o) ==
  /\ Operation
  /\ bill[o].status = "paid"
  /\ \E total \in bill[o].refund + 1 .. Price :
       /\ bill' = [bill EXCEPT ![o].refund = total]
       /\ Announce({"refund.processed"}, o, bill[o].by, total)
  /\ UNCHANGED <<time, row, failed, redeemed, redemption, plan, call,
                 others, upsets, ghosts>>
-----------------------------------------------------------------------------
(* The calls: who comes in, and what is still to do.                       *)
Begin(k, place, o, total) ==
  call' = [call EXCEPT ![k] = [NoCall EXCEPT !.at = place, !.bill = o, !.total = total]]

Return(k) == call' = [call EXCEPT ![k] = NoCall]

(* What is left once the payment is on record: an import goes on to apply  *)
(* the refunds it has seen, everything else answers.                       *)
AfterRecord(k) ==
  IF call[k].total > 0 THEN call' = [call EXCEPT ![k].at = "refund"] ELSE Return(k)

(* verifyRazorpayPayment: the browser comes back with a valid signature.   *)
Verify(k, o) ==
  /\ Operation
  /\ call[k].at = "idle"
  /\ bill[o].status = "paid"
  /\ Begin(k, "look", o, 0)
  /\ UNCHANGED <<time, money, plan, others, upsets, ghosts>>

(* importRazorpayPayment: an administrator records what was missed.        *)
Import(k, o) ==
  /\ Operation
  /\ call[k].at = "idle"
  /\ bill[o].status = "paid"
  /\ Begin(k, "look", o, bill[o].refund)
  /\ UNCHANGED <<time, money, plan, others, upsets, ghosts>>

(* The webhook has answered 200 when it starts on an event, so an event    *)
(* comes once, or - Lose - never.                                          *)
HookPaid(k, e) ==
  /\ call[k].at = "idle"
  /\ e.kind \in {"payment.captured", "order.paid"}
  /\ events' = events \ {e}
  /\ Begin(k, "look", e.bill, 0)
  /\ UNCHANGED <<time, bill, row, failed, redeemed, redemption, plan, others,
                 bounds, ghosts>>

HookRefund(k, e) ==
  /\ call[k].at = "idle"
  /\ e.kind = "refund.processed"
  /\ events' = events \ {e}
  /\ Begin(k, "refund", e.bill, e.total)
  /\ UNCHANGED <<time, bill, row, failed, redeemed, redemption, plan, others,
                 bounds, ghosts>>

(* recordFailedPlanPayment: an upsert that updates nothing, keyed on the   *)
(* payment and not on the order.                                           *)
RecordFailure(o, a) ==
  /\ failed' = IF failed[o][a].status # "none" \/ (Recorded(o) /\ bill[o].by = a)
                 THEN failed
                 ELSE [failed EXCEPT ![o][a] = FailedRow]
  /\ UNCHANGED row

HookFailed(e) ==
  /\ e.kind = "payment.failed"
  /\ events' = events \ {e}
  /\ RecordFailure(e.bill, e.by)
  /\ UNCHANGED <<time, bill, redeemed, redemption, plan, call, others, bounds, ghosts>>

Lose(e) ==
  /\ Upset
  /\ events' = events \ {e}
  /\ UNCHANGED <<time, bill, row, failed, redeemed, redemption, plan, call,
                 others, ops, ghosts>>

LookByOrder(k) ==
  /\ call[k].at = "look"
  /\ IF \/ Recorded(call[k].bill)
        \/ \E a \in Attempts : failed[call[k].bill][a].status # "none"
       THEN AfterRecord(k)
       ELSE call' = [call EXCEPT ![k].at = "activate", ![k].since = time]
  /\ UNCHANGED <<time, money, plan, others, bounds, ghosts>>

(* activatePlanFromOrder: a Payment with this order means it was done;     *)
(* otherwise the period is computed from now.                              *)
Look(k) ==
  /\ call[k].at = "look"
  /\ IF Recorded(call[k].bill)
       THEN AfterRecord(k)
       ELSE call' = [call EXCEPT ![k].at = "activate", ![k].since = time]
  /\ UNCHANGED <<time, money, plan, others, bounds, ghosts>>

(* Its transaction: subscription, plan type and Payment together.          *)
Grant(p, end) ==
  /\ sub' = [status |-> "ACTIVE", plan |-> p, end |-> end]
  /\ raced' = (raced \/ Expiring)

(* Payment.razorpayOrderId is unique, and so is razorpayPaymentId.         *)
InsertableAgain(o) == TRUE
Insertable(o) == ~Recorded(o) /\ ~Blocked(o)

(* Whichever of the two refuses the insert, it is taken for "the other     *)
(* path recorded it a moment ago" and the whole of it is done once more:   *)
(* over and over if it was the row of a failure.                           *)

Activate(k) ==
  /\ call[k].at = "activate"
  /\ LET o == call[k].bill IN
       IF Insertable(o)
         THEN /\ Grant(bill[o].plan, call[k].since + Days[bill[o].plan])
              /\ orgPlan' = bill[o].plan
              /\ row' = [row EXCEPT ![o] = [status |-> "SUCCESS", refunded |-> 0]]
              /\ granted' = [granted EXCEPT ![o] = @ + 1]
              /\ call' = [call EXCEPT ![k].at = "redeem", ![k].since = 0]
         ELSE /\ call' = [call EXCEPT ![k].at = "look", ![k].since = 0]
              /\ UNCHANGED <<plan, row, ghosts>>
  /\ UNCHANGED <<time, bill, failed, redeemed, redemption, events, others, bounds>>

(* recordCouponRedemption: one transaction, and razorpayOrderId is unique  *)
(* there too.                                                              *)
CountableAny(o) == o \notin redemption
Countable(o) == bill[o].coupon /\ o \notin redemption

Redeem(k) ==
  /\ call[k].at = "redeem"
  /\ LET o == call[k].bill IN
       IF Countable(o)
         THEN /\ redemption' = redemption \cup {o}
              /\ redeemed' = redeemed + 1
         ELSE UNCHANGED <<redemption, redeemed>>
  /\ AfterRecord(k)
  /\ UNCHANGED <<time, bill, row, failed, events, plan, others, bounds, ghosts>>

(* recordRefund reads the Payment by its razorpayPaymentId: the row of the *)
(* order, or that of a failure, and there may be none yet;                 *)
PaymentOf(o) == IF Blocked(o) THEN failed[o][bill[o].by] ELSE row[o]

FindPayment(k) ==
  /\ call[k].at = "refund"
  /\ LET found == PaymentOf(call[k].bill) IN
       IF found.status # "none"
         THEN call' = [call EXCEPT ![k].at = "amount", ![k].status = found.status]
         ELSE Return(k)
  /\ UNCHANGED <<time, money, plan, others, bounds, ghosts>>

(* then it writes the total it was told and the status it read.            *)
RefundedInFull(total, status) == [status |-> "REFUNDED", refunded |-> total]
RefundedRow(total, status) ==
  [status |-> IF total >= Price THEN "REFUNDED" ELSE status, refunded |-> total]

WriteRefund(k) ==
  /\ call[k].at = "amount"
  /\ LET o == call[k].bill
         refunded == RefundedRow(call[k].total, call[k].status)
     IN  IF Blocked(o)
           THEN failed' = [failed EXCEPT ![o][bill[o].by] = refunded] /\ UNCHANGED row
           ELSE row' = [row EXCEPT ![o] = refunded] /\ UNCHANGED failed
  /\ Return(k)
  /\ UNCHANGED <<time, bill, redeemed, redemption, events, plan, others, bounds, ghosts>>

(* A database error, or the end of the process; the coupon's bookkeeping   *)
(* swallows its own errors.                                                *)
CallFails(k) ==
  /\ call[k].at # "idle"
  /\ Upset
  /\ Return(k)
  /\ UNCHANGED <<time, money, plan, others, ops, ghosts>>
-----------------------------------------------------------------------------
(* cancelSubscription and resumeSubscription write only the status.        *)
Cancel ==
  /\ Operation
  /\ sub.status # "CANCELLED"
  /\ sub' = [sub EXCEPT !.status = "CANCELLED"]
  /\ UNCHANGED <<time, money, orgPlan, call, others, upsets, ghosts>>

Resume ==
  /\ Operation
  /\ sub' = [sub EXCEPT !.status = "ACTIVE"]
  /\ raced' = (raced \/ Expiring)
  /\ UNCHANGED <<time, money, orgPlan, call, others, upsets, granted>>

(* upgradePlan (to the free plan) and assignPlan write the subscription    *)
(* and then, in a statement of its own, the plan type.                     *)
Assign ==
  /\ clerk.at = "idle"
  /\ Operation
  /\ \E p \in AnyPlan :
       /\ Grant(p, time + Days[p])
       /\ clerk' = [Resting EXCEPT !.at = "planType", !.plan = p]
  /\ UNCHANGED <<time, money, orgPlan, call, cron, gate, upsets, granted>>

(* revokeSubscription: at once, or at the end of the period.               *)
Revoke ==
  /\ clerk.at = "idle"
  /\ Operation
  /\ \E end \in {sub.end, time} :
       sub' = [sub EXCEPT !.status = "CANCELLED", !.end = end]
  /\ raced' = (raced \/ Expiring)
  /\ clerk' = [Resting EXCEPT !.at = "planType"]
  /\ UNCHANGED <<time, money, orgPlan, call, cron, gate, upsets, granted>>

WritePlanType ==
  /\ clerk.at = "planType"
  /\ orgPlan' = clerk.plan
  /\ clerk' = Resting
  /\ UNCHANGED <<time, money, sub, call, cron, gate, bounds, ghosts>>

(* extendSubscription reads the end of the period and writes a later one;  *)
(* the plan type is not written.                                           *)
ReadEnd ==
  /\ clerk.at = "idle"
  /\ Operation
  /\ clerk' = [Resting EXCEPT !.at = "extend", !.end = (IF Ended THEN time ELSE sub.end) + 1]
  /\ UNCHANGED <<time, money, plan, call, cron, gate, upsets, ghosts>>

Extend ==
  /\ clerk.at = "extend"
  /\ sub' = [sub EXCEPT !.status = "ACTIVE", !.end = clerk.end]
  /\ raced' = (raced \/ Expiring)
  /\ clerk' = Resting
  /\ UNCHANGED <<time, money, orgPlan, call, cron, gate, bounds, granted>>
-----------------------------------------------------------------------------
(* checkAndExpireSubscriptions, one instance at a time (JobLock): it lists *)
(* what is over and then expires each row by its id, whatever it says now. *)
CronList ==
  /\ ~cron
  /\ Expirable
  /\ cron' = TRUE
  /\ UNCHANGED <<time, money, plan, call, clerk, gate, bounds, ghosts>>

CronExpire ==
  /\ cron
  /\ cron' = FALSE
  /\ sub' = [sub EXCEPT !.status = "EXPIRED"]
  /\ orgPlan' = Free
  /\ UNCHANGED <<time, money, call, clerk, gate, bounds, ghosts>>

CronFails ==
  /\ cron
  /\ Upset
  /\ cron' = FALSE
  /\ UNCHANGED <<time, money, plan, call, clerk, gate, ops, ghosts>>

(* isSubscriptionActive: any request may find the period over; it starts   *)
(* two writes and waits for neither.                                       *)
GateRead ==
  /\ Operation
  /\ gate = {}
  /\ Expirable
  /\ gate' = {"status", "planType"}
  /\ UNCHANGED <<time, money, plan, call, clerk, cron, upsets, ghosts>>

GateStatus ==
  /\ "status" \in gate
  /\ gate' = gate \ {"status"}
  /\ sub' = [sub EXCEPT !.status = "EXPIRED"]
  /\ UNCHANGED <<time, money, orgPlan, call, clerk, cron, bounds, ghosts>>

GatePlanType ==
  /\ "planType" \in gate
  /\ gate' = gate \ {"planType"}
  /\ orgPlan' = Free
  /\ UNCHANGED <<time, money, sub, call, clerk, cron, bounds, ghosts>>

Tick ==
  /\ time < MaxTime
  /\ time' = time + 1
  /\ UNCHANGED <<money, plan, call, others, bounds, ghosts>>
-----------------------------------------------------------------------------
CallStep(k) ==
  \/ Look(k) \/ Activate(k) \/ Redeem(k)
  \/ FindPayment(k) \/ WriteRefund(k) \/ CallFails(k)

Arrive(k) ==
  \/ \E o \in Orders : Verify(k, o) \/ Import(k, o)
  \/ \E e \in events : HookPaid(k, e) \/ HookRefund(k, e)

Razorpay(o) == CreateOrder(o) \/ Decline(o) \/ Pay(o) \/ Refund(o)

People == Cancel \/ Resume \/ Assign \/ Revoke \/ WritePlanType \/ ReadEnd \/ Extend

Clock == Tick \/ CronList \/ CronExpire \/ CronFails \/ GateRead \/ GateStatus \/ GatePlanType

Next ==
  \/ \E k \in Calls : Arrive(k) \/ CallStep(k)
  \/ \E o \in Orders : Razorpay(o)
  \/ \E e \in events : HookFailed(e) \/ Lose(e)
  \/ People
  \/ Clock

Spec == Init /\ [][Next]_vars
-----------------------------------------------------------------------------
(* activatePlanFromOrder: "the customer is never extended twice and the    *)
(* money is never counted twice", whichever of the browser, the two events *)
(* and an import come, in whatever order.                                  *)
ExtendedOnce == \A o \in Orders : granted[o] <= 1 /\ (Recorded(o) <=> granted[o] = 1)

(* Somebody has still to record the payment.                               *)
Waiting(o) ==
  \/ \E e \in events : e.bill = o /\ e.kind \in {"payment.captured", "order.paid"}
  \/ \E k \in Calls : call[k].bill = o /\ call[k].at \in {"look", "activate"}

(* Without a failure on our side nobody is done with a payment before it   *)
(* is on record, also if the browser never came back and if attempts had   *)
(* failed before: it must not come to "a customer whose first attempt      *)
(* failed and second succeeded would never get the plan"                   *)
(* (recordFailedPlanPayment).  That the call comes to an end is not said:  *)
(* if the very attempt that was captured is on record as failed,           *)
(* activatePlanFromOrder calls itself for ever and the payment is never    *)
(* recorded.                                                               *)
PaidIsRecorded ==
  upsets = 0 => \A o \in Orders :
    bill[o].status = "paid" /\ ~Waiting(o) => Recorded(o)

(* The coupon's counter is the number of its redemptions, each belongs to  *)
(* a payment, and without a failure each payment with the coupon has one.  *)
CouponCounted ==
  /\ redeemed = Cardinality(redemption)
  /\ \A o \in redemption : bill[o].coupon /\ Recorded(o)
  /\ upsets = 0 => \A o \in Orders :
       Recorded(o) /\ bill[o].coupon /\ o \notin redemption =>
         \E k \in Calls : call[k].bill = o /\ call[k].at = "redeem"

(* recordRefund sets the total it was told: events that come late, or both *)
(* from the webhook and an import, never add up to more than was given     *)
(* back, and a payment is not shown as refunded before all of it is, be it *)
(* the row of the order or one that a failure has left.                    *)
RefundNeverAhead ==
  \A o \in Orders :
    /\ PaymentOf(o).refunded <= bill[o].refund
    /\ PaymentOf(o).status = "REFUNDED" => bill[o].refund = Price

(* A plan is only expired before its period is over by somebody who had    *)
(* found it over before the period was changed: the one way in which a     *)
(* customer who has just paid loses the plan.                              *)
CutOnlyByRace == sub.status = "EXPIRED" /\ ~raced => Ended
=============================================================================
