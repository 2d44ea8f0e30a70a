----------------------------- MODULE TopUpOrder -----------------------------
(***************************************************************************)
(* The life of one wallet top-up order (wallet.service.ts,                 *)
(* wallet.webhook.ts, wallet.reconciliation.service.ts): the customer pays *)
(* at the gateway, and the browser, the gateway's webhooks, the customer's *)
(* retry button and a reconciliation pass on every server instance all try *)
(* to turn the payment into one credit of the wallet.                      *)
(*                                                                         *)
(* Each of them credits in a transaction of its own: it locks the wallet's *)
(* row, looks for a credit of the order, and commits.  Time is counted in  *)
(* reconciliation periods of five minutes.                                 *)
(***************************************************************************)
EXTENDS Integers, FiniteSets

CONSTANTS
  Cron,          \* server instances, each with its own reconciliation timer
  Event,         \* webhook events that announce a payment
  NoOne,         \* holds the lock of a row that is not locked
  Window,        \* periods during which an order is reconciled (24 h)
  MaxFaults      \* bound: failed credits and fetches, bad signatures, deaths

(* The other callers of the credit, one of each kind at a time.            *)
Caller == Cron \cup Event \cup {"verify", "retry"}

ASSUME TopUpAssumption ==
  /\ Window \in Nat /\ MaxFaults \in Nat
  /\ Event \subseteq {"payment.captured", "order.paid"}
  /\ Cron \cap (Event \cup {"verify", "retry"}) = {} /\ NoOne \notin Caller

VARIABLES
  gateway,       \* the gateway's order: its payment is captured once it is paid
  status,        \* the WalletTopUpOrder row
  attempts,
  credits,       \* wallet credits written for the order
  hooks,         \* webhook events the gateway may still deliver
  at,            \* where each caller is with this order
  lock,          \* whose transaction has locked the wallet's row
  due,           \* instances whose timer has fired
  age,           \* periods since the order was created
  faults

orderVars == <<gateway, status, attempts, credits, hooks, at, lock, due, age, faults>>

MaxAttempts == 5

Paid == gateway = "paid"

OrderTypeOK ==
  /\ gateway \in {"created", "paid"}
  /\ status \in {"PENDING", "COMPLETED", "FAILED"}
  /\ attempts \in Nat
  /\ credits \in Nat
  /\ hooks \subseteq Event \cup {"payment.failed"}
  /\ at \in [Caller -> {"idle", "listed", "unpaid", "credit", "locked", "found", "missing", "threw"}]
  /\ lock \in Caller \cup {NoOne}
  /\ due \subseteq Cron
  /\ age \in 0..Window
  /\ faults \in 0..MaxFaults

(* createTopUpOrder: the gateway's order exists, and so does its row. *)
OrderInit ==
  /\ gateway = "created"
  /\ status = "PENDING"
  /\ attempts = 0
  /\ credits = 0
  /\ hooks = {}
  /\ at = [c \in Caller |-> "idle"]
  /\ lock = NoOne
  /\ due = {}
  /\ age = 0
  /\ faults = 0

Goes(c, from, to) == at[c] = from /\ at' = [at EXCEPT ![c] = to]

(* The database or the gateway fails, or the wallet is missing or inactive.*)
Fault == faults < MaxFaults /\ faults' = faults + 1

Attempted == attempts' = attempts + 1

-----------------------------------------------------------------------------
(* The customer at the gateway, who may take all the time in the world.    *)

PaymentFails ==
  /\ ~ Paid
  /\ hooks' = hooks \cup {"payment.failed"}
  /\ UNCHANGED <<gateway, status, attempts, credits, at, lock, due, age, faults>>

Pay ==
  /\ ~ Paid
  /\ gateway' = "paid"
  /\ hooks' = hooks \cup Event
  /\ UNCHANGED <<status, attempts, credits, at, lock, due, age, faults>>

-----------------------------------------------------------------------------
(* creditWalletAtomic, the transaction of caller c.                        *)

LockWallet(c) ==
  /\ lock = NoOne /\ lock' = c
  /\ Goes(c, "credit", "locked")
  /\ UNCHANGED <<gateway, status, attempts, credits, hooks, due, age, faults>>

(* A credit that exists is found by the ids of its order and its payment,  *)
(* whatever the order's row says.                                          *)
CompletedBefore == status = "COMPLETED"
Existing == credits > 0

FindCredit(c) ==
  /\ Goes(c, "locked", IF Existing THEN "found" ELSE "missing")
  /\ UNCHANGED <<gateway, status, attempts, credits, hooks, lock, due, age, faults>>

Unlock(c) == lock' = IF lock = c THEN NoOne ELSE lock

(* The order is completed in either case.                                  *)
CommitCredit(c) ==
  /\ at[c] \in {"found", "missing"}
  /\ credits' = IF at[c] = "missing" THEN credits + 1 ELSE credits
  /\ status' = "COMPLETED"
  /\ Goes(c, at[c], "idle") /\ Unlock(c)
  /\ UNCHANGED <<gateway, attempts, hooks, due, age, faults>>

(* It is rolled back, also by its timeout, or was never begun because the  *)
(* gateway did not answer; all but the retry note the failure.             *)
Throws(c) ==
  /\ at[c] \in {"listed", "credit", "locked", "found", "missing"} /\ Fault
  /\ Goes(c, at[c], IF c = "retry" THEN "idle" ELSE "threw") /\ Unlock(c)
  /\ UNCHANGED <<gateway, status, attempts, credits, hooks, due, age>>

(* The error handler of verify fails the order, whatever became of it.     *)
NoteFailure(c) ==
  /\ Goes(c, "threw", "idle")
  /\ Attempted
  /\ status' = IF c = "verify" THEN "FAILED" ELSE status
  /\ UNCHANGED <<gateway, credits, hooks, lock, due, age, faults>>

(* The process dies, and with it its transaction.                          *)
Dies(c) ==
  /\ at[c] # "idle" /\ Fault
  /\ Goes(c, at[c], "idle") /\ Unlock(c)
  /\ UNCHANGED <<gateway, status, attempts, credits, hooks, due, age>>

-----------------------------------------------------------------------------
(* processTopUp.  A signature is valid only for a payment that was made;   *)
(* the amount is the gateway's, or the order's own if it is unreachable.   *)

SignedAnyway == TRUE
Signed == Paid

Verify ==
  /\ Signed
  /\ Goes("verify", "idle", "credit")
  /\ UNCHANGED <<gateway, status, attempts, credits, hooks, lock, due, age, faults>>

VerifyBadSignature ==
  /\ at["verify"] = "idle" /\ Fault
  /\ status' = "FAILED" /\ Attempted
  /\ UNCHANGED <<gateway, credits, hooks, at, lock, due, age>>

(* retryTopUpVerification, from the customer's button.                     *)
Retry ==
  /\ status # "COMPLETED" /\ Paid
  /\ Goes("retry", "idle", "credit")
  /\ UNCHANGED <<gateway, status, attempts, credits, hooks, lock, due, age, faults>>

-----------------------------------------------------------------------------
(* The webhooks.  The event was acknowledged before it is processed, so a  *)
(* failure is not delivered again; a processed event may be.               *)

Deliver(event) ==
  event \in hooks /\ hooks' \in {hooks, hooks \ {event}}

HookCaptured(event) ==
  /\ Deliver(event)
  /\ Goes(event, "idle", "credit")
  /\ UNCHANGED <<gateway, status, attempts, credits, lock, due, age, faults>>

HookFailed ==
  /\ Deliver("payment.failed")
  /\ status' = "FAILED"
  /\ UNCHANGED <<gateway, attempts, credits, at, lock, due, age, faults>>

-----------------------------------------------------------------------------
(* runReconciliation on instance i, as far as it meets this order.         *)

PendingOnly == status = "PENDING" /\ age >= 1 /\ attempts < MaxAttempts
Listed == status \in {"PENDING", "FAILED"} /\ age >= 1 /\ attempts < MaxAttempts

CronList(i) ==
  /\ i \in due /\ due' = due \ {i}
  /\ Goes(i, "idle", IF Listed THEN "listed" ELSE "idle")
  /\ UNCHANGED <<gateway, status, attempts, credits, hooks, lock, age, faults>>

CronFetch(i) ==
  /\ Goes(i, "listed", IF Paid THEN "credit" ELSE "unpaid")
  /\ UNCHANGED <<gateway, status, attempts, credits, hooks, lock, due, age, faults>>

CronUnpaid(i) ==
  /\ Goes(i, "unpaid", "idle")
  /\ Attempted
  /\ UNCHANGED <<gateway, status, credits, hooks, lock, due, age, faults>>

(* The instance was down when its timer should have fired.                 *)
CronMissed(i) ==
  /\ i \in due /\ Fault
  /\ due' = due \ {i}
  /\ UNCHANGED <<gateway, status, attempts, credits, hooks, at, lock, age>>

(* Five minutes: a pass is over before the next one.                       *)
Tick ==
  /\ age < Window
  /\ due = {} /\ \A i \in Cron : at[i] = "idle"
  /\ age' = age + 1
  /\ due' = Cron
  /\ UNCHANGED <<gateway, status, attempts, credits, hooks, at, lock, faults>>

-----------------------------------------------------------------------------
OrderCreditStep(c) == LockWallet(c) \/ FindCredit(c) \/ CommitCredit(c) \/ NoteFailure(c)
CronStep(i) == CronList(i) \/ CronFetch(i) \/ CronUnpaid(i)

OrderNext ==
  \/ PaymentFails \/ Pay
  \/ Verify \/ VerifyBadSignature \/ Retry
  \/ HookFailed \/ \E event \in Event : HookCaptured(event)
  \/ \E c \in Caller : OrderCreditStep(c) \/ Throws(c) \/ Dies(c)
  \/ \E i \in Cron : CronStep(i) \/ CronMissed(i)
  \/ Tick

OrderSpec == OrderInit /\ [][OrderNext]_orderVars

(* The timers fire, and what has begun goes on: a transaction ends by its  *)
(* timeout if not before.  Nothing is assumed of the browser, the retry    *)
(* button or the delivery of webhooks.                                     *)
FairOrderSpec ==
  /\ OrderSpec /\ WF_orderVars(Tick)
  /\ \A i \in Cron : WF_orderVars(CronStep(i))
  /\ \A c \in Caller : WF_orderVars(OrderCreditStep(c))

-----------------------------------------------------------------------------
(* An order is credited once, however many callers come together, and also *)
(* when a late payment.failed event or the error handler of verify has     *)
(* failed an order that was credited, and all of them try again.           *)
OrderCreditedOnce == credits <= 1

(* No path credits an order the gateway has not been paid for.             *)
CreditedIsPaid == credits > 0 => Paid

(* What reconciliation may still do for the order: attempts that are left  *)
(* when those about to note one have noted it, and passes to come.         *)
AttemptsLeft ==
  MaxAttempts - attempts - Cardinality({c \in Caller : at[c] \in {"unpaid", "threw"}})
PassesLeft == Window - age - 1

(* Reconciliation alone completes and credits a paid order, also one that  *)
(* was failed ("failing closed only delays the credit", processTopUp) - as *)
(* long as it has more attempts and passes left than there are failures to *)
(* come.  An order that was found unpaid five times has none, and what is  *)
(* said there does not hold of it: it is never looked at again.            *)
PaidIsCredited ==
  Paid /\ AttemptsLeft > MaxFaults - faults /\ PassesLeft > MaxFaults - faults
    ~> credits = 1 /\ status = "COMPLETED"
==============================================================================
