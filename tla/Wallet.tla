------------------------------- MODULE Wallet --------------------------------
(***************************************************************************)
(* One organisation's prepaid wallet (wallet.service.ts,                   *)
(* wallet.deduction.service.ts, the campaign sender's final charge and the *)
(* webhook's refunds).  A request is one call of one of these functions;   *)
(* its steps are the database statements it executes, so the requests of   *)
(* several server processes interleave as READ COMMITTED lets them.        *)
(*                                                                         *)
(* `seen' is what a request read, `locked' the request whose open          *)
(* transaction has locked the wallet row: a writer waits for it, a reader  *)
(* does not.  What an open transaction wrote is invisible until it commits,*)
(* so the commit is the step that changes the row and writes the ledger.   *)
(***************************************************************************)
EXTENDS Integers, FiniteSets

CONSTANTS
  Template,      \* calls of deductWalletForTemplate
  Service,       \* calls of deductWalletForService
  TopUp,         \* calls of creditWalletAtomic, from any of its four callers
  Refund,        \* calls of refundServiceCharge and processRefundWithRetry
  Adjust,        \* calls of adminAdjustBalance
  Campaign,      \* final charges of processCampaignContacts
  SetLimit,      \* calls of setCreditLimit
  CampaignMsgs,  \* messages of campaigns, charged together by a final charge
  Payments,      \* captured Razorpay payments
  Worth,         \* what each payment is worth
  Amounts,       \* prices of messages and sizes of adjustments
  Limits,        \* credit limits an admin may set
  Opening,       \* the balance and credit limit the wallet starts with
  OpeningLimit,
  Floor,         \* a template is not sent with this much or less available
  LowThreshold,  \* below this balance the owner is alerted
  MaxRequests,   \* calls begun
  Nobody

Requests ==
  Template \cup Service \cup TopUp \cup Refund \cup Adjust \cup Campaign \cup SetLimit

ASSUME WalletAssumption ==
  /\ Amounts \subseteq Nat \ {0}
  /\ Worth \in [Payments -> Nat \ {0}]
  /\ Limits \subseteq Nat
  /\ Opening \in Nat /\ OpeningLimit \in Nat
  /\ Floor \in Nat /\ LowThreshold \in Nat /\ MaxRequests \in Nat
  /\ Nobody \notin Requests

(* A request belongs to one function. *)
ASSUME DisjointAssumption ==
  /\ Template \cap (Service \cup TopUp \cup Refund \cup Adjust \cup Campaign \cup SetLimit) = {}
  /\ Service \cap (TopUp \cup Refund \cup Adjust \cup Campaign \cup SetLimit) = {}
  /\ TopUp \cap (Refund \cup Adjust \cup Campaign \cup SetLimit) = {}
  /\ Refund \cap (Adjust \cup Campaign \cup SetLimit) = {}
  /\ Adjust \cap (Campaign \cup SetLimit) = {}
  /\ Campaign \cap SetLimit = {}
  /\ CampaignMsgs \cap Requests = {}
  /\ Payments \cap (Service \cup CampaignMsgs \cup {Nobody}) = {}
  /\ Nobody \notin CampaignMsgs

VARIABLES
  wallet,        \* the Wallet row
  locked,        \* the request whose open transaction locked the row
  ledger,        \* the WalletTransaction rows
  pc,            \* where each request is
  seen,          \* the row as the request read it
  amount,        \* what the request charges, credits or sets
  about          \* the payment or message the request is about

vars == <<wallet, locked, ledger, pc, seen, amount, about>>

(* creditEnabled, isActive, flagged, and lowAlertSent within the last day. *)
Marks == {"credit", "active", "flagged", "alerted"}

Wallets ==
  [balance : Int, limit : Nat, used : Nat, credited : Nat, debited : Nat,
   marks : SUBSET Marks]

Subjects == Payments \cup Service \cup CampaignMsgs \cup {Nobody}

Rows == [kind : {"debit", "topup", "refund", "adjust", "final"},
         by : Requests, about : Subjects, amount : Nat]

TypeOK ==
  /\ wallet \in Wallets
  /\ locked \in Requests \cup {Nobody}
  /\ ledger \subseteq Rows
  /\ pc \in [Requests -> {"idle", "read", "open", "checked", "charged", "refused",
                          "rolledBack", "done"}]
  /\ seen \in [Requests -> Wallets]
  /\ amount \in [Requests -> Nat]
  /\ about \in [Requests -> Subjects]

Init ==
  /\ wallet = [balance |-> Opening, limit |-> OpeningLimit, used |-> 0,
               credited |-> 0, debited |-> 0,
               marks |-> {"active"} \cup IF OpeningLimit > 0 THEN {"credit"} ELSE {}]
  /\ locked = Nobody
  /\ ledger = {}
  /\ pc = [p \in Requests |-> "idle"]
  /\ seen = [p \in Requests |-> wallet]
  /\ amount = [p \in Requests |-> 0]
  /\ about = [p \in Requests |-> Nobody]

-----------------------------------------------------------------------------
Min2(a, b) == IF a < b THEN a ELSE b
Max2(a, b) == IF a > b THEN a ELSE b

(* What a wallet, as read, has to spend: its balance and its credit left. *)
Headroom(w) == IF "credit" \in w.marks THEN Max2(0, w.limit - w.used) ELSE 0
Available(w) == w.balance + Headroom(w)

Goto(p, where) == pc' = [pc EXCEPT ![p] = where]

Row(p, kind, subject, a) == [kind |-> kind, by |-> p, about |-> subject, amount |-> a]

MayBegin == Cardinality({p \in Requests : pc[p] # "idle"}) < MaxRequests

(* A request reads the row, without a lock, and fixes its amount. *)
Read(p, a, where) ==
  /\ pc[p] = "idle" /\ MayBegin
  /\ seen' = [seen EXCEPT ![p] = wallet]
  /\ amount' = [amount EXCEPT ![p] = a]
  /\ Goto(p, where)

-----------------------------------------------------------------------------
(* Debits: deductWalletForTemplate and deductWalletForService.             *)

Affordable(p) ==
  /\ Available(seen[p]) >= amount[p]
  /\ p \in Template => Available(seen[p]) > Floor

WholeBalance(p) == seen[p].balance
FromBalance(p) == Min2(seen[p].balance, amount[p])

Unusable == "flagged" \in wallet.marks \/ "active" \notin wallet.marks

DebitRead(p) ==
  /\ \E a \in Amounts :
       Read(p, a, IF Unusable THEN "refused" ELSE "read")
  /\ UNCHANGED <<wallet, locked, ledger, about>>

Alerted == [wallet EXCEPT !.marks = @ \cup {"alerted"}]

(* Not enough: the owner is alerted, once a day, and nothing is charged.   *)
DebitRefuse(p) ==
  /\ pc[p] = "read"
  /\ ~ Affordable(p)
  /\ \/ "alerted" \in seen[p].marks /\ UNCHANGED wallet
     \/ "alerted" \notin seen[p].marks /\ locked = Nobody /\ wallet' = Alerted
  /\ Goto(p, "refused")
  /\ UNCHANGED <<locked, ledger, seen, amount, about>>

(* The conditional UPDATE: the balance is in its WHERE clause. *)
Covered(p) == wallet.balance >= FromBalance(p)

DebitUpdate(p) ==
  /\ pc[p] = "read"
  /\ Affordable(p)
  /\ locked = Nobody
  /\ IF Covered(p)
       THEN locked' = p /\ Goto(p, "open")
       ELSE Goto(p, "refused") /\ UNCHANGED locked
  /\ UNCHANGED <<wallet, ledger, seen, amount, about>>

(* The row the transaction will leave: decrements and increments done by   *)
(* the database; and the value an absolute write would leave.              *)
DebitedAbsolutely(p) ==
  [wallet EXCEPT !.balance = seen[p].balance - FromBalance(p),
                 !.used = @ + (amount[p] - FromBalance(p)),
                 !.debited = @ + amount[p]]
Debited(p) ==
  [wallet EXCEPT !.balance = @ - FromBalance(p),
                 !.used = @ + (amount[p] - FromBalance(p)),
                 !.debited = @ + amount[p]]

(* The alert is an UPDATE of the same row on another connection, awaited   *)
(* inside the transaction that holds the row's lock.                       *)
AwaitsOwnLock(p) == Debited(p).balance < LowThreshold /\ "alerted" \notin seen[p].marks

DebitCommit(p) ==
  /\ pc[p] = "open"
  /\ ~ AwaitsOwnLock(p)
  /\ wallet' = Debited(p)
  /\ ledger' = ledger \cup {Row(p, "debit", IF p \in Service THEN p ELSE Nobody, amount[p])}
  /\ locked' = Nobody
  /\ Goto(p, "charged")
  /\ UNCHANGED <<seen, amount, about>>

(* The transaction times out after ten seconds, or its process dies: it is *)
(* rolled back, and an alert that waited for its lock goes through.        *)
WithoutTimeout(p) == ~ AwaitsOwnLock(p)
GivesUp(p) == TRUE

DebitRollback(p) ==
  /\ pc[p] = "open"
  /\ GivesUp(p)
  /\ locked' = Nobody
  /\ wallet' = IF AwaitsOwnLock(p) THEN Alerted ELSE wallet
  /\ Goto(p, "rolledBack")
  /\ UNCHANGED <<ledger, seen, amount, about>>

DebitStep(p) ==
  \/ DebitRead(p)
  \/ DebitRefuse(p)
  \/ DebitUpdate(p)
  \/ DebitCommit(p)
  \/ DebitRollback(p)

-----------------------------------------------------------------------------
(* Credits: creditWalletAtomic locks the row with SELECT ... FOR UPDATE    *)
(* before it looks for an earlier credit of the same payment, and writes   *)
(* back a balance computed from what it read under the lock.               *)

TakesNoLock(p) == locked' = locked
TakesLock(p) == locked = Nobody /\ locked' = p

CreditLock(p) ==
  /\ pc[p] = "idle" /\ MayBegin
  /\ TakesLock(p)
  /\ \E pay \in Payments :
       /\ about' = [about EXCEPT ![p] = pay]
       /\ amount' = [amount EXCEPT ![p] = Worth[pay]]
  /\ Goto(p, "open")
  /\ UNCHANGED <<wallet, ledger, seen>>

AlreadyCredited(p) == \E row \in ledger : row.kind = "topup" /\ row.about = about[p]

CreditCheck(p) ==
  /\ pc[p] = "open"
  /\ \/ /\ AlreadyCredited(p)
        /\ Goto(p, "done") /\ locked' = Nobody /\ UNCHANGED seen
     \/ /\ ~ AlreadyCredited(p) /\ "active" \notin wallet.marks
        /\ Goto(p, "refused") /\ locked' = Nobody /\ UNCHANGED seen
     \/ /\ ~ AlreadyCredited(p) /\ "active" \in wallet.marks
        /\ Goto(p, "checked") /\ seen' = [seen EXCEPT ![p] = wallet]
        /\ UNCHANGED locked
  /\ UNCHANGED <<wallet, ledger, amount, about>>

CreditCommit(p) ==
  /\ pc[p] = "checked"
  /\ wallet' = [wallet EXCEPT !.balance = seen[p].balance + amount[p],
                              !.credited = @ + amount[p],
                              !.marks = @ \ {"alerted"}]
  /\ ledger' = ledger \cup {Row(p, "topup", about[p], amount[p])}
  /\ locked' = Nobody
  /\ Goto(p, "done")
  /\ UNCHANGED <<seen, amount, about>>

CreditRollback(p) ==
  /\ pc[p] \in {"open", "checked"}
  /\ locked' = Nobody
  /\ Goto(p, "rolledBack")
  /\ UNCHANGED <<wallet, ledger, seen, amount, about>>

CreditStep(p) ==
  CreditLock(p) \/ CreditCheck(p) \/ CreditCommit(p) \/ CreditRollback(p)

-----------------------------------------------------------------------------
(* Refunds of a message that was charged but not delivered.  A service     *)
(* message needs the row of its charge; a campaign message is refunded at  *)
(* its rate, whatever was charged.                                         *)

Refunded(m) == \E row \in ledger : row.kind = "refund" /\ row.about = m

RefundableFor(m, a) ==
  \/ m \in CampaignMsgs
  \/ \E row \in ledger : row.kind = "debit" /\ row.about = m /\ row.amount = a

RefundRead(p) ==
  /\ pc[p] = "idle" /\ MayBegin
  /\ \E m \in Service \cup CampaignMsgs, a \in Amounts :
       /\ RefundableFor(m, a)
       /\ about' = [about EXCEPT ![p] = m]
       /\ amount' = [amount EXCEPT ![p] = a]
       /\ Goto(p, IF Refunded(m) THEN "done" ELSE "read")
  /\ UNCHANGED <<wallet, locked, ledger, seen>>

(* The unique index on (metaChargeId, metaService) refuses a second row,   *)
(* and the transaction takes its increment back with it.                   *)
UniqueIgnored(p) == TRUE
Unique(p) == ~ Refunded(about[p])

RefundWrite(p) ==
  /\ pc[p] = "read"
  /\ locked = Nobody
  /\ IF Unique(p)
       THEN /\ wallet' = [wallet EXCEPT !.balance = @ + amount[p],
                                        !.credited = @ + amount[p]]
            /\ ledger' = ledger \cup {Row(p, "refund", about[p], amount[p])}
       ELSE UNCHANGED <<wallet, ledger>>
  /\ Goto(p, "done")
  /\ UNCHANGED <<locked, seen, amount, about>>

RefundStep(p) == RefundRead(p) \/ RefundWrite(p)

-----------------------------------------------------------------------------
(* adminAdjustBalance reads the row and writes the new balance back.       *)

AdjustRead(p) ==
  /\ \E a \in Amounts : Read(p, a, "read")
  /\ UNCHANGED <<wallet, locked, ledger, about>>

AdjustCredit(p) ==
  /\ pc[p] = "read"
  /\ locked = Nobody
  /\ wallet' = [wallet EXCEPT !.balance = seen[p].balance + amount[p],
                              !.credited = @ + amount[p]]
  /\ ledger' = ledger \cup {Row(p, "adjust", Nobody, amount[p])}
  /\ Goto(p, "done")
  /\ UNCHANGED <<locked, seen, amount, about>>

AdjustAllowedAlways(p) == TRUE
AdjustAllowed(p) == seen[p].balance >= amount[p]

AdjustDebit(p) ==
  /\ pc[p] = "read"
  /\ locked = Nobody
  /\ IF AdjustAllowed(p)
       THEN /\ wallet' = [wallet EXCEPT !.balance = seen[p].balance - amount[p],
                                        !.debited = @ + amount[p]]
            /\ ledger' = ledger \cup {Row(p, "adjust", Nobody, amount[p])}
            /\ Goto(p, "done")
       ELSE Goto(p, "refused") /\ UNCHANGED <<wallet, ledger>>
  /\ UNCHANGED <<locked, seen, amount, about>>

AdjustStep(p) == AdjustRead(p) \/ AdjustCredit(p) \/ AdjustDebit(p)

-----------------------------------------------------------------------------
(* The campaign sender charges what it sent in one piece when its loop is  *)
(* over: as much as the wallet, as read, can bear, written back absolutely.*)

FinalRead(p) ==
  /\ \E a \in Amounts : Read(p, a, IF "flagged" \in wallet.marks THEN "refused" ELSE "read")
  /\ UNCHANGED <<wallet, locked, ledger, about>>

Chargeable(p) == Min2(amount[p], Available(seen[p]))

FinalWrite(p) ==
  /\ pc[p] = "read"
  /\ locked = Nobody
  /\ wallet' = [wallet EXCEPT
                  !.balance = Max2(0, seen[p].balance - Chargeable(p)),
                  !.used = @ + Max2(0, Chargeable(p) - seen[p].balance),
                  !.debited = @ + Chargeable(p)]
  /\ ledger' = ledger \cup {Row(p, "final", Nobody, Chargeable(p))}
  /\ Goto(p, "done")
  /\ UNCHANGED <<locked, seen, amount, about>>

FinalStep(p) == FinalRead(p) \/ FinalWrite(p)

-----------------------------------------------------------------------------
(* setCreditLimit writes back the credit used it read, or forgives it.     *)

LimitRead(p) ==
  /\ \E l \in Limits : Read(p, l, "read")
  /\ UNCHANGED <<wallet, locked, ledger, about>>

LimitWrite(p) ==
  /\ pc[p] = "read"
  /\ locked = Nobody
  /\ \E enable \in BOOLEAN :
       wallet' = [wallet EXCEPT
                    !.limit = amount[p],
                    !.marks = IF enable THEN @ \cup {"credit"} ELSE @ \ {"credit"},
                    !.used = IF enable THEN seen[p].used ELSE 0]
  /\ Goto(p, "done")
  /\ UNCHANGED <<locked, ledger, seen, amount, about>>

LimitStep(p) == LimitRead(p) \/ LimitWrite(p)

(* flagWallet and setWalletActive. *)
Switch ==
  /\ locked = Nobody
  /\ \E mark \in {"active", "flagged"} :
       wallet' = [wallet EXCEPT !.marks = IF mark \in @ THEN @ \ {mark} ELSE @ \cup {mark}]
  /\ UNCHANGED <<locked, ledger, pc, seen, amount, about>>

-----------------------------------------------------------------------------
Next ==
  \/ \E p \in Template \cup Service : DebitStep(p)
  \/ \E p \in TopUp : CreditStep(p)
  \/ \E p \in Refund : RefundStep(p)
  \/ \E p \in Adjust : AdjustStep(p)
  \/ \E p \in Campaign : FinalStep(p)
  \/ \E p \in SetLimit : LimitStep(p)
  \/ Switch

Spec == Init /\ [][Next]_vars

(* Started requests are carried on by their process, and the database ends *)
(* every statement and transaction.                                        *)
Fairness ==
  /\ \A p \in Template \cup Service :
       /\ WF_vars(DebitRefuse(p))
       /\ WF_vars(DebitUpdate(p))
       /\ WF_vars(DebitCommit(p) \/ DebitRollback(p))
  /\ \A p \in TopUp : WF_vars(CreditCheck(p) \/ CreditCommit(p) \/ CreditRollback(p))
  /\ \A p \in Refund : WF_vars(RefundWrite(p))
  /\ \A p \in Adjust : WF_vars(AdjustCredit(p) \/ AdjustDebit(p))
  /\ \A p \in Campaign : WF_vars(FinalWrite(p))
  /\ \A p \in SetLimit : WF_vars(LimitWrite(p))

FairSpec == Spec /\ Fairness

-----------------------------------------------------------------------------
(* No interleaving of debits, refunds, adjustments and final charges takes *)
(* the balance below zero ("never lets the balance go negative").          *)
BalanceNonNegative == wallet.balance >= 0

(* The balance, less the credit drawn, is what came in less what went out: *)
(* no debit, top-up or refund is lost ("an absolute write means all but one*)
(* of the debits is silently lost").                                       *)
NothingLost == wallet.balance - wallet.used = Opening + wallet.credited - wallet.debited

(* It holds as long as none of the three functions that write back what    *)
(* they read without a lock has written.                                   *)
Books ==
  (\A p \in Adjust \cup Campaign \cup SetLimit : pc[p] # "done") => NothingLost

(* A payment that reaches the wallet from the browser, the webhook, the    *)
(* reconciliation and an admin together is credited once.                  *)
CreditedOnce ==
  \A r, s \in ledger : r.kind = "topup" /\ s.kind = "topup" /\ r.about = s.about => r = s

(* A message is refunded once, and a service message exactly what it was   *)
(* charged.                                                                *)
RefundedOnce ==
  \A r \in ledger : r.kind = "refund" =>
    /\ \A s \in ledger : s.kind = "refund" /\ s.about = r.about => s = r
    /\ r.about \in Service =>
         \E s \in ledger : s.kind = "debit" /\ s.about = r.about /\ s.amount = r.amount

(* Requests that were started are answered, and no lock is held for ever:  *)
(* again and again nothing is in progress (requests are bounded here).     *)
Answered == []<>(\A p \in Requests : pc[p] \notin {"read", "open", "checked"})
==============================================================================
