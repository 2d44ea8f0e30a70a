---------------------------- MODULE WalletProofs -----------------------------
(***************************************************************************)
(* Theorems about the wallet for any number of concurrent requests.  The   *)
(* inductive invariant says what a transaction that holds the row's lock   *)
(* may rely on: nobody changes the row under it.  At the end, theorems     *)
(* about the top-up order for any number of instances, periods and faults. *)
(***************************************************************************)
EXTENDS Wallet, TopUpOrder, TLAPS

Holding(p) == pc[p] \in {"open", "checked"}

(* Only one transaction has the row open. *)
OneHolder == \A p \in Requests : Holding(p) => locked = p

(* An open debit still finds the balance its WHERE clause found. *)
OpenIsCovered ==
  \A p \in Template \cup Service : Holding(p) => wallet.balance >= FromBalance(p)

(* Every snapshot was taken of a balance that was not negative. *)
SeenNonNegative == \A p \in Requests : seen[p].balance >= 0

(* A checked credit still finds no credit of its payment, and the balance  *)
(* it read.                                                                *)
CheckedIsFresh ==
  \A p \in TopUp : pc[p] = "checked" =>
    ~ AlreadyCredited(p) /\ seen[p].balance = wallet.balance

USE WalletAssumption

-----------------------------------------------------------------------------
(* The fields of a row, and the rows a statement makes of it. *)
LEMMA Fields ==
  ASSUME NEW w \in Wallets
  PROVE  /\ w.balance \in Int
         /\ w.limit \in Nat /\ w.used \in Nat
         /\ w.credited \in Nat /\ w.debited \in Nat
         /\ w.marks \in SUBSET Marks
BY DEF Wallets

LEMMA Updates ==
  ASSUME NEW w \in Wallets, NEW b \in Int, NEW u \in Nat, NEW c \in Nat,
         NEW m \in SUBSET Marks
  PROVE  /\ [w EXCEPT !.marks = m] \in Wallets
         /\ [w EXCEPT !.balance = b, !.credited = c] \in Wallets
         /\ [w EXCEPT !.balance = b, !.debited = c] \in Wallets
         /\ [w EXCEPT !.balance = b, !.credited = c, !.marks = m] \in Wallets
         /\ [w EXCEPT !.balance = b, !.used = u, !.debited = c] \in Wallets
         /\ [w EXCEPT !.limit = c, !.marks = m, !.used = u] \in Wallets
BY DEF Wallets

LEMMA Balances ==
  ASSUME NEW w \in Wallets, NEW b \in Int, NEW c \in Nat
  PROVE  /\ [w EXCEPT !.balance = b, !.credited = c].balance = b
         /\ [w EXCEPT !.balance = b, !.debited = c].balance = b
BY DEF Wallets

LEMMA RowType ==
  ASSUME NEW p \in Requests, NEW subject \in Subjects, NEW a \in Nat,
         NEW kind \in {"debit", "topup", "refund", "adjust", "final"}
  PROVE  Row(p, kind, subject, a) \in Rows
BY DEF Row, Rows

LEMMA AvailableType ==
  ASSUME NEW w \in Wallets
  PROVE  /\ Available(w) \in Int
         /\ w.balance >= 0 => Available(w) >= 0
BY Fields DEF Available, Headroom, Max2

LEMMA SplitType ==
  ASSUME TypeOK, NEW p \in Requests
  PROVE  /\ FromBalance(p) \in Int
         /\ FromBalance(p) <= amount[p]
         /\ FromBalance(p) <= seen[p].balance
         /\ Debited(p) \in Wallets
         /\ Debited(p).balance = wallet.balance - FromBalance(p)
<1>1. /\ seen[p].balance \in Int /\ amount[p] \in Nat /\ wallet \in Wallets
      /\ wallet.balance \in Int /\ wallet.used \in Nat /\ wallet.debited \in Nat
  BY Fields DEF TypeOK
<1>2. /\ FromBalance(p) \in Int
      /\ FromBalance(p) <= amount[p]
      /\ FromBalance(p) <= seen[p].balance
  BY <1>1 DEF FromBalance, Min2
<1>3. /\ wallet.balance - FromBalance(p) \in Int
      /\ wallet.used + (amount[p] - FromBalance(p)) \in Nat
      /\ wallet.debited + amount[p] \in Nat
  BY <1>1, <1>2
<1>4. Debited(p) \in Wallets
  BY <1>1, <1>3, Updates DEF Debited
<1>5. Debited(p).balance = wallet.balance - FromBalance(p)
  BY <1>1 DEF Debited, Wallets
<1>6. QED
  BY <1>2, <1>4, <1>5

-----------------------------------------------------------------------------
LEMMA TypeStep ==
  ASSUME TypeOK, SeenNonNegative, [Next]_vars
  PROVE  TypeOK'
<1> USE DEF TypeOK, Goto, Requests
<1>1. ASSUME NEW p \in Requests, NEW a \in Nat, NEW where \in {"read", "refused"},
             Read(p, a, where), UNCHANGED <<wallet, locked, ledger, about>>
      PROVE  TypeOK'
  BY <1>1 DEF Read
<1>2. Alerted \in Wallets
  BY Fields, Updates DEF Alerted, Marks
<1>3. ASSUME NEW p \in Template \cup Service, DebitStep(p) PROVE TypeOK'
  <2>1. CASE DebitRead(p)
    BY <1>1, <2>1 DEF DebitRead
  <2>2. CASE DebitRefuse(p)
    BY <1>2, <2>2 DEF DebitRefuse
  <2>3. CASE DebitUpdate(p)
    BY <2>3 DEF DebitUpdate
  <2>4. CASE DebitCommit(p)
    <3>1. (IF p \in Service THEN p ELSE Nobody) \in Subjects
      BY DEF Subjects
    <3>2. Row(p, "debit", IF p \in Service THEN p ELSE Nobody, amount[p]) \in Rows
      BY <3>1, RowType
    <3>3. QED
      BY <2>4, <3>2, SplitType DEF DebitCommit
  <2>5. CASE DebitRollback(p)
    BY <1>2, <2>5 DEF DebitRollback
  <2>6. QED
    BY <1>3, <2>1, <2>2, <2>3, <2>4, <2>5 DEF DebitStep
<1>4. ASSUME NEW p \in TopUp, CreditStep(p) PROVE TypeOK'
  <2>1. CASE CreditLock(p)
    BY <2>1 DEF CreditLock, TakesLock, Subjects
  <2>2. CASE CreditCheck(p)
    BY <2>2 DEF CreditCheck
  <2>3. CASE CreditCommit(p)
    <3>1. /\ seen[p].balance + amount[p] \in Int
          /\ wallet.credited + amount[p] \in Nat
          /\ wallet.marks \ {"alerted"} \in SUBSET Marks
      BY Fields
    <3>2. Row(p, "topup", about[p], amount[p]) \in Rows
      BY RowType
    <3>3. QED
      BY <2>3, <3>1, <3>2, Updates DEF CreditCommit
  <2>4. CASE CreditRollback(p)
    BY <2>4 DEF CreditRollback
  <2>5. QED
    BY <1>4, <2>1, <2>2, <2>3, <2>4 DEF CreditStep
<1>5. ASSUME NEW p \in Refund, RefundStep(p) PROVE TypeOK'
  <2>1. CASE RefundRead(p)
    BY <2>1 DEF RefundRead, Subjects
  <2>2. CASE RefundWrite(p) /\ Unique(p)
    <3>1. wallet.balance + amount[p] \in Int /\ wallet.credited + amount[p] \in Nat
      BY Fields
    <3>2. Row(p, "refund", about[p], amount[p]) \in Rows
      BY RowType
    <3>3. wallet' \in Wallets
      <4>1. wallet' = [wallet EXCEPT !.balance = wallet.balance + amount[p],
                                     !.credited = wallet.credited + amount[p]]
        BY <2>2, Zenon DEF RefundWrite
      <4>2. QED
        BY <3>1, <4>1, Updates
    <3>4. ledger' \subseteq Rows
      <4>1. ledger' = ledger \cup {Row(p, "refund", about[p], amount[p])}
        BY <2>2, Zenon DEF RefundWrite
      <4>2. QED
        BY <3>2, <4>1
    <3>5. QED
      BY <2>2, <3>3, <3>4 DEF RefundWrite
  <2>3. CASE RefundWrite(p) /\ ~ Unique(p)
    BY <2>3 DEF RefundWrite
  <2>4. QED
    BY <1>5, <2>1, <2>2, <2>3 DEF RefundStep
<1>6. ASSUME NEW p \in Adjust, AdjustStep(p) PROVE TypeOK'
  <2>1. CASE AdjustRead(p)
    BY <1>1, <2>1 DEF AdjustRead
  <2>2. /\ seen[p].balance + amount[p] \in Int /\ seen[p].balance - amount[p] \in Int
        /\ wallet.credited + amount[p] \in Nat /\ wallet.debited + amount[p] \in Nat
        /\ Row(p, "adjust", Nobody, amount[p]) \in Rows
    BY Fields, RowType DEF Subjects
  <2>3. CASE AdjustCredit(p)
    BY <2>2, <2>3, Updates DEF AdjustCredit
  <2>4. CASE AdjustDebit(p) /\ AdjustAllowed(p)
    <3>1. /\ wallet' = [wallet EXCEPT !.balance = seen[p].balance - amount[p],
                                    !.debited = wallet.debited + amount[p]]
          /\ ledger' = ledger \cup {Row(p, "adjust", Nobody, amount[p])}
      BY <2>4, Zenon DEF AdjustDebit
    <3>2. wallet' \in Wallets
      BY <2>2, <3>1, Updates
    <3>3. QED
      BY <2>2, <2>4, <3>1, <3>2 DEF AdjustDebit
  <2>5. CASE AdjustDebit(p) /\ ~ AdjustAllowed(p)
    BY <2>5 DEF AdjustDebit
  <2>6. QED
    BY <1>6, <2>1, <2>3, <2>4, <2>5 DEF AdjustStep
<1>7. ASSUME NEW p \in Campaign, FinalStep(p) PROVE TypeOK'
  <2>1. CASE FinalRead(p)
    BY <1>1, <2>1 DEF FinalRead
  <2>2. CASE FinalWrite(p)
    <3>1. Chargeable(p) \in Nat
      BY AvailableType DEF Chargeable, Min2, SeenNonNegative
    <3>2. /\ Max2(0, seen[p].balance - Chargeable(p)) \in Int
          /\ wallet.used + Max2(0, Chargeable(p) - seen[p].balance) \in Nat
          /\ wallet.debited + Chargeable(p) \in Nat
      BY <3>1, Fields DEF Max2
    <3>3. Row(p, "final", Nobody, Chargeable(p)) \in Rows
      BY <3>1, RowType DEF Subjects
    <3>4. QED
      BY <2>2, <3>2, <3>3, Updates DEF FinalWrite
  <2>3. QED
    BY <1>7, <2>1, <2>2 DEF FinalStep
<1>8. ASSUME NEW p \in SetLimit, LimitStep(p) PROVE TypeOK'
  <2>1. CASE LimitRead(p)
    BY <1>1, <2>1 DEF LimitRead
  <2>2. CASE LimitWrite(p)
    <3> DEFINE marks(enable) == IF enable THEN wallet.marks \cup {"credit"}
                                          ELSE wallet.marks \ {"credit"}
               used(enable) == IF enable THEN seen[p].used ELSE 0
    <3>1. PICK enable \in BOOLEAN :
            wallet' = [wallet EXCEPT !.limit = amount[p], !.marks = marks(enable),
                                     !.used = used(enable)]
      BY <2>2, Zenon DEF LimitWrite
    <3>2. marks(enable) \in SUBSET Marks /\ used(enable) \in Nat
      BY Fields DEF Marks
    <3>5. PICK m \in SUBSET Marks, u \in Nat :
             wallet' = [wallet EXCEPT !.limit = amount[p], !.marks = m, !.used = u]
      <4> HIDE DEF marks, used
      <4>1. QED
        BY <3>1, <3>2, Zenon
    <3>3. wallet' \in Wallets
      BY <3>5 DEF Wallets
    <3>4. QED
      BY <2>2, <3>3 DEF LimitWrite
  <2>3. QED
    BY <1>8, <2>1, <2>2 DEF LimitStep
<1>9. CASE Switch
  <2> DEFINE marks(mark) == IF mark \in wallet.marks THEN wallet.marks \ {mark}
                                                    ELSE wallet.marks \cup {mark}
  <2>1. PICK mark \in {"active", "flagged"} : wallet' = [wallet EXCEPT !.marks = marks(mark)]
    BY <1>9, Zenon DEF Switch
  <2>2. marks(mark) \in SUBSET Marks
    BY Fields DEF Marks
  <2>3. PICK m \in SUBSET Marks : wallet' = [wallet EXCEPT !.marks = m]
    <3> HIDE DEF marks
    <3>1. QED
      BY <2>1, <2>2, Zenon
  <2>4. wallet' \in Wallets
    BY <2>3 DEF Wallets
  <2>5. QED
    BY <1>9, <2>4 DEF Switch
<1>10. CASE UNCHANGED vars
  BY <1>10 DEF vars
<1>11. QED
  BY <1>3, <1>4, <1>5, <1>6, <1>7, <1>8, <1>9, <1>10 DEF Next

-----------------------------------------------------------------------------
(* A free row is open in no transaction. *)
LEMMA FreeRow ==
  ASSUME OneHolder, locked = Nobody
  PROVE  \A p \in Requests : ~ Holding(p)
BY DEF OneHolder

(* The locking discipline: whoever takes the row finds it free, whoever    *)
(* gives it back is the one that had it.                                   *)
LEMMA HolderStep ==
  ASSUME TypeOK, OneHolder, [Next]_vars
  PROVE  OneHolder'
<1> USE DEF TypeOK, Goto, Requests, OneHolder, Holding
<1>1. ASSUME NEW p \in Template \cup Service, DebitStep(p) PROVE OneHolder'
  BY <1>1 DEF DebitStep, DebitRead, Read, DebitRefuse, DebitUpdate, DebitCommit,
              DebitRollback
<1>2. ASSUME NEW p \in TopUp, CreditStep(p) PROVE OneHolder'
  BY <1>2 DEF CreditStep, CreditLock, TakesLock, CreditCheck, CreditCommit,
              CreditRollback
<1>3. ASSUME NEW p \in Refund, RefundStep(p) PROVE OneHolder'
  BY <1>3 DEF RefundStep, RefundRead, RefundWrite
<1>4. ASSUME NEW p \in Adjust, AdjustStep(p) PROVE OneHolder'
  BY <1>4 DEF AdjustStep, AdjustRead, Read, AdjustCredit, AdjustDebit
<1>5. ASSUME NEW p \in Campaign, FinalStep(p) PROVE OneHolder'
  BY <1>5 DEF FinalStep, FinalRead, Read, FinalWrite
<1>6. ASSUME NEW p \in SetLimit, LimitStep(p) PROVE OneHolder'
  BY <1>6 DEF LimitStep, LimitRead, Read, LimitWrite
<1>7. CASE Switch \/ UNCHANGED vars
  BY <1>7 DEF Switch, vars
<1>8. QED
  BY <1>1, <1>2, <1>3, <1>4, <1>5, <1>6, <1>7 DEF Next

-----------------------------------------------------------------------------
Solvent == BalanceNonNegative /\ OpenIsCovered /\ SeenNonNegative

LEMMA SolventStep ==
  ASSUME TypeOK, TypeOK', OneHolder, Solvent, [Next]_vars
  PROVE  Solvent'
<1> USE DEF TypeOK, Goto, Requests, OneHolder, Holding, Solvent, BalanceNonNegative,
            OpenIsCovered, SeenNonNegative
(* A read takes a snapshot of a balance that is not negative. *)
<1>1. ASSUME NEW p \in Requests, NEW a, NEW where \in {"read", "refused"},
             Read(p, a, where), UNCHANGED wallet
      PROVE  Solvent'
  BY <1>1 DEF Read, FromBalance
(* A write that finds the row free leaves no open debit uncovered. *)
<1>2. ASSUME NEW p \in Requests, locked = Nobody, wallet'.balance >= 0,
             UNCHANGED <<seen, amount>>,
             \A q \in Requests : q # p => pc'[q] = pc[q],
             pc'[p] \notin {"open", "checked"}
      PROVE  Solvent'
  BY <1>2, FreeRow DEF FromBalance
(* The holder of the row ends its transaction. *)
<1>3. ASSUME NEW p \in Requests, Holding(p), wallet'.balance >= 0,
             UNCHANGED <<seen, amount>>,
             \A q \in Requests : q # p => pc'[q] = pc[q],
             pc'[p] \notin {"open", "checked"}
      PROVE  Solvent'
  BY <1>3 DEF FromBalance
<1>4. ASSUME NEW p \in Template \cup Service, DebitStep(p) PROVE Solvent'
  <2>1. CASE DebitRead(p)
    BY <1>1, <2>1 DEF DebitRead
  <2>2. CASE DebitRefuse(p)
    <3>1. Alerted.balance = wallet.balance
      BY DEF Alerted, Wallets
    <3>2. wallet'.balance = wallet.balance
      BY <2>2, <3>1 DEF DebitRefuse
    <3>3. QED
      BY <2>2, <3>2 DEF DebitRefuse, FromBalance
  <2>3. CASE DebitUpdate(p)
    BY <2>3 DEF DebitUpdate, Covered, FromBalance
  <2>4. CASE DebitCommit(p)
    <3>1. wallet'.balance >= 0
      BY <2>4, SplitType, Fields DEF DebitCommit
    <3>2. QED
      BY <1>3, <2>4, <3>1 DEF DebitCommit
  <2>5. CASE DebitRollback(p)
    <3>1. Alerted.balance = wallet.balance
      BY DEF Alerted, Wallets
    <3>2. wallet'.balance >= 0
      BY <2>5, <3>1 DEF DebitRollback
    <3>3. QED
      BY <1>3, <2>5, <3>2 DEF DebitRollback
  <2>6. QED
    BY <1>4, <2>1, <2>2, <2>3, <2>4, <2>5 DEF DebitStep
<1>5. ASSUME NEW p \in TopUp, CreditStep(p) PROVE Solvent'
  <2>1. CASE CreditLock(p)
    <3>1. p \notin Template \cup Service
      BY DisjointAssumption
    <3>2. QED
      BY <2>1, <3>1 DEF CreditLock, TakesLock, FromBalance
  <2>2. CASE CreditCheck(p)
    BY <2>2, DisjointAssumption DEF CreditCheck, FromBalance
  <2>3. CASE CreditCommit(p)
    <3>1. wallet'.balance >= 0
      BY <2>3, Fields DEF CreditCommit, Wallets
    <3>2. QED
      BY <1>3, <2>3, <3>1 DEF CreditCommit
  <2>4. CASE CreditRollback(p)
    BY <1>3, <2>4 DEF CreditRollback
  <2>5. QED
    BY <1>5, <2>1, <2>2, <2>3, <2>4 DEF CreditStep
<1>6. ASSUME NEW p \in Refund, RefundStep(p) PROVE Solvent'
  <2>1. CASE RefundRead(p)
    BY <2>1, DisjointAssumption DEF RefundRead, FromBalance
  <2>2. CASE RefundWrite(p)
    <3>1. wallet'.balance >= wallet.balance
      <4>1. \/ wallet' = wallet
            \/ wallet' = [wallet EXCEPT !.balance = wallet.balance + amount[p],
                                       !.credited = wallet.credited + amount[p]]
        BY <2>2, Zenon DEF RefundWrite
      <4>2. wallet.balance + amount[p] \in Int /\ wallet.credited + amount[p] \in Nat
        BY Fields
      <4>3. [wallet EXCEPT !.balance = wallet.balance + amount[p],
                           !.credited = wallet.credited + amount[p]].balance
              = wallet.balance + amount[p]
        BY <4>2, Balances
      <4>4. wallet'.balance = wallet.balance \/ wallet'.balance = wallet.balance + amount[p]
        BY <4>1, <4>3, Zenon
      <4>5. QED
        BY <4>4, Fields
    <3>2. QED
      BY <1>2, <2>2, <3>1, Fields DEF RefundWrite
  <2>3. QED
    BY <1>6, <2>1, <2>2 DEF RefundStep
<1>7. ASSUME NEW p \in Adjust, AdjustStep(p) PROVE Solvent'
  <2>1. CASE AdjustRead(p)
    BY <1>1, <2>1 DEF AdjustRead
  <2>2. CASE AdjustCredit(p)
    <3>1. wallet'.balance >= 0
      BY <2>2, Fields DEF AdjustCredit, Wallets
    <3>2. QED
      BY <1>2, <2>2, <3>1 DEF AdjustCredit
  <2>3. CASE AdjustDebit(p)
    <3>1. wallet'.balance >= 0
      <4>1. \/ wallet' = wallet
            \/ /\ AdjustAllowed(p)
               /\ wallet' = [wallet EXCEPT !.balance = seen[p].balance - amount[p],
                                         !.debited = wallet.debited + amount[p]]
        BY <2>3, Zenon DEF AdjustDebit
      <4>2. seen[p].balance - amount[p] \in Int /\ wallet.debited + amount[p] \in Nat
        BY Fields
      <4>3. [wallet EXCEPT !.balance = seen[p].balance - amount[p],
                           !.debited = wallet.debited + amount[p]].balance
              = seen[p].balance - amount[p]
        BY <4>2, Balances
      <4>4. \/ wallet'.balance = wallet.balance
            \/ AdjustAllowed(p) /\ wallet'.balance = seen[p].balance - amount[p]
        BY <4>1, <4>3, Zenon
      <4>5. QED
        BY <4>4, Fields DEF AdjustAllowed
    <3>2. QED
      BY <1>2, <2>3, <3>1 DEF AdjustDebit
  <2>4. QED
    BY <1>7, <2>1, <2>2, <2>3 DEF AdjustStep
<1>8. ASSUME NEW p \in Campaign, FinalStep(p) PROVE Solvent'
  <2>1. CASE FinalRead(p)
    BY <1>1, <2>1 DEF FinalRead
  <2>2. CASE FinalWrite(p)
    <3>1. wallet'.balance >= 0
      <4>1. Chargeable(p) \in Int
        BY AvailableType DEF Chargeable, Min2
      <4>2. Max2(0, seen[p].balance - Chargeable(p)) >= 0
        BY <4>1, Fields DEF Max2
      <4>3. wallet'.balance = Max2(0, seen[p].balance - Chargeable(p))
        BY <2>2 DEF FinalWrite, Wallets
      <4>4. QED
        BY <4>2, <4>3
    <3>2. QED
      BY <1>2, <2>2, <3>1 DEF FinalWrite
  <2>3. QED
    BY <1>8, <2>1, <2>2 DEF FinalStep
<1>9. ASSUME NEW p \in SetLimit, LimitStep(p) PROVE Solvent'
  <2>1. CASE LimitRead(p)
    BY <1>1, <2>1 DEF LimitRead
  <2>2. CASE LimitWrite(p)
    <3>1. wallet'.balance = wallet.balance
      BY <2>2 DEF LimitWrite, Wallets
    <3>2. QED
      BY <1>2, <2>2, <3>1 DEF LimitWrite
  <2>3. QED
    BY <1>9, <2>1, <2>2 DEF LimitStep
<1>10. CASE Switch
  <2>1. wallet'.balance = wallet.balance
    BY <1>10 DEF Switch, Wallets
  <2>2. QED
    BY <1>10, <2>1 DEF Switch, FromBalance
<1>11. CASE UNCHANGED vars
  BY <1>11 DEF vars, FromBalance
<1>12. QED
  BY <1>4, <1>5, <1>6, <1>7, <1>8, <1>9, <1>10, <1>11 DEF Next

-----------------------------------------------------------------------------
LEMMA FreshStep ==
  ASSUME TypeOK, OneHolder, CheckedIsFresh, [Next]_vars
  PROVE  CheckedIsFresh'
<1> USE DEF TypeOK, Goto, Requests, OneHolder, Holding, CheckedIsFresh
(* A step that finds the row free, or ends the transaction that has it,    *)
(* leaves no checked credit behind.                                        *)
<1>1. ASSUME NEW p \in Requests, locked = Nobody \/ Holding(p),
             \A q \in Requests : q # p => pc'[q] = pc[q], pc'[p] # "checked"
      PROVE  CheckedIsFresh'
  BY <1>1, FreeRow
(* A step that changes neither the row nor the ledger leaves the checked   *)
(* credits as they are.                                                    *)
<1>2. ASSUME NEW p \in Requests, UNCHANGED <<wallet, ledger>>,
             \A q \in Requests :
               q # p => pc'[q] = pc[q] /\ seen'[q] = seen[q] /\ about'[q] = about[q],
             pc'[p] # "checked"
      PROVE  CheckedIsFresh'
  BY <1>2 DEF AlreadyCredited
<1>3. ASSUME NEW p \in Requests, NEW a, NEW where \in {"read", "refused"},
             Read(p, a, where), UNCHANGED <<wallet, ledger, about>>
      PROVE  CheckedIsFresh'
  BY <1>2, <1>3 DEF Read
<1>4. ASSUME NEW p \in Template \cup Service, DebitStep(p) PROVE CheckedIsFresh'
  <2>1. CASE DebitRead(p)
    BY <1>3, <2>1 DEF DebitRead
  <2>2. CASE DebitRefuse(p)
    <3>1. CASE locked = Nobody
      BY <1>1, <2>2, <3>1 DEF DebitRefuse
    <3>2. CASE locked # Nobody
      BY <1>2, <2>2, <3>2 DEF DebitRefuse
    <3>3. QED
      BY <3>1, <3>2
  <2>3. CASE DebitUpdate(p) \/ DebitCommit(p) \/ DebitRollback(p)
    BY <1>1, <2>3 DEF DebitUpdate, DebitCommit, DebitRollback
  <2>4. QED
    BY <1>4, <2>1, <2>2, <2>3 DEF DebitStep
<1>5. ASSUME NEW p \in TopUp, CreditStep(p) PROVE CheckedIsFresh'
  <2>1. CASE CreditLock(p)
    BY <1>1, <2>1 DEF CreditLock, TakesLock
  <2>2. CASE CreditCheck(p)
    BY <2>2 DEF CreditCheck, AlreadyCredited
  <2>3. CASE CreditCommit(p) \/ CreditRollback(p)
    BY <1>1, <2>3 DEF CreditCommit, CreditRollback
  <2>4. QED
    BY <1>5, <2>1, <2>2, <2>3 DEF CreditStep
<1>6. ASSUME NEW p \in Refund, RefundStep(p) PROVE CheckedIsFresh'
  <2>1. CASE RefundRead(p)
    <3>1. pc'[p] # "checked"
      BY <2>1 DEF RefundRead
    <3>2. QED
      BY <1>2, <2>1, <3>1 DEF RefundRead
  <2>2. CASE RefundWrite(p)
    BY <1>1, <2>2 DEF RefundWrite
  <2>3. QED
    BY <1>6, <2>1, <2>2 DEF RefundStep
<1>7. ASSUME NEW p \in Adjust, AdjustStep(p) PROVE CheckedIsFresh'
  <2>1. CASE AdjustRead(p)
    BY <1>3, <2>1 DEF AdjustRead
  <2>2. CASE AdjustCredit(p) \/ AdjustDebit(p)
    BY <1>1, <2>2 DEF AdjustCredit, AdjustDebit
  <2>3. QED
    BY <1>7, <2>1, <2>2 DEF AdjustStep
<1>8. ASSUME NEW p \in Campaign, FinalStep(p) PROVE CheckedIsFresh'
  <2>1. CASE FinalRead(p)
    BY <1>3, <2>1 DEF FinalRead
  <2>2. CASE FinalWrite(p)
    BY <1>1, <2>2 DEF FinalWrite
  <2>3. QED
    BY <1>8, <2>1, <2>2 DEF FinalStep
<1>9. ASSUME NEW p \in SetLimit, LimitStep(p) PROVE CheckedIsFresh'
  <2>1. CASE LimitRead(p)
    BY <1>3, <2>1 DEF LimitRead
  <2>2. CASE LimitWrite(p)
    BY <1>1, <2>2 DEF LimitWrite
  <2>3. QED
    BY <1>9, <2>1, <2>2 DEF LimitStep
<1>10. CASE Switch
  BY <1>10, FreeRow DEF Switch
<1>11. CASE UNCHANGED vars
  BY <1>11 DEF vars, AlreadyCredited
<1>12. QED
  BY <1>4, <1>5, <1>6, <1>7, <1>8, <1>9, <1>10, <1>11 DEF Next

-----------------------------------------------------------------------------
IInv == TypeOK /\ OneHolder /\ Solvent /\ CheckedIsFresh

LEMMA WalletInvariant == Spec => []IInv
<1>1. Init => IInv
  <2> SUFFICES ASSUME Init PROVE IInv
    OBVIOUS
  <2>1. wallet \in Wallets /\ wallet.balance = Opening
    BY DEF Init, Wallets, Marks
  <2>2. TypeOK
    BY <2>1 DEF Init, TypeOK, Subjects
  <2>3. QED
    BY <2>1, <2>2 DEF Init, IInv, OneHolder, Holding, Solvent, BalanceNonNegative,
                      OpenIsCovered, SeenNonNegative, CheckedIsFresh, Requests
<1>2. IInv /\ [Next]_vars => IInv'
  BY TypeStep, HolderStep, SolventStep, FreshStep DEF IInv, Solvent
<1>3. QED
  BY <1>1, <1>2, PTL DEF Spec

(* The wallet keeps its types whatever the requests do. *)
THEOREM TypeCorrect == Spec => []TypeOK
BY WalletInvariant, PTL DEF IInv

(* "Never lets the balance go negative": true of any number of concurrent  *)
(* debits, refunds, adjustments and final charges together, even of those  *)
(* that write back a balance they read earlier.                            *)
THEOREM NeverNegative == Spec => []BalanceNonNegative
BY WalletInvariant, PTL DEF IInv, Solvent

-----------------------------------------------------------------------------
(* A step adds at most one credit, and only to a payment without one.      *)
LEMMA OnceStep ==
  ASSUME TypeOK, CheckedIsFresh, CreditedOnce, [Next]_vars
  PROVE  CreditedOnce'
<1> USE DEF CreditedOnce
<1>1. ASSUME NEW row, ledger' = ledger \cup {row}, row.kind # "topup"
      PROVE  CreditedOnce'
  BY <1>1
<1>2. ASSUME UNCHANGED ledger PROVE CreditedOnce'
  BY <1>2
<1>3. ASSUME NEW p \in Template \cup Service, DebitStep(p) PROVE CreditedOnce'
  BY <1>1, <1>2, <1>3 DEF DebitStep, DebitRead, DebitRefuse, DebitUpdate, DebitCommit,
                          DebitRollback, Row
<1>4. ASSUME NEW p \in TopUp, CreditStep(p) PROVE CreditedOnce'
  <2>1. CASE CreditCommit(p)
    <3>1. /\ ledger' = ledger \cup {Row(p, "topup", about[p], amount[p])}
          /\ \A row \in ledger : row.kind = "topup" => row.about # about[p]
      BY <2>1 DEF CreditCommit, CheckedIsFresh, AlreadyCredited
    <3>2. Row(p, "topup", about[p], amount[p]).about = about[p]
      BY DEF Row
    <3>3. QED
      BY <3>1, <3>2
  <2>2. CASE ~ CreditCommit(p)
    BY <1>2, <1>4, <2>2 DEF CreditStep, CreditLock, CreditCheck, CreditRollback
  <2>3. QED
    BY <2>1, <2>2
<1>5. ASSUME NEW p \in Refund, RefundStep(p) PROVE CreditedOnce'
  <2>1. \/ UNCHANGED ledger
        \/ ledger' = ledger \cup {Row(p, "refund", about[p], amount[p])}
    BY <1>5 DEF RefundStep, RefundRead, RefundWrite
  <2>2. QED
    BY <1>1, <1>2, <2>1 DEF Row
<1>6. ASSUME NEW p \in Adjust, AdjustStep(p) PROVE CreditedOnce'
  <2>1. \/ UNCHANGED ledger
        \/ ledger' = ledger \cup {Row(p, "adjust", Nobody, amount[p])}
    BY <1>6 DEF AdjustStep, AdjustRead, AdjustCredit, AdjustDebit
  <2>2. QED
    BY <1>1, <1>2, <2>1 DEF Row
<1>7. ASSUME NEW p \in Campaign, FinalStep(p) PROVE CreditedOnce'
  BY <1>1, <1>2, <1>7 DEF FinalStep, FinalRead, FinalWrite, Row
<1>8. ASSUME NEW p \in SetLimit, LimitStep(p) PROVE CreditedOnce'
  BY <1>2, <1>8 DEF LimitStep, LimitRead, LimitWrite
<1>9. CASE Switch \/ UNCHANGED vars
  BY <1>2, <1>9 DEF Switch, vars
<1>10. QED
  BY <1>3, <1>4, <1>5, <1>6, <1>7, <1>8, <1>9 DEF Next

(* A payment is credited once, however many callers bring it at once.      *)
THEOREM CreditExactlyOnce == Spec => []CreditedOnce
<1>1. Init => CreditedOnce
  BY DEF Init, CreditedOnce
<1>2. IInv /\ CreditedOnce /\ [Next]_vars => CreditedOnce'
  BY OnceStep DEF IInv
<1>3. QED
  BY <1>1, <1>2, WalletInvariant, PTL DEF Spec

-----------------------------------------------------------------------------
(* Only Adjust, Campaign and SetLimit write back what they read without a  *)
(* lock.  Until one of them has written, every step moves the balance, the *)
(* credit drawn and the totals together.                                   *)
Lockless == Adjust \cup Campaign \cup SetLimit

LEMMA DoneStays ==
  ASSUME TypeOK, [Next]_vars, NEW q \in Lockless, pc[q] = "done"
  PROVE  pc'[q] = "done"
<1> USE DEF TypeOK, Goto, Requests, Lockless
<1>1. ASSUME NEW p \in Requests, p # q, NEW w, pc' = [pc EXCEPT ![p] = w]
      PROVE  pc'[q] = "done"
  BY <1>1
<1>2. ASSUME NEW p \in Template \cup Service, DebitStep(p) PROVE pc'[q] = "done"
  BY <1>1, <1>2, DisjointAssumption
  DEF DebitStep, DebitRead, Read, DebitRefuse, DebitUpdate, DebitCommit, DebitRollback
<1>3. ASSUME NEW p \in TopUp, CreditStep(p) PROVE pc'[q] = "done"
  BY <1>1, <1>3, DisjointAssumption
  DEF CreditStep, CreditLock, CreditCheck, CreditCommit, CreditRollback
<1>4. ASSUME NEW p \in Refund, RefundStep(p) PROVE pc'[q] = "done"
  BY <1>1, <1>4, DisjointAssumption DEF RefundStep, RefundRead, RefundWrite
<1>5. ASSUME NEW p \in Adjust, AdjustStep(p) PROVE pc'[q] = "done"
  BY <1>5 DEF AdjustStep, AdjustRead, Read, AdjustCredit, AdjustDebit
<1>6. ASSUME NEW p \in Campaign, FinalStep(p) PROVE pc'[q] = "done"
  BY <1>6 DEF FinalStep, FinalRead, Read, FinalWrite
<1>7. ASSUME NEW p \in SetLimit, LimitStep(p) PROVE pc'[q] = "done"
  BY <1>7 DEF LimitStep, LimitRead, Read, LimitWrite
<1>8. CASE Switch \/ UNCHANGED vars
  BY <1>8 DEF Switch, vars
<1>9. QED
  BY <1>2, <1>3, <1>4, <1>5, <1>6, <1>7, <1>8 DEF Next

LEMMA BooksStep ==
  ASSUME IInv, Books, [Next]_vars
  PROVE  Books'
<1> USE DEF IInv, TypeOK, NothingLost
<1> SUFFICES ASSUME \A q \in Lockless : pc'[q] # "done"
             PROVE  NothingLost'
  BY DEF Books, Lockless
<1>0. NothingLost
  BY DoneStays DEF Books, Lockless, IInv
<1> USE DEF Requests
<1>1. /\ wallet.balance \in Int /\ wallet.used \in Nat
      /\ wallet.credited \in Nat /\ wallet.debited \in Nat
      /\ \A p \in Requests : amount[p] \in Nat
  BY Fields
<1>2. ASSUME wallet'.balance = wallet.balance, wallet'.used = wallet.used,
             wallet'.credited = wallet.credited, wallet'.debited = wallet.debited
      PROVE  NothingLost'
  BY <1>0, <1>2
<1>3. ASSUME wallet' = Alerted PROVE NothingLost'
  BY <1>2, <1>3 DEF Alerted, Wallets
<1>4. ASSUME NEW p \in Template \cup Service, DebitStep(p) PROVE NothingLost'
  <2>1. CASE DebitCommit(p)
    <3>1. /\ Debited(p).balance = wallet.balance - FromBalance(p)
          /\ Debited(p).used = wallet.used + (amount[p] - FromBalance(p))
          /\ Debited(p).debited = wallet.debited + amount[p]
          /\ Debited(p).credited = wallet.credited
      BY DEF Debited, Wallets
    <3>2. wallet' = Debited(p)
      BY <2>1 DEF DebitCommit
    <3>3. /\ wallet'.balance = wallet.balance - FromBalance(p)
          /\ wallet'.used = wallet.used + (amount[p] - FromBalance(p))
          /\ wallet'.debited = wallet.debited + amount[p]
          /\ wallet'.credited = wallet.credited
      BY <3>1, <3>2, Zenon
    <3>4. FromBalance(p) \in Int
      BY SplitType
    <3>5. /\ wallet.balance \in Int /\ wallet.used \in Int /\ Opening \in Int
          /\ wallet.credited \in Int /\ wallet.debited \in Int /\ amount[p] \in Int
      BY <1>1
    <3>6. QED
      BY ONLY <1>0, <3>3, <3>4, <3>5 DEF NothingLost
  <2>2. CASE ~ DebitCommit(p)
    BY <1>2, <1>3, <1>4, <2>2
    DEF DebitStep, DebitRead, Read, DebitRefuse, DebitUpdate, DebitRollback
  <2>3. QED
    BY <2>1, <2>2
<1>5. ASSUME NEW p \in TopUp, CreditStep(p) PROVE NothingLost'
  <2>1. CASE CreditCommit(p)
    <3>1. seen[p].balance = wallet.balance
      BY <2>1 DEF CreditCommit, CheckedIsFresh
    <3>2. /\ wallet'.balance = wallet.balance + amount[p]
          /\ wallet'.used = wallet.used
          /\ wallet'.credited = wallet.credited + amount[p]
          /\ wallet'.debited = wallet.debited
      BY <2>1, <3>1 DEF CreditCommit, Wallets
    <3>3. QED
      BY <1>0, <1>1, <3>2
  <2>2. CASE ~ CreditCommit(p)
    BY <1>2, <1>5, <2>2 DEF CreditStep, CreditLock, CreditCheck, CreditRollback
  <2>3. QED
    BY <2>1, <2>2
<1>6. ASSUME NEW p \in Refund, RefundStep(p) PROVE NothingLost'
  <2>1. CASE UNCHANGED wallet
    BY <1>2, <2>1
  <2>2. CASE wallet' = [wallet EXCEPT !.balance = wallet.balance + amount[p],
                                      !.credited = wallet.credited + amount[p]]
    <3>1. /\ wallet'.balance = wallet.balance + amount[p]
          /\ wallet'.used = wallet.used
          /\ wallet'.credited = wallet.credited + amount[p]
          /\ wallet'.debited = wallet.debited
      BY <2>2 DEF Wallets
    <3>2. QED
      BY <1>0, <1>1, <3>1
  <2>3. QED
    BY <1>6, <2>1, <2>2, Zenon DEF RefundStep, RefundRead, RefundWrite
<1>7. CASE Switch
  BY <1>2, <1>7 DEF Switch, Wallets
<1>8. CASE UNCHANGED vars
  BY <1>2, <1>8 DEF vars
<1>9. ASSUME NEW p \in Lockless, pc' = [pc EXCEPT ![p] = "done"]
      PROVE  FALSE
  BY <1>9 DEF Lockless
<1>10. ASSUME NEW p \in Adjust, AdjustStep(p) PROVE NothingLost'
  BY <1>2, <1>9, <1>10 DEF AdjustStep, AdjustRead, AdjustCredit, AdjustDebit, Goto, Lockless
<1>11. ASSUME NEW p \in Campaign, FinalStep(p) PROVE NothingLost'
  BY <1>2, <1>9, <1>11 DEF FinalStep, FinalRead, FinalWrite, Goto, Lockless
<1>12. ASSUME NEW p \in SetLimit, LimitStep(p) PROVE NothingLost'
  BY <1>2, <1>9, <1>12 DEF LimitStep, LimitRead, LimitWrite, Goto, Lockless
<1>13. QED
  BY <1>4, <1>5, <1>6, <1>7, <1>8, <1>10, <1>11, <1>12 DEF Next

(* balanceAfter = balanceBefore - what was charged: no debit, top-up or    *)
(* refund is lost among any number of concurrent ones.                     *)
THEOREM BooksBalance == Spec => []Books
<1>1. Init => Books
  BY DEF Init, Books, NothingLost
<1>2. IInv /\ Books /\ [Next]_vars => Books'
  BY BooksStep
<1>3. QED
  BY <1>1, <1>2, WalletInvariant, PTL DEF Spec

-----------------------------------------------------------------------------
(* A refund that was begun is of a message that has its charge.            *)
RefundsAreDue ==
  \A p \in Refund : pc[p] = "read" => RefundableFor(about[p], amount[p])

LedgerGrows == ledger \subseteq ledger'

LEMMA LedgerStep ==
  ASSUME [Next]_vars
  PROVE  LedgerGrows
BY DEF LedgerGrows, Next, vars, DebitStep, DebitRead, DebitRefuse, DebitUpdate, DebitCommit,
       DebitRollback, CreditStep, CreditLock, CreditCheck, CreditCommit, CreditRollback,
       RefundStep, RefundRead, RefundWrite, AdjustStep, AdjustRead, AdjustCredit, AdjustDebit,
       FinalStep, FinalRead, FinalWrite, LimitStep, LimitRead, LimitWrite, Switch

LEMMA DueStep ==
  ASSUME TypeOK, RefundsAreDue, [Next]_vars
  PROVE  RefundsAreDue'
<1> USE DEF TypeOK, Goto, Requests, RefundsAreDue
<1>1. \A m, a : RefundableFor(m, a) => RefundableFor(m, a)'
  BY LedgerStep DEF LedgerGrows, RefundableFor
<1>2. ASSUME NEW p \in Requests \ Refund,
             \A q \in Requests :
               q # p => pc'[q] = pc[q] /\ about'[q] = about[q] /\ amount'[q] = amount[q]
      PROVE  RefundsAreDue'
  BY <1>1, <1>2
<1>3. ASSUME NEW p \in Template \cup Service, DebitStep(p) PROVE RefundsAreDue'
  BY <1>2, <1>3, DisjointAssumption
  DEF DebitStep, DebitRead, Read, DebitRefuse, DebitUpdate, DebitCommit, DebitRollback
<1>4. ASSUME NEW p \in TopUp, CreditStep(p) PROVE RefundsAreDue'
  BY <1>2, <1>4, DisjointAssumption
  DEF CreditStep, CreditLock, CreditCheck, CreditCommit, CreditRollback
<1>5. ASSUME NEW p \in Refund, RefundStep(p) PROVE RefundsAreDue'
  <2>1. CASE RefundRead(p)
    BY <1>1, <2>1 DEF RefundRead
  <2>2. CASE RefundWrite(p)
    BY <1>1, <2>2 DEF RefundWrite
  <2>3. QED
    BY <1>5, <2>1, <2>2 DEF RefundStep
<1>6. ASSUME NEW p \in Adjust, AdjustStep(p) PROVE RefundsAreDue'
  BY <1>2, <1>6, DisjointAssumption DEF AdjustStep, AdjustRead, Read, AdjustCredit, AdjustDebit
<1>7. ASSUME NEW p \in Campaign, FinalStep(p) PROVE RefundsAreDue'
  BY <1>2, <1>7, DisjointAssumption DEF FinalStep, FinalRead, Read, FinalWrite
<1>8. ASSUME NEW p \in SetLimit, LimitStep(p) PROVE RefundsAreDue'
  BY <1>2, <1>8, DisjointAssumption DEF LimitStep, LimitRead, Read, LimitWrite
<1>9. CASE Switch \/ UNCHANGED vars
  BY <1>1, <1>9 DEF Switch, vars
<1>10. QED
  BY <1>3, <1>4, <1>5, <1>6, <1>7, <1>8, <1>9 DEF Next

LEMMA RefundOnceStep ==
  ASSUME TypeOK, RefundsAreDue, RefundedOnce, [Next]_vars
  PROVE  RefundedOnce'
<1> USE DEF RefundedOnce
<1>1. ASSUME NEW row, ledger' = ledger \cup {row}, row.kind # "refund"
      PROVE  RefundedOnce'
  BY <1>1
<1>2. ASSUME UNCHANGED ledger PROVE RefundedOnce'
  BY <1>2
<1>3. ASSUME NEW p \in Template \cup Service, DebitStep(p) PROVE RefundedOnce'
  BY <1>1, <1>2, <1>3 DEF DebitStep, DebitRead, DebitRefuse, DebitUpdate, DebitCommit,
                          DebitRollback, Row
<1>4. ASSUME NEW p \in TopUp, CreditStep(p) PROVE RefundedOnce'
  BY <1>1, <1>2, <1>4 DEF CreditStep, CreditLock, CreditCheck, CreditCommit,
                          CreditRollback, Row
<1>5. ASSUME NEW p \in Refund, RefundStep(p) PROVE RefundedOnce'
  <2>1. CASE UNCHANGED ledger
    BY <1>2, <2>1
  <2>2. CASE /\ RefundWrite(p)
             /\ Unique(p)
             /\ ledger' = ledger \cup {Row(p, "refund", about[p], amount[p])}
    <3> DEFINE new == Row(p, "refund", about[p], amount[p])
    <3>1. new.kind = "refund" /\ new.about = about[p] /\ new.amount = amount[p]
      BY DEF Row
    <3>2. \A row \in ledger : row.kind = "refund" => row.about # about[p]
      BY <2>2 DEF Unique, Refunded
    <3>3. about[p] \in Service =>
            \E s \in ledger : s.kind = "debit" /\ s.about = about[p] /\ s.amount = amount[p]
      <4>1. RefundableFor(about[p], amount[p])
        BY <2>2 DEF RefundWrite, RefundsAreDue
      <4>2. about[p] \in Service => about[p] \notin CampaignMsgs
        BY DisjointAssumption DEF Requests
      <4>3. QED
        BY <4>1, <4>2 DEF RefundableFor
    <3>4. ledger' = ledger \cup {new}
      BY <2>2
    <3> HIDE DEF new
    <3>5. ASSUME NEW r \in ledger', r.kind = "refund"
          PROVE  /\ \A s \in ledger' : s.kind = "refund" /\ s.about = r.about => s = r
                 /\ r.about \in Service =>
                      \E s \in ledger' :
                        s.kind = "debit" /\ s.about = r.about /\ s.amount = r.amount
      <4>1. CASE r = new
        BY <3>1, <3>2, <3>3, <3>4, <4>1
      <4>2. CASE r \in ledger
        BY <3>1, <3>2, <3>4, <3>5, <4>2
      <4>3. QED
        BY <3>4, <4>1, <4>2
    <3>6. QED
      BY <3>5
  <2>3. QED
    BY <1>5, <2>1, <2>2 DEF RefundStep, RefundRead, RefundWrite
<1>6. ASSUME NEW p \in Adjust, AdjustStep(p) PROVE RefundedOnce'
  <2>1. \/ UNCHANGED ledger
        \/ ledger' = ledger \cup {Row(p, "adjust", Nobody, amount[p])}
    BY <1>6 DEF AdjustStep, AdjustRead, AdjustCredit, AdjustDebit
  <2>2. QED
    BY <1>1, <1>2, <2>1 DEF Row
<1>7. ASSUME NEW p \in Campaign, FinalStep(p) PROVE RefundedOnce'
  BY <1>1, <1>2, <1>7 DEF FinalStep, FinalRead, FinalWrite, Row
<1>8. ASSUME NEW p \in SetLimit, LimitStep(p) PROVE RefundedOnce'
  BY <1>2, <1>8 DEF LimitStep, LimitRead, LimitWrite
<1>9. CASE Switch \/ UNCHANGED vars
  BY <1>2, <1>9 DEF Switch, vars
<1>10. QED
  BY <1>3, <1>4, <1>5, <1>6, <1>7, <1>8, <1>9 DEF Next

(* One charge, one refund: whoever asks for it and how often.              *)
THEOREM RefundAtMostOnce == Spec => []RefundedOnce
<1>1. Init => RefundsAreDue /\ RefundedOnce
  BY DEF Init, RefundsAreDue, RefundedOnce, Requests
<1>2. IInv /\ RefundsAreDue /\ RefundedOnce /\ [Next]_vars => RefundsAreDue' /\ RefundedOnce'
  BY DueStep, RefundOnceStep DEF IInv
<1>3. QED
  BY <1>1, <1>2, WalletInvariant, PTL DEF Spec

-----------------------------------------------------------------------------
(* The top-up order.                                                       *)

(* What every path to a credit carries with it: proof that the order was   *)
(* paid - a checked signature, the gateway's answer, or its event.         *)
InCredit(c) == at[c] \in {"credit", "locked", "found", "missing"}
PaidOnRecord ==
  /\ \A c \in Caller : InCredit(c) => Paid
  /\ Event \cap hooks # {} => Paid

(* Whoever looks for a credit holds the lock of the wallet's row, and what *)
(* it has found is still so: nobody else can have committed one.           *)
LookedUnderLock ==
  \A c \in Caller :
    /\ at[c] \in {"locked", "found", "missing"} => lock = c
    /\ at[c] = "missing" => credits = 0

OrderInv == OrderTypeOK /\ PaidOnRecord /\ LookedUnderLock /\ OrderCreditedOnce /\ CreditedIsPaid

(* The invariant holds at first and every step of any actor keeps it. *)
LEMMA OrderInvInit == OrderInit => OrderInv
  BY TopUpAssumption DEF OrderInit, OrderInv, OrderTypeOK, PaidOnRecord, InCredit, LookedUnderLock, OrderCreditedOnce,
     CreditedIsPaid, Paid, Caller

(* The transaction that credits. *)
LEMMA OrderCreditKeeps ==
  ASSUME OrderInv, NEW c \in Caller, OrderCreditStep(c) \/ Throws(c) \/ Dies(c)
  PROVE  OrderInv'
<1> USE TopUpAssumption DEF OrderInv, OrderTypeOK, PaidOnRecord, InCredit, LookedUnderLock, OrderCreditedOnce,
                            CreditedIsPaid, Paid, Goes, Unlock
<1>1. CASE LockWallet(c)
  BY <1>1 DEF LockWallet
<1>2. CASE FindCredit(c)
  BY <1>2 DEF FindCredit, Existing
<1>3. CASE CommitCredit(c)
  <2>1. lock = c /\ \A d \in Caller \ {c} : at[d] \notin {"locked", "found", "missing"}
    BY <1>3 DEF CommitCredit
  <2>2. Paid /\ (at[c] = "missing" => credits = 0)
    BY <1>3 DEF CommitCredit
  <2> QED
    BY <1>3, <2>1, <2>2 DEF CommitCredit
<1>4. CASE Throws(c)
  BY <1>4 DEF Throws, Fault
<1>5. CASE NoteFailure(c)
  BY <1>5 DEF NoteFailure, Attempted
<1>6. CASE Dies(c)
  BY <1>6 DEF Dies, Fault
<1> QED
  BY <1>1, <1>2, <1>3, <1>4, <1>5, <1>6 DEF OrderCreditStep

LEMMA OrderInvNext == OrderInv /\ [OrderNext]_orderVars => OrderInv'
<1> SUFFICES ASSUME OrderInv, [OrderNext]_orderVars PROVE OrderInv'
  OBVIOUS
<1> USE TopUpAssumption DEF OrderInv, OrderTypeOK, PaidOnRecord, InCredit, LookedUnderLock, OrderCreditedOnce,
                            CreditedIsPaid, Paid, Goes
<1>0. Cron \subseteq Caller /\ Event \subseteq Caller /\ {"verify", "retry"} \subseteq Caller
  BY DEF Caller
<1>1. CASE PaymentFails
  BY <1>1 DEF PaymentFails
<1>2. CASE Pay
  BY <1>2 DEF Pay
<1>3. CASE Verify
  BY <1>0, <1>3 DEF Verify, Signed
<1>4. CASE VerifyBadSignature
  BY <1>4 DEF VerifyBadSignature, Fault, Attempted
<1>5. CASE Retry
  BY <1>0, <1>5 DEF Retry
<1>6. CASE HookFailed
  BY <1>6 DEF HookFailed, Deliver
<1>7. ASSUME NEW event \in Event, HookCaptured(event) PROVE OrderInv'
  BY <1>0, <1>7 DEF HookCaptured, Deliver
<1>8. ASSUME NEW c \in Caller, OrderCreditStep(c) \/ Throws(c) \/ Dies(c) PROVE OrderInv'
  BY <1>8, OrderCreditKeeps
<1>9. ASSUME NEW i \in Cron, CronStep(i) PROVE OrderInv'
  <2>1. CASE CronList(i)
    BY <1>0, <2>1 DEF CronList, Listed
  <2>2. CASE CronFetch(i)
    BY <1>0, <2>2 DEF CronFetch
  <2>3. CASE CronUnpaid(i)
    BY <1>0, <2>3 DEF CronUnpaid, Attempted
  <2> QED
    BY <1>9, <2>1, <2>2, <2>3 DEF CronStep
<1>10. ASSUME NEW i \in Cron, CronMissed(i) PROVE OrderInv'
  BY <1>10 DEF CronMissed, Fault
<1>11. CASE Tick
  BY <1>11 DEF Tick
<1>12. CASE UNCHANGED orderVars
  BY <1>12 DEF orderVars
<1> QED
  BY <1>1, <1>2, <1>3, <1>4, <1>5, <1>6, <1>7, <1>8, <1>9, <1>10, <1>11, <1>12 DEF OrderNext

LEMMA OrderInvariance == OrderSpec => []OrderInv
  BY OrderInvInit, OrderInvNext, PTL DEF OrderSpec

(* The order's variables keep their types. *)
THEOREM OrderTypeCorrect == OrderSpec => []OrderTypeOK
  BY OrderInvariance, PTL DEF OrderInv

(* An order is credited once by however many callers, each of whom locks,  *)
(* looks and commits in steps of its own, and also when it was failed      *)
(* after it had been credited.                                             *)
THEOREM OrderIsCreditedOnce == OrderSpec => []OrderCreditedOnce
  BY OrderInvariance, PTL DEF OrderInv

(* No interleaving of the paths credits an order that was not paid for.    *)
THEOREM CreditedMeansPaid == OrderSpec => []CreditedIsPaid
  BY OrderInvariance, PTL DEF OrderInv

==============================================================================
