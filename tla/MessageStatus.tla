--------------------------- MODULE MessageStatus ----------------------------
(***************************************************************************)
(* What becomes of messages once they are sent (webhook.service.ts, with   *)
(* gupshup.router.ts, gupshup.service.ts and the service charges of        *)
(* wallet.deduction.service.ts).                                           *)
(*                                                                         *)
(* A message is kept in up to three tables: the campaign's contact row,    *)
(* the chat in the inbox, and, for a service message sent through Gupshup, *)
(* its charge in the ledger.  Gupshup names a message first (gs) and Meta  *)
(* afterwards (wamid); a charge begins under a name of its own (svc).      *)
(* Reports of what became of a message come from Meta and Gupshup while    *)
(* the sender is still writing these names down.  They come in any order,  *)
(* twice or never, are acknowledged before they are processed, and each is *)
(* processed by a handler whose statements interleave with all the others. *)
(* The campaign's counters, which a handler also writes, are left out.     *)
(***************************************************************************)
EXTENDS Integers, Sequences, FiniteSets

CONSTANTS
  Campaign,      \* messages of campaigns
  Service,       \* service messages sent and charged through Gupshup
  ViaGupshup,    \* messages of campaigns sent through Gupshup
  Handler,       \* names for reports in progress, used again
  MaxSent,       \* messages that are sent
  MaxReports,    \* reports that arrive
  Faults,        \* what goes wrong
  MaxFaults,     \* how much of it
  Nothing

Message == Campaign \cup Service

ASSUME StatusAssumption ==
  /\ Campaign \cap Service = {} /\ ViaGupshup \subseteq Campaign
  /\ Nothing \notin Message
  /\ MaxSent \in Nat /\ MaxReports \in Nat /\ MaxFaults \in Nat
  /\ Faults \subseteq {"attach", "save", "refund", "timeout", "store", "crash"}

VARIABLES
  fate,          \* what Meta has made of each message
  sender,        \* where the function that sends it is
  row,           \* CampaignContact: status and waMessageId
  chat,          \* Message in the inbox: status and waMessageId
  charge,        \* metaChargeId of the charge of a service message
  refunds,       \* metaChargeIds under which the message was refunded
  queue,         \* refundQueue, in memory
  work,          \* the refund being tried: message and attempt
  granted,       \* messages of campaigns for which a refund was queued
  stored,        \* refunds put aside for manual retry
  stage,         \* where each handler is
  about, says,   \* its message, and what the report says
  todo,          \* tables whose names of the message it has still to change
  seen,          \* the status it has read
  spawned,       \* what it has left running in the background
  reports,       \* reports that have arrived
  faults         \* what has gone wrong

books == <<charge, refunds>>
refunding == <<queue, work, granted, stored>>
handling == <<stage, about, says, todo, seen, spawned, reports>>
vars == <<fate, sender, row, chat, books, refunding, handling, faults>>

-----------------------------------------------------------------------------
Reported == {"SENT", "DELIVERED", "READ", "FAILED"}
Ids == {"none", "gs", "wamid"}

TypeOK ==
  /\ fate \in [Message -> Reported \cup {"UNSENT"}]
  /\ sender \in [Message -> {"new", "sending", "accepted", "error", "named", "over"}]
  /\ row \in [Campaign -> [status : Reported \cup {"QUEUED"}, id : Ids]]
  /\ chat \in [Message -> [status : Reported \cup {"none"}, id : Ids]]
  /\ \A m \in Message : chat[m].status = "none" <=> chat[m].id = "none"
  /\ charge \in [Service -> {"none", "svc", "gs", "wamid"}]
  /\ refunds \in [Message -> SUBSET {"svc", "gs", "wamid"}]
  /\ queue \in Seq(Campaign)
  /\ work \in [item : Campaign \cup {Nothing}, attempt : 0 .. 4]
  /\ granted \subseteq Campaign /\ stored \subseteq Campaign
  /\ stage \in [Handler -> {"free", "map", "row", "judge", "chat", "write", "ended"}]
  /\ about \in [Handler -> Message \cup {Nothing}]
  /\ says \in [Handler -> Reported \cup {"ENQUEUED"}]
  /\ todo \in [Handler -> SUBSET {"row", "chat", "charge"}]
  /\ seen \in [Handler -> Reported \cup {"QUEUED"}]
  /\ spawned \in [Handler -> SUBSET {"refund", "chat"}]
  /\ reports \in Nat /\ faults \subseteq Faults

Init ==
  /\ fate = [m \in Message |-> "UNSENT"]
  /\ sender = [m \in Message |-> "new"]
  /\ row = [m \in Campaign |-> [status |-> "QUEUED", id |-> "none"]]
  /\ chat = [m \in Message |-> [status |-> "none", id |-> "none"]]
  /\ charge = [m \in Service |-> "none"]
  /\ refunds = [m \in Message |-> {}]
  /\ queue = <<>> /\ work = [item |-> Nothing, attempt |-> 0]
  /\ granted = {} /\ stored = {}
  /\ stage = [h \in Handler |-> "free"]
  /\ about = [h \in Handler |-> Nothing]
  /\ says = [h \in Handler |-> "SENT"]
  /\ todo = [h \in Handler |-> {}]
  /\ seen = [h \in Handler |-> "SENT"]
  /\ spawned = [h \in Handler |-> {}]
  /\ reports = 0 /\ faults = {}

Fault(kind) ==
  /\ kind \in Faults \ faults /\ Cardinality(faults) < MaxFaults
  /\ faults' = faults \cup {kind}

(* The name under which the provider answers the sender. *)
Given(m) == IF m \in Service \cup ViaGupshup THEN "gs" ELSE "wamid"

-----------------------------------------------------------------------------
(* Refunds of service charges (refundServiceCharge): one transaction, which*)
(* finds the charge by its name of the moment.                             *)

OwedAnyway(m, ref) == m \in Service /\ charge[m] # "none"
Owed(m, ref) == m \in Service /\ charge[m] = ref

RefundCharge(m, ref) ==
  refunds' = IF Owed(m, ref) THEN [refunds EXCEPT ![m] = @ \cup {ref}] ELSE refunds

-----------------------------------------------------------------------------
(* Sending.                                                                *)

SenderAt(m, from, to) == sender[m] = from /\ sender' = [sender EXCEPT ![m] = to]

(* routeSend charges a service message before it is sent; where the wallet *)
(* cannot be charged it is sent all the same, or, with too little in it,   *)
(* not at all.                                                             *)
Send(m) ==
  /\ Cardinality({k \in Message : sender[k] # "new"}) < MaxSent
  /\ \/ /\ SenderAt(m, "new", "sending")
        /\ \/ m \in Campaign /\ UNCHANGED charge
           \/ m \in Service /\ \E ref \in {"svc", "none"} : charge' = [charge EXCEPT ![m] = ref]
     \/ m \in Service /\ SenderAt(m, "new", "over") /\ UNCHANGED charge
  /\ UNCHANGED <<fate, row, chat, refunds, refunding, handling, faults>>

(* Meta: a message is accepted, delivered, read, or fails. *)
Happen(m) ==
  /\ \/ fate[m] = "UNSENT" /\ sender[m] = "sending" /\ fate' = [fate EXCEPT ![m] = "SENT"]
     \/ fate[m] = "SENT" /\ \E f \in {"DELIVERED", "FAILED"} : fate' = [fate EXCEPT ![m] = f]
     \/ fate[m] = "DELIVERED" /\ fate' = [fate EXCEPT ![m] = "READ"]
  /\ UNCHANGED <<sender, row, chat, books, refunding, handling, faults>>

Answer(m) ==
  /\ SenderAt(m, "sending", "accepted")
  /\ fate[m] # "UNSENT"
  /\ UNCHANGED <<fate, row, chat, books, refunding, handling, faults>>

(* The request is refused, or its answer does not come. *)
NoAnswer(m) ==
  /\ SenderAt(m, "sending", "error")
  /\ UNCHANGED <<fate, row, chat, books, refunding, handling, faults>>

RefundUnsent(m) ==
  /\ m \in Service
  /\ SenderAt(m, "error", "over")
  /\ \/ RefundCharge(m, "svc") /\ UNCHANGED faults
     \/ Fault("refund") /\ UNCHANGED refunds
  /\ UNCHANGED <<fate, row, chat, charge, refunding, handling>>

(* attachServiceChargeRef: the charge takes the name Gupshup gave.         *)
Attach(m) ==
  /\ m \in Service
  /\ SenderAt(m, "accepted", "named")
  /\ \/ /\ charge' = IF charge[m] = "svc" THEN [charge EXCEPT ![m] = Given(m)] ELSE charge
        /\ UNCHANGED faults
     \/ charge[m] = "svc" /\ Fault("attach") /\ UNCHANGED charge
  /\ UNCHANGED <<fate, row, chat, refunds, refunding, handling>>

(* flushBatchResults writes the outcome of a campaign's message. *)
Flush(m) ==
  /\ m \in Campaign
  /\ \/ /\ SenderAt(m, "accepted", "named")
        /\ row' = [row EXCEPT ![m] = [status |-> "SENT", id |-> Given(m)]]
     \/ /\ SenderAt(m, "error", "over")
        /\ row' = [row EXCEPT ![m].status = "FAILED"]
  /\ UNCHANGED <<fate, chat, books, refunding, handling, faults>>

SaveChat(m) ==
  /\ SenderAt(m, "named", "over")
  /\ \/ /\ chat' = [chat EXCEPT ![m] = [status |-> "SENT", id |-> Given(m)]]
        /\ UNCHANGED faults
     \/ Fault("save") /\ UNCHANGED chat
  /\ UNCHANGED <<fate, row, books, refunding, handling>>

SenderStep(m) ==
  Send(m) \/ Answer(m) \/ RefundUnsent(m) \/ Attach(m) \/ Flush(m) \/ SaveChat(m)

-----------------------------------------------------------------------------
(* Handlers.                                                               *)

At(h, from, to) == stage[h] = from /\ stage' = [stage EXCEPT ![h] = to]

Tables(m) == IF m \in Service THEN {"chat", "charge"} ELSE {"row", "chat"}

(* A report arrives: of anything that has happened to the message by now,  *)
(* from Meta, or from Gupshup with both names.                             *)
Happened(m) ==
  CASE fate[m] = "UNSENT" -> {}
    [] fate[m] = "READ" -> {"SENT", "DELIVERED", "READ"}
    [] OTHER -> {"SENT", fate[m]}

Report(h, m) ==
  /\ At(h, "free", "map")
  /\ fate[m] # "UNSENT" /\ reports < MaxReports
  /\ about' = [about EXCEPT ![h] = m]
  /\ \/ /\ says' \in {[says EXCEPT ![h] = s] : s \in Happened(m)}
        /\ UNCHANGED todo
     \/ /\ Given(m) = "gs"
        /\ says' \in {[says EXCEPT ![h] = s] : s \in Happened(m) \cup {"ENQUEUED"}}
        /\ todo' = [todo EXCEPT ![h] = Tables(m)]
  /\ reports' = reports + 1
  /\ UNCHANGED <<fate, sender, row, chat, books, refunding, seen, spawned, faults>>

(* mapStatusIds: in each table, all at once, gs becomes wamid. *)
RenamedAll(id) == "wamid"
Renamed(id) == IF id = "gs" THEN "wamid" ELSE id
ChargeKept(m) == charge
ChargeRenamed(m) == [charge EXCEPT ![m] = Renamed(@)]

Rename(h, table) ==
  LET m == about[h] IN
  /\ stage[h] = "map" /\ table \in todo[h]
  /\ todo' = [todo EXCEPT ![h] = @ \ {table}]
  /\ row' = IF table = "row" THEN [row EXCEPT ![m].id = Renamed(@)] ELSE row
  /\ chat' = IF table = "chat" THEN [chat EXCEPT ![m].id = Renamed(@)] ELSE chat
  /\ charge' = IF table = "charge" THEN ChargeRenamed(m) ELSE charge
  /\ UNCHANGED <<fate, sender, refunds, refunding, stage, about, says, seen, spawned,
                 reports, faults>>

(* A status moves forward only, and a failure is final. *)
Rank == [s \in Reported \cup {"QUEUED"} |->
           CASE s = "QUEUED" -> 0 [] s = "SENT" -> 1 [] s = "DELIVERED" -> 2
             [] s = "READ" -> 3 [] s = "FAILED" -> 4]
ForwardAlways(old, new) == TRUE
Forward(old, new) == new = "FAILED" \/ (old # "FAILED" /\ Rank[new] > Rank[old])

FindRow(h) ==
  LET m == about[h]
      wanted == /\ m \in Campaign /\ says[h] # "ENQUEUED"
                /\ row[m].id = "wamid"
                /\ Forward(row[m].status, says[h])
  IN
  /\ stage[h] = "map" /\ todo[h] = {}
  /\ IF wanted
       THEN At(h, "map", "row") /\ seen' = [seen EXCEPT ![h] = row[m].status]
       ELSE At(h, "map", IF says[h] = "ENQUEUED" THEN "ended" ELSE "chat") /\ UNCHANGED seen
  /\ UNCHANGED <<fate, sender, row, chat, books, refunding, about, says, todo, spawned,
                 reports, faults>>

(* updateCampaignContactStatus: where the row is still as it was read. *)
Whatever(h) == TRUE
Unchanged(h) == row[about[h]].status = seen[h]

UpdateRow(h) ==
  /\ At(h, "row", IF says[h] = "FAILED" /\ seen[h] # "FAILED" THEN "judge" ELSE "chat")
  /\ row' = IF Unchanged(h) THEN [row EXCEPT ![about[h]].status = says[h]] ELSE row
  /\ UNCHANGED <<fate, sender, chat, books, refunding, about, says, todo, seen, spawned,
                 reports, faults>>

(* shouldRefundFailure: always in a small campaign or one that reaches     *)
(* few, otherwise until so many have been refunded.                        *)
Judge(h) ==
  /\ At(h, "judge", "chat")
  /\ \/ queue' = Append(queue, about[h]) /\ granted' = granted \cup {about[h]}
     \/ UNCHANGED <<queue, granted>>
  /\ UNCHANGED <<fate, sender, row, chat, books, work, stored, about, says, todo, seen,
                 spawned, reports, faults>>

(* The refund of a service charge is started and not awaited.  A chat not  *)
(* found is looked for again, several times, in the background.            *)
Found(h) ==
  LET m == about[h] IN
  IF chat[m].id = "wamid" /\ Forward(chat[m].status, says[h])
    THEN At(h, stage[h], "write") /\ seen' = [seen EXCEPT ![h] = chat[m].status]
    ELSE At(h, stage[h], "ended") /\ UNCHANGED seen

FindChat(h) ==
  /\ stage[h] = "chat"
  /\ Found(h)
  /\ spawned' = [spawned EXCEPT ![h] =
       {s \in {"refund", "chat"} :
          IF s = "refund" THEN says[h] = "FAILED" ELSE chat[about[h]].id # "wamid"}]
  /\ UNCHANGED <<fate, sender, row, chat, books, refunding, about, says, todo, reports, faults>>

FindChatLater(h) ==
  /\ stage[h] = "ended" /\ "chat" \in spawned[h]
  /\ spawned' = [spawned EXCEPT ![h] = @ \ {"chat"}]
  /\ Found(h)
  /\ UNCHANGED <<fate, sender, row, chat, books, refunding, about, says, todo, reports, faults>>

WriteChat(h) ==
  /\ At(h, "write", "ended")
  /\ chat' = [chat EXCEPT ![about[h]].status = says[h]]
  /\ UNCHANGED <<fate, sender, row, books, refunding, about, says, todo, seen, spawned,
                 reports, faults>>

RefundUndelivered(h) ==
  /\ "refund" \in spawned[h]
  /\ spawned' = [spawned EXCEPT ![h] = @ \ {"refund"}]
  /\ \/ RefundCharge(about[h], "wamid") /\ UNCHANGED faults
     \/ Fault("refund") /\ UNCHANGED refunds
  /\ UNCHANGED <<fate, sender, row, chat, charge, refunding, stage, about, says, todo, seen,
                 reports>>

End(h) ==
  /\ At(h, "ended", "free") /\ spawned[h] = {}
  /\ about' = [about EXCEPT ![h] = Nothing]
  /\ says' = [says EXCEPT ![h] = "SENT"] /\ seen' = [seen EXCEPT ![h] = "SENT"]
  /\ todo' = [todo EXCEPT ![h] = {}]
  /\ UNCHANGED <<fate, sender, row, chat, books, refunding, spawned, reports, faults>>

HandlerStep(h) ==
  \/ \E table \in todo[h] : Rename(h, table)
  \/ FindRow(h) \/ UpdateRow(h) \/ Judge(h)
  \/ FindChat(h) \/ FindChatLater(h) \/ WriteChat(h)
  \/ RefundUndelivered(h) \/ End(h)

-----------------------------------------------------------------------------
(* The refund queue (processRefundQueue, processRefundWithRetry).          *)

Idle == [item |-> Nothing, attempt |-> 0]

TakeRefund ==
  /\ work = Idle /\ queue # <<>>
  /\ work' = [item |-> Head(queue), attempt |-> 1]
  /\ queue' = Tail(queue)
  /\ UNCHANGED <<fate, sender, row, chat, books, granted, stored, handling, faults>>

RefundMessage(m) == refunds' = [refunds EXCEPT ![m] = @ \cup {"wamid"}]

PayRefund ==
  /\ work # Idle /\ work.attempt <= 3
  /\ RefundMessage(work.item)
  /\ work' = Idle
  /\ UNCHANGED <<fate, sender, row, chat, charge, queue, granted, stored, handling, faults>>

(* A transaction that timed out may have been committed.  Every error but a*)
(* timeout, and the third timeout, ends the attempts.                      *)
NextAttempt(error) == IF error = "timeout" THEN work.attempt + 1 ELSE 4

RefundFails ==
  /\ work # Idle /\ work.attempt <= 3
  /\ \/ /\ work.attempt > 1 \/ Fault("timeout")
        /\ work.attempt > 1 => UNCHANGED faults
        /\ work' = [work EXCEPT !.attempt = NextAttempt("timeout")]
        /\ RefundMessage(work.item) \/ UNCHANGED refunds
     \/ /\ Fault("refund")
        /\ work' = [work EXCEPT !.attempt = NextAttempt("refund")]
        /\ UNCHANGED refunds
  /\ UNCHANGED <<fate, sender, row, chat, charge, queue, granted, stored, handling>>

DroppedAfterwards(m) == {}
StoredAfterwards(m) == {m}

StoreRefund ==
  /\ work.attempt = 4
  /\ \/ stored' = stored \cup StoredAfterwards(work.item) /\ UNCHANGED faults
     \/ Fault("store") /\ UNCHANGED stored
  /\ work' = Idle
  /\ UNCHANGED <<fate, sender, row, chat, books, queue, granted, handling>>

RefundStep == TakeRefund \/ PayRefund \/ RefundFails \/ StoreRefund

(* The process dies: what it was sending, handling and refunding is lost.  *)
Crash ==
  /\ Fault("crash")
  /\ sender' = [m \in Message |-> IF sender[m] = "new" THEN "new" ELSE "over"]
  /\ queue' = <<>> /\ work' = Idle
  /\ stage' = [h \in Handler |-> "free"] /\ about' = [h \in Handler |-> Nothing]
  /\ says' = [h \in Handler |-> "SENT"] /\ seen' = [h \in Handler |-> "SENT"]
  /\ todo' = [h \in Handler |-> {}] /\ spawned' = [h \in Handler |-> {}]
  /\ UNCHANGED <<fate, row, chat, books, granted, stored, reports>>

-----------------------------------------------------------------------------
Next ==
  \/ \E m \in Message : SenderStep(m) \/ NoAnswer(m) \/ Happen(m)
  \/ \E h \in Handler : HandlerStep(h) \/ \E m \in Message : Report(h, m)
  \/ RefundStep
  \/ Crash

Spec == Init /\ [][Next]_vars

(* What a process has begun it goes on with; the refund queue is worked    *)
(* off.  Nothing makes a message be sent, delivered or reported.           *)
FairSpec ==
  /\ Spec
  /\ \A m \in Message : WF_vars(SenderStep(m))
  /\ \A h \in Handler : WF_vars(HandlerStep(h))
  /\ WF_vars(RefundStep)

-----------------------------------------------------------------------------
(* "Only allow forward transitions": whatever the order of the reports and *)
(* however handlers overlap, the row of a contact never goes back, and the *)
(* chat shows a status that goes back only where a handler writes over what*)
(* another has written since it read.                                      *)
NeverBack ==
  [][/\ \A m \in Campaign : Rank[row[m].status] <= Rank[row'[m].status]
     /\ \A m \in Message :
          \/ chat[m].status = "none"
          \/ Rank[chat[m].status] <= Rank[chat'[m].status]
          \/ \E h \in Handler :
               about[h] = m /\ stage[h] = "write" /\ seen[h] # chat[m].status]_<<row, chat>>

(* "One refund for one charge", under whichever of its three names.        *)
PaidBackOnce == \A m \in Message : Cardinality(refunds[m]) <= 1

(* A refund that was queued is paid or put aside for manual retry, unless  *)
(* the process dies or the database refuses both.                          *)
RefundSettles ==
  \A m \in Campaign :
    m \in granted ~> refunds[m] # {} \/ m \in stored \/ faults \cap {"crash", "store"} # {}

(* A service message that failed is not paid for: its charge is refunded   *)
(* if it bears Gupshup's name when Gupshup reports, or Meta's afterwards.  *)
NamedIsRefunded ==
  \A m \in Service : \A h \in Handler :
    /\ stage[h] = "map" /\ about[h] = m /\ says[h] = "FAILED"
    /\ charge[m] = "wamid" \/ (charge[m] = "gs" /\ "charge" \in todo[h])
    ~> refunds[m] # {} \/ faults \cap {"crash", "refund"} # {}
==============================================================================
