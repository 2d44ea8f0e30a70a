-------------------------- MODULE MessageStatusProofs -------------------------
(***************************************************************************)
(* What is true of MessageStatus for all sets of messages and handlers,    *)
(* all bounds and all faults.                                              *)
(***************************************************************************)
EXTENDS MessageStatus, FiniteSetTheorems, TLAPS

(* A row or chat is untouched until its sender has written it.             *)
Senders ==
  /\ \A m \in Campaign :
       sender[m] \in {"new", "sending", "accepted", "error"} =>
         row[m].status = "QUEUED" /\ row[m].id = "none"
  /\ \A m \in Message : sender[m] # "over" => chat[m].status = "none" /\ chat[m].id = "none"

(* What a handler is about, and what it has found.                         *)
Handlers == \A h \in Handler :
  /\ stage[h] # "free" => about[h] \in Message
  /\ todo[h] # {} => stage[h] = "map" /\ todo[h] \subseteq Tables(about[h])
  /\ stage[h] \in {"row", "judge"} => about[h] \in Campaign
  /\ stage[h] = "row" => row[about[h]].id = "wamid"
  /\ stage[h] = "write" => chat[about[h]].id = "wamid"
  /\ stage[h] \in {"row", "write"} => Forward(seen[h], says[h])
  /\ stage[h] \in {"row", "judge", "chat", "write"} \/ spawned[h] # {} => says[h] \in Reported
  /\ stage[h] \notin {"write", "ended"} => spawned[h] = {}

Working == work = Idle \/ (work.item \in Campaign /\ work.attempt \in 1 .. 4)

(* TypeOK, in the parts that different actions disturb.                    *)
MessagesTyped ==
  /\ fate \in [Message -> Reported \cup {"UNSENT"}]
  /\ sender \in [Message -> {"new", "sending", "accepted", "error", "named", "over"}]
  /\ row \in [Campaign -> [status : Reported \cup {"QUEUED"}, id : Ids]]

ChatsTyped ==
  /\ chat \in [Message -> [status : Reported \cup {"none"}, id : Ids]]
  /\ \A m \in Message : chat[m].status = "none" <=> chat[m].id = "none"

RefundsTyped ==
  /\ charge \in [Service -> {"none", "svc", "gs", "wamid"}]
  /\ refunds \in [Message -> SUBSET {"svc", "gs", "wamid"}]
  /\ queue \in Seq(Campaign)
  /\ work \in [item : Campaign \cup {Nothing}, attempt : 0 .. 4]
  /\ granted \subseteq Campaign /\ stored \subseteq Campaign

ReportsTyped ==
  /\ stage \in [Handler -> {"free", "map", "row", "judge", "chat", "write", "ended"}]
  /\ about \in [Handler -> Message \cup {Nothing}]
  /\ says \in [Handler -> Reported \cup {"ENQUEUED"}]
  /\ todo \in [Handler -> SUBSET {"row", "chat", "charge"}]
  /\ seen \in [Handler -> Reported \cup {"QUEUED"}]
  /\ spawned \in [Handler -> SUBSET {"refund", "chat"}]
  /\ reports \in Nat /\ faults \subseteq Faults

Typed == MessagesTyped /\ ChatsTyped /\ RefundsTyped /\ ReportsTyped

Shape == Typed /\ Senders /\ Handlers /\ Working

LEMMA ShapeInit == Init => Shape
BY StatusAssumption
   DEF Init, Shape, Typed, MessagesTyped, ChatsTyped, RefundsTyped, ReportsTyped, Senders, Handlers, Working, Idle, Message, Reported, Ids

LEMMA ShapeStep == Shape /\ [Next]_vars => Shape'
<1> SUFFICES ASSUME Shape, [Next]_vars PROVE Shape'
    OBVIOUS
<1> USE DEF Shape, Typed, Message
<1>1. ASSUME NEW m \in Message, Send(m) PROVE Shape'
  <2>1. MessagesTyped'
        BY <1>1
           DEF Send, refunding, handling, SenderAt, MessagesTyped, ReportsTyped, Reported,
               Ids, Handlers
  <2>2. ChatsTyped'
        BY <1>1
           DEF Send, refunding, handling, SenderAt, ChatsTyped, ReportsTyped, Reported, Ids,
               Handlers
  <2>3. RefundsTyped'
        BY <1>1 DEF Send, refunding, handling, SenderAt, RefundsTyped, Handlers, Working, Tables
  <2>4. ReportsTyped'
        BY <1>1
           DEF Send, refunding, handling, SenderAt, ChatsTyped, ReportsTyped, Reported, Ids,
               Handlers, Tables
  <2>5. Senders'
        BY <1>1
           DEF Send, refunding, handling, SenderAt, MessagesTyped, ChatsTyped, Senders,
               Handlers
  <2>6. Handlers'
        BY <1>1
           DEF Send, refunding, handling, SenderAt, MessagesTyped, ChatsTyped, ReportsTyped,
               Senders, Handlers, Tables, Reported
  <2>7. Working'
        BY <1>1 DEF Send, refunding, handling, SenderAt, RefundsTyped, Working, Handlers
  <2> QED BY <2>1, <2>2, <2>3, <2>4, <2>5, <2>6, <2>7
<1>2. ASSUME NEW m \in Message, Answer(m) PROVE Shape'
  <2>1. MessagesTyped'
        BY <1>2
           DEF Answer, books, refunding, handling, SenderAt, MessagesTyped, ReportsTyped,
               Reported, Ids, Handlers
  <2>2. ChatsTyped'
        BY <1>2
           DEF Answer, books, refunding, handling, SenderAt, ChatsTyped, ReportsTyped,
               Reported, Ids, Handlers
  <2>3. RefundsTyped'
        BY <1>2
           DEF Answer, books, refunding, handling, SenderAt, RefundsTyped, Handlers,
               Working, Tables
  <2>4. ReportsTyped'
        BY <1>2
           DEF Answer, books, refunding, handling, SenderAt, ChatsTyped, ReportsTyped,
               Reported, Ids, Handlers, Tables
  <2>5. Senders'
        BY <1>2
           DEF Answer, books, refunding, handling, SenderAt, MessagesTyped, ChatsTyped,
               Senders, Handlers
  <2>6. Handlers'
        BY <1>2
           DEF Answer, books, refunding, handling, SenderAt, MessagesTyped, ChatsTyped,
               ReportsTyped, Senders, Handlers, Tables, Reported
  <2>7. Working'
        BY <1>2
           DEF Answer, books, refunding, handling, SenderAt, RefundsTyped, Working, Handlers
  <2> QED BY <2>1, <2>2, <2>3, <2>4, <2>5, <2>6, <2>7
<1>3. ASSUME NEW m \in Message, RefundUnsent(m) PROVE Shape'
  <2>1. MessagesTyped'
        BY <1>3
           DEF RefundUnsent, refunding, handling, SenderAt, RefundCharge, Owed, Fault,
               MessagesTyped, ReportsTyped, Reported, Ids, Handlers
  <2>2. ChatsTyped'
        BY <1>3
           DEF RefundUnsent, refunding, handling, SenderAt, RefundCharge, Owed, Fault,
               ChatsTyped, ReportsTyped, Reported, Ids, Handlers
  <2>3. RefundsTyped'
        BY <1>3
           DEF RefundUnsent, refunding, handling, SenderAt, RefundCharge, Owed, Fault,
               RefundsTyped, Handlers, Working, Tables
  <2>4. ReportsTyped'
        BY <1>3
           DEF RefundUnsent, refunding, handling, SenderAt, RefundCharge, Owed, Fault,
               ChatsTyped, ReportsTyped, Reported, Ids, Handlers, Tables
  <2>5. Senders'
        BY <1>3
           DEF RefundUnsent, refunding, handling, SenderAt, RefundCharge, Owed, Fault,
               MessagesTyped, ChatsTyped, Senders, Handlers
  <2>6. Handlers'
        BY <1>3
           DEF RefundUnsent, refunding, handling, SenderAt, RefundCharge, Owed, Fault,
               MessagesTyped, ChatsTyped, ReportsTyped, Senders, Handlers, Tables, Reported
  <2>7. Working'
        BY <1>3
           DEF RefundUnsent, refunding, handling, SenderAt, RefundCharge, Owed, Fault,
               RefundsTyped, Working, Handlers
  <2> QED BY <2>1, <2>2, <2>3, <2>4, <2>5, <2>6, <2>7
<1>4. ASSUME NEW m \in Message, Attach(m) PROVE Shape'
  <2>1. MessagesTyped'
        BY <1>4
           DEF Attach, refunding, handling, SenderAt, Given, Fault, MessagesTyped,
               ReportsTyped, Reported, Ids, Handlers
  <2>2. ChatsTyped'
        BY <1>4
           DEF Attach, refunding, handling, SenderAt, Given, Fault, ChatsTyped,
               ReportsTyped, Reported, Ids, Handlers
  <2>3. RefundsTyped'
        BY <1>4
           DEF Attach, refunding, handling, SenderAt, Given, Fault, RefundsTyped, Handlers,
               Working, Tables
  <2>4. ReportsTyped'
        BY <1>4
           DEF Attach, refunding, handling, SenderAt, Given, Fault, ChatsTyped,
               ReportsTyped, Reported, Ids, Handlers, Tables
  <2>5. Senders'
        BY <1>4
           DEF Attach, refunding, handling, SenderAt, Given, Fault, MessagesTyped,
               ChatsTyped, Senders, Handlers
  <2>6. Handlers'
        BY <1>4
           DEF Attach, refunding, handling, SenderAt, Given, Fault, MessagesTyped,
               ChatsTyped, ReportsTyped, Senders, Handlers, Tables, Reported
  <2>7. Working'
        BY <1>4
           DEF Attach, refunding, handling, SenderAt, Given, Fault, RefundsTyped, Working,
               Handlers
  <2> QED BY <2>1, <2>2, <2>3, <2>4, <2>5, <2>6, <2>7
<1>5. ASSUME NEW m \in Message, Flush(m) PROVE Shape'
  <2>1. MessagesTyped'
    <3>1. sender' \in [Message -> {"new", "sending", "accepted", "error", "named", "over"}]
          BY <1>5 DEF Flush, SenderAt, MessagesTyped
    <3>2. row' \in [Campaign -> [status : Reported \cup {"QUEUED"}, id : Ids]]
      <4>1. CASE row' = [row EXCEPT ![m] = [status |-> "SENT", id |-> Given(m)]]
            BY <4>1 DEF Given, MessagesTyped, Reported, Ids
      <4>2. CASE row' = [row EXCEPT ![m].status = "FAILED"]
            BY <4>2 DEF MessagesTyped, Reported
      <4> QED BY <1>5, <4>1, <4>2 DEF Flush
    <3> QED BY <1>5, <3>1, <3>2 DEF Flush, MessagesTyped
  <2>2. ChatsTyped'
        BY <1>5
           DEF Flush, books, refunding, handling, SenderAt, Given, ChatsTyped, ReportsTyped,
               Reported, Ids, Handlers
  <2>3. RefundsTyped'
        BY <1>5
           DEF Flush, books, refunding, handling, SenderAt, Given, RefundsTyped, Handlers,
               Working, Tables
  <2>4. ReportsTyped'
        BY <1>5
           DEF Flush, books, refunding, handling, SenderAt, Given, ChatsTyped, ReportsTyped,
               Reported, Ids, Handlers, Tables
  <2>5. Senders'
        BY <1>5
           DEF Flush, books, refunding, handling, SenderAt, Given, MessagesTyped,
               ChatsTyped, Senders, Handlers
  <2>6. Handlers'
    <3>1. m \in Campaign /\ \A k \in Handler : stage[k] = "row" => about[k] # m
          BY <1>5 DEF Flush, SenderAt, Senders, Handlers
    <3>2. \A k \in Campaign : k # m => row'[k] = row[k]
          BY <1>5 DEF Flush, MessagesTyped
    <3>3. UNCHANGED <<chat, handling>>
          BY <1>5 DEF Flush
    <3> QED BY <3>1, <3>2, <3>3 DEF handling, Handlers, Tables, Reported
  <2>7. Working'
        BY <1>5
           DEF Flush, books, refunding, handling, SenderAt, Given, RefundsTyped, Working,
               Handlers
  <2> QED BY <2>1, <2>2, <2>3, <2>4, <2>5, <2>6, <2>7
<1>6. ASSUME NEW m \in Message, SaveChat(m) PROVE Shape'
  <2>1. MessagesTyped'
        BY <1>6
           DEF SaveChat, books, refunding, handling, SenderAt, Given, Fault, MessagesTyped,
               ReportsTyped, Reported, Ids, Handlers
  <2>2. ChatsTyped'
        BY <1>6
           DEF SaveChat, books, refunding, handling, SenderAt, Given, Fault, ChatsTyped,
               ReportsTyped, Reported, Ids, Handlers
  <2>3. RefundsTyped'
        BY <1>6
           DEF SaveChat, books, refunding, handling, SenderAt, Given, Fault, RefundsTyped,
               Handlers, Working, Tables
  <2>4. ReportsTyped'
        BY <1>6
           DEF SaveChat, books, refunding, handling, SenderAt, Given, Fault, ChatsTyped,
               ReportsTyped, Reported, Ids, Handlers, Tables
  <2>5. Senders'
        BY <1>6
           DEF SaveChat, books, refunding, handling, SenderAt, Given, Fault, MessagesTyped,
               ChatsTyped, Senders, Handlers
  <2>6. Handlers'
        BY <1>6
           DEF SaveChat, books, refunding, handling, SenderAt, Given, Fault, MessagesTyped,
               ChatsTyped, ReportsTyped, Senders, Handlers, Tables, Reported
  <2>7. Working'
        BY <1>6
           DEF SaveChat, books, refunding, handling, SenderAt, Given, Fault, RefundsTyped,
               Working, Handlers
  <2> QED BY <2>1, <2>2, <2>3, <2>4, <2>5, <2>6, <2>7
<1>7. ASSUME NEW m \in Message, NoAnswer(m) PROVE Shape'
  <2>1. MessagesTyped'
        BY <1>7
           DEF NoAnswer, books, refunding, handling, SenderAt, MessagesTyped, ReportsTyped,
               Reported, Ids, Handlers
  <2>2. ChatsTyped'
        BY <1>7
           DEF NoAnswer, books, refunding, handling, SenderAt, ChatsTyped, ReportsTyped,
               Reported, Ids, Handlers
  <2>3. RefundsTyped'
        BY <1>7
           DEF NoAnswer, books, refunding, handling, SenderAt, RefundsTyped, Handlers,
               Working, Tables
  <2>4. ReportsTyped'
        BY <1>7
           DEF NoAnswer, books, refunding, handling, SenderAt, ChatsTyped, ReportsTyped,
               Reported, Ids, Handlers, Tables
  <2>5. Senders'
        BY <1>7
           DEF NoAnswer, books, refunding, handling, SenderAt, MessagesTyped, ChatsTyped,
               Senders, Handlers
  <2>6. Handlers'
        BY <1>7
           DEF NoAnswer, books, refunding, handling, SenderAt, MessagesTyped, ChatsTyped,
               ReportsTyped, Senders, Handlers, Tables, Reported
  <2>7. Working'
        BY <1>7
           DEF NoAnswer, books, refunding, handling, SenderAt, RefundsTyped, Working,
               Handlers
  <2> QED BY <2>1, <2>2, <2>3, <2>4, <2>5, <2>6, <2>7
<1>8. ASSUME NEW m \in Message, Happen(m) PROVE Shape'
  <2>1. MessagesTyped'
        BY <1>8
           DEF Happen, books, refunding, handling, MessagesTyped, ReportsTyped, Reported,
               Ids, Handlers
  <2>2. ChatsTyped'
        BY <1>8
           DEF Happen, books, refunding, handling, ChatsTyped, ReportsTyped, Reported, Ids,
               Handlers
  <2>3. RefundsTyped'
        BY <1>8 DEF Happen, books, refunding, handling, RefundsTyped, Handlers, Working, Tables
  <2>4. ReportsTyped'
        BY <1>8
           DEF Happen, books, refunding, handling, ChatsTyped, ReportsTyped, Reported, Ids,
               Handlers, Tables
  <2>5. Senders'
        BY <1>8
           DEF Happen, books, refunding, handling, MessagesTyped, ChatsTyped, Senders,
               Handlers
  <2>6. Handlers'
        BY <1>8
           DEF Happen, books, refunding, handling, MessagesTyped, ChatsTyped, ReportsTyped,
               Senders, Handlers, Tables, Reported
  <2>7. Working'
        BY <1>8 DEF Happen, books, refunding, handling, RefundsTyped, Working, Handlers
  <2> QED BY <2>1, <2>2, <2>3, <2>4, <2>5, <2>6, <2>7
<1>9. ASSUME NEW h \in Handler, NEW table \in todo[h], Rename(h, table) PROVE Shape'
  <2>1. MessagesTyped'
    <3>1. CASE table = "row"
      <4>1. about[h] \in Campaign
            BY <1>9, <3>1 DEF Handlers, Tables
      <4>2. row' = [row EXCEPT ![about[h]].id = Renamed(@)]
            BY <1>9, <3>1 DEF Rename
      <4> QED BY <1>9, <4>1, <4>2 DEF Rename, Renamed, MessagesTyped, Ids
    <3>2. CASE table # "row"
          BY <1>9, <3>2 DEF Rename, MessagesTyped
    <3> QED BY <3>1, <3>2
  <2>2. ChatsTyped'
        BY <1>9
           DEF Rename, refunding, Renamed, ChargeRenamed, ChatsTyped, ReportsTyped,
               Reported, Ids, Handlers
  <2>3. RefundsTyped'
        BY <1>9
           DEF Rename, refunding, Renamed, ChargeRenamed, RefundsTyped, Handlers, Working,
               Tables
  <2>4. ReportsTyped'
        BY <1>9
           DEF Rename, refunding, Renamed, ChargeRenamed, ChatsTyped, ReportsTyped,
               Reported, Ids, Handlers, Tables
  <2>5. Senders'
        BY <1>9
           DEF Rename, refunding, Renamed, ChargeRenamed, MessagesTyped, ChatsTyped,
               Senders, Handlers
  <2>6. Handlers'
        BY <1>9
           DEF Rename, refunding, Renamed, ChargeRenamed, MessagesTyped, ChatsTyped,
               ReportsTyped, Senders, Handlers, Tables, Reported
  <2>7. Working'
        BY <1>9 DEF Rename, refunding, Renamed, ChargeRenamed, RefundsTyped, Working, Handlers
  <2> QED BY <2>1, <2>2, <2>3, <2>4, <2>5, <2>6, <2>7
<1>10. ASSUME NEW h \in Handler, FindRow(h) PROVE Shape'
  <2>1. MessagesTyped'
        BY <1>10
           DEF FindRow, books, refunding, At, MessagesTyped, ReportsTyped, Reported, Ids,
               Handlers
  <2>2. ChatsTyped'
        BY <1>10
           DEF FindRow, books, refunding, At, ChatsTyped, ReportsTyped, Reported, Ids,
               Handlers
  <2>3. RefundsTyped'
        BY <1>10 DEF FindRow, books, refunding, At, RefundsTyped, Handlers, Working, Tables
  <2>4. ReportsTyped'
    <3>1. seen' \in [Handler -> Reported \cup {"QUEUED"}]
          BY <1>10 DEF FindRow, MessagesTyped, ReportsTyped
    <3>2. stage' \in [Handler -> {"free", "map", "row", "judge", "chat", "write", "ended"}]
          BY <1>10 DEF FindRow, At, ReportsTyped
    <3> QED BY <1>10, <3>1, <3>2 DEF FindRow, ReportsTyped
  <2>5. Senders'
        BY <1>10 DEF FindRow, books, refunding, At, MessagesTyped, ChatsTyped, Senders, Handlers
  <2>6. Handlers'
        BY <1>10
           DEF FindRow, books, refunding, At, MessagesTyped, ChatsTyped, ReportsTyped,
               Senders, Handlers, Tables, Reported
  <2>7. Working'
        BY <1>10 DEF FindRow, books, refunding, At, RefundsTyped, Working, Handlers
  <2> QED BY <2>1, <2>2, <2>3, <2>4, <2>5, <2>6, <2>7
<1>11. ASSUME NEW h \in Handler, UpdateRow(h) PROVE Shape'
  <2>1. MessagesTyped'
        BY <1>11
           DEF UpdateRow, books, refunding, At, Unchanged, MessagesTyped, ReportsTyped,
               Reported, Ids, Handlers
  <2>2. ChatsTyped'
        BY <1>11
           DEF UpdateRow, books, refunding, At, Unchanged, ChatsTyped, ReportsTyped,
               Reported, Ids, Handlers
  <2>3. RefundsTyped'
        BY <1>11
           DEF UpdateRow, books, refunding, At, Unchanged, RefundsTyped, Handlers, Working,
               Tables
  <2>4. ReportsTyped'
        BY <1>11
           DEF UpdateRow, books, refunding, At, Unchanged, ChatsTyped, ReportsTyped,
               Reported, Ids, Handlers, Tables
  <2>5. Senders'
        BY <1>11
           DEF UpdateRow, books, refunding, At, Unchanged, MessagesTyped, ChatsTyped,
               Senders, Handlers
  <2>6. Handlers'
        BY <1>11
           DEF UpdateRow, books, refunding, At, Unchanged, MessagesTyped, ChatsTyped,
               ReportsTyped, Senders, Handlers, Tables, Reported
  <2>7. Working'
        BY <1>11 DEF UpdateRow, books, refunding, At, Unchanged, RefundsTyped, Working, Handlers
  <2> QED BY <2>1, <2>2, <2>3, <2>4, <2>5, <2>6, <2>7
<1>12. ASSUME NEW h \in Handler, Judge(h) PROVE Shape'
  <2>1. MessagesTyped'
        BY <1>12 DEF Judge, books, At, MessagesTyped, ReportsTyped, Reported, Ids, Handlers
  <2>2. ChatsTyped'
        BY <1>12 DEF Judge, books, At, ChatsTyped, ReportsTyped, Reported, Ids, Handlers
  <2>3. RefundsTyped'
    <3>1. about[h] \in Campaign
          BY <1>12 DEF Judge, At, Handlers
    <3> QED BY <1>12, <3>1 DEF Judge, books, RefundsTyped
  <2>4. ReportsTyped'
        BY <1>12 DEF Judge, books, At, ChatsTyped, ReportsTyped, Reported, Ids, Handlers, Tables
  <2>5. Senders'
        BY <1>12 DEF Judge, books, At, MessagesTyped, ChatsTyped, Senders, Handlers
  <2>6. Handlers'
        BY <1>12
           DEF Judge, books, At, MessagesTyped, ChatsTyped, ReportsTyped, Senders, Handlers,
               Tables, Reported
  <2>7. Working'
        BY <1>12 DEF Judge, books, At, RefundsTyped, Working, Handlers
  <2> QED BY <2>1, <2>2, <2>3, <2>4, <2>5, <2>6, <2>7
<1>13. ASSUME NEW h \in Handler, FindChat(h) PROVE Shape'
  <2>1. MessagesTyped'
        BY <1>13
           DEF FindChat, books, refunding, Found, At, MessagesTyped, ReportsTyped, Reported,
               Ids, Handlers
  <2>2. ChatsTyped'
        BY <1>13
           DEF FindChat, books, refunding, Found, At, ChatsTyped, ReportsTyped, Reported,
               Ids, Handlers
  <2>3. RefundsTyped'
        BY <1>13
           DEF FindChat, books, refunding, Found, At, RefundsTyped, Handlers, Working,
               Tables
  <2>4. ReportsTyped'
        BY <1>13
           DEF FindChat, books, refunding, Found, At, ChatsTyped, ReportsTyped, Reported,
               Ids, Handlers, Tables
  <2>5. Senders'
        BY <1>13
           DEF FindChat, books, refunding, Found, At, MessagesTyped, ChatsTyped, Senders,
               Handlers
  <2>6. Handlers'
        BY <1>13
           DEF FindChat, books, refunding, Found, At, MessagesTyped, ChatsTyped,
               ReportsTyped, Senders, Handlers, Tables, Reported
  <2>7. Working'
        BY <1>13 DEF FindChat, books, refunding, Found, At, RefundsTyped, Working, Handlers
  <2> QED BY <2>1, <2>2, <2>3, <2>4, <2>5, <2>6, <2>7
<1>14. ASSUME NEW h \in Handler, FindChatLater(h) PROVE Shape'
  <2>1. MessagesTyped'
        BY <1>14
           DEF FindChatLater, books, refunding, Found, At, MessagesTyped, ReportsTyped,
               Reported, Ids, Handlers
  <2>2. ChatsTyped'
        BY <1>14
           DEF FindChatLater, books, refunding, Found, At, ChatsTyped, ReportsTyped,
               Reported, Ids, Handlers
  <2>3. RefundsTyped'
        BY <1>14
           DEF FindChatLater, books, refunding, Found, At, RefundsTyped, Handlers, Working,
               Tables
  <2>4. ReportsTyped'
        BY <1>14
           DEF FindChatLater, books, refunding, Found, At, ChatsTyped, ReportsTyped,
               Reported, Ids, Handlers, Tables
  <2>5. Senders'
        BY <1>14
           DEF FindChatLater, books, refunding, Found, At, MessagesTyped, ChatsTyped,
               Senders, Handlers
  <2>6. Handlers'
        BY <1>14
           DEF FindChatLater, books, refunding, Found, At, MessagesTyped, ChatsTyped,
               ReportsTyped, Senders, Handlers, Tables, Reported
  <2>7. Working'
        BY <1>14 DEF FindChatLater, books, refunding, Found, At, RefundsTyped, Working, Handlers
  <2> QED BY <2>1, <2>2, <2>3, <2>4, <2>5, <2>6, <2>7
<1>15. ASSUME NEW h \in Handler, WriteChat(h) PROVE Shape'
  <2>1. MessagesTyped'
        BY <1>15
           DEF WriteChat, books, refunding, At, MessagesTyped, ReportsTyped, Reported, Ids,
               Handlers
  <2>2. ChatsTyped'
        BY <1>15
           DEF WriteChat, books, refunding, At, ChatsTyped, ReportsTyped, Reported, Ids,
               Handlers
  <2>3. RefundsTyped'
        BY <1>15 DEF WriteChat, books, refunding, At, RefundsTyped, Handlers, Working, Tables
  <2>4. ReportsTyped'
        BY <1>15
           DEF WriteChat, books, refunding, At, ChatsTyped, ReportsTyped, Reported, Ids,
               Handlers, Tables
  <2>5. Senders'
        BY <1>15
           DEF WriteChat, books, refunding, At, MessagesTyped, ChatsTyped, Senders, Handlers
  <2>6. Handlers'
        BY <1>15
           DEF WriteChat, books, refunding, At, MessagesTyped, ChatsTyped, ReportsTyped,
               Senders, Handlers, Tables, Reported
  <2>7. Working'
        BY <1>15 DEF WriteChat, books, refunding, At, RefundsTyped, Working, Handlers
  <2> QED BY <2>1, <2>2, <2>3, <2>4, <2>5, <2>6, <2>7
<1>16. ASSUME NEW h \in Handler, RefundUndelivered(h) PROVE Shape'
  <2>1. MessagesTyped'
        BY <1>16
           DEF RefundUndelivered, refunding, RefundCharge, Owed, Fault, MessagesTyped,
               ReportsTyped, Reported, Ids, Handlers
  <2>2. ChatsTyped'
        BY <1>16
           DEF RefundUndelivered, refunding, RefundCharge, Owed, Fault, ChatsTyped,
               ReportsTyped, Reported, Ids, Handlers
  <2>3. RefundsTyped'
        BY <1>16
           DEF RefundUndelivered, refunding, RefundCharge, Owed, Fault, RefundsTyped,
               Handlers, Working, Tables
  <2>4. ReportsTyped'
        BY <1>16
           DEF RefundUndelivered, refunding, RefundCharge, Owed, Fault, ChatsTyped,
               ReportsTyped, Reported, Ids, Handlers, Tables
  <2>5. Senders'
        BY <1>16
           DEF RefundUndelivered, refunding, RefundCharge, Owed, Fault, MessagesTyped,
               ChatsTyped, Senders, Handlers
  <2>6. Handlers'
        BY <1>16
           DEF RefundUndelivered, refunding, RefundCharge, Owed, Fault, MessagesTyped,
               ChatsTyped, ReportsTyped, Senders, Handlers, Tables, Reported
  <2>7. Working'
        BY <1>16
           DEF RefundUndelivered, refunding, RefundCharge, Owed, Fault, RefundsTyped,
               Working, Handlers
  <2> QED BY <2>1, <2>2, <2>3, <2>4, <2>5, <2>6, <2>7
<1>17. ASSUME NEW h \in Handler, End(h) PROVE Shape'
  <2>1. MessagesTyped'
        BY <1>17
           DEF End, books, refunding, At, MessagesTyped, ReportsTyped, Reported, Ids,
               Handlers
  <2>2. ChatsTyped'
        BY <1>17
           DEF End, books, refunding, At, ChatsTyped, ReportsTyped, Reported, Ids, Handlers
  <2>3. RefundsTyped'
        BY <1>17 DEF End, books, refunding, At, RefundsTyped, Handlers, Working, Tables
  <2>4. ReportsTyped'
        BY <1>17
           DEF End, books, refunding, At, ChatsTyped, ReportsTyped, Reported, Ids, Handlers,
               Tables
  <2>5. Senders'
        BY <1>17 DEF End, books, refunding, At, MessagesTyped, ChatsTyped, Senders, Handlers
  <2>6. Handlers'
        BY <1>17
           DEF End, books, refunding, At, MessagesTyped, ChatsTyped, ReportsTyped, Senders,
               Handlers, Tables, Reported
  <2>7. Working'
        BY <1>17 DEF End, books, refunding, At, RefundsTyped, Working, Handlers
  <2> QED BY <2>1, <2>2, <2>3, <2>4, <2>5, <2>6, <2>7
<1>18. ASSUME NEW h \in Handler, NEW m \in Message, Report(h, m) PROVE Shape'
  <2>1. MessagesTyped'
        BY <1>18
           DEF Report, books, refunding, At, Happened, Given, MessagesTyped, ReportsTyped,
               Reported, Ids, Handlers
  <2>2. ChatsTyped'
        BY <1>18
           DEF Report, books, refunding, At, Happened, Given, ChatsTyped, ReportsTyped,
               Reported, Ids, Handlers
  <2>3. RefundsTyped'
        BY <1>18
           DEF Report, books, refunding, At, Happened, Given, RefundsTyped, Handlers,
               Working, Tables
  <2>4. ReportsTyped'
    <3>1. says' \in [Handler -> Reported \cup {"ENQUEUED"}]
          BY <1>18 DEF Report, Happened, MessagesTyped, ReportsTyped, Reported
    <3>2. todo' \in [Handler -> SUBSET {"row", "chat", "charge"}]
          BY <1>18 DEF Report, ReportsTyped, Tables
    <3>3. /\ stage' = [stage EXCEPT ![h] = "map"] /\ about' = [about EXCEPT ![h] = m]
          /\ reports' = reports + 1 /\ UNCHANGED <<seen, spawned, faults>>
          BY <1>18 DEF Report, At
    <3> QED BY <3>1, <3>2, <3>3 DEF ReportsTyped
  <2>5. Senders'
        BY <1>18
           DEF Report, books, refunding, At, Happened, Given, MessagesTyped, ChatsTyped,
               Senders, Handlers
  <2>6. Handlers'
        BY <1>18
           DEF Report, books, refunding, At, Happened, Given, MessagesTyped, ChatsTyped,
               ReportsTyped, Senders, Handlers, Tables, Reported
  <2>7. Working'
        BY <1>18
           DEF Report, books, refunding, At, Happened, Given, RefundsTyped, Working,
               Handlers
  <2> QED BY <2>1, <2>2, <2>3, <2>4, <2>5, <2>6, <2>7
<1>19. ASSUME TakeRefund PROVE Shape'
  <2>1. MessagesTyped'
        BY <1>19
           DEF TakeRefund, books, handling, Idle, MessagesTyped, ReportsTyped, Reported,
               Ids, Handlers
  <2>2. ChatsTyped'
        BY <1>19
           DEF TakeRefund, books, handling, Idle, ChatsTyped, ReportsTyped, Reported, Ids,
               Handlers
  <2>3. RefundsTyped'
        BY <1>19 DEF TakeRefund, books, handling, Idle, RefundsTyped, Handlers, Working, Tables
  <2>4. ReportsTyped'
        BY <1>19
           DEF TakeRefund, books, handling, Idle, ChatsTyped, ReportsTyped, Reported, Ids,
               Handlers, Tables
  <2>5. Senders'
        BY <1>19
           DEF TakeRefund, books, handling, Idle, MessagesTyped, ChatsTyped, Senders,
               Handlers
  <2>6. Handlers'
        BY <1>19
           DEF TakeRefund, books, handling, Idle, MessagesTyped, ChatsTyped, ReportsTyped,
               Senders, Handlers, Tables, Reported
  <2>7. Working'
        BY <1>19 DEF TakeRefund, books, handling, Idle, RefundsTyped, Working, Handlers
  <2> QED BY <2>1, <2>2, <2>3, <2>4, <2>5, <2>6, <2>7
<1>20. ASSUME PayRefund PROVE Shape'
  <2>1. MessagesTyped'
        BY <1>20
           DEF PayRefund, handling, RefundMessage, Idle, MessagesTyped, ReportsTyped,
               Reported, Ids, Handlers
  <2>2. ChatsTyped'
        BY <1>20
           DEF PayRefund, handling, RefundMessage, Idle, ChatsTyped, ReportsTyped, Reported,
               Ids, Handlers
  <2>3. RefundsTyped'
        BY <1>20
           DEF PayRefund, handling, RefundMessage, Idle, RefundsTyped, Handlers, Working,
               Tables
  <2>4. ReportsTyped'
        BY <1>20
           DEF PayRefund, handling, RefundMessage, Idle, ChatsTyped, ReportsTyped, Reported,
               Ids, Handlers, Tables
  <2>5. Senders'
        BY <1>20
           DEF PayRefund, handling, RefundMessage, Idle, MessagesTyped, ChatsTyped, Senders,
               Handlers
  <2>6. Handlers'
        BY <1>20
           DEF PayRefund, handling, RefundMessage, Idle, MessagesTyped, ChatsTyped,
               ReportsTyped, Senders, Handlers, Tables, Reported
  <2>7. Working'
        BY <1>20 DEF PayRefund, handling, RefundMessage, Idle, RefundsTyped, Working, Handlers
  <2> QED BY <2>1, <2>2, <2>3, <2>4, <2>5, <2>6, <2>7
<1>21. ASSUME RefundFails PROVE Shape'
  <2>1. MessagesTyped'
        BY <1>21
           DEF RefundFails, handling, RefundMessage, Idle, NextAttempt, Fault,
               MessagesTyped, ReportsTyped, Reported, Ids, Handlers
  <2>2. ChatsTyped'
        BY <1>21
           DEF RefundFails, handling, RefundMessage, Idle, NextAttempt, Fault, ChatsTyped,
               ReportsTyped, Reported, Ids, Handlers
  <2>3. RefundsTyped'
        BY <1>21
           DEF RefundFails, handling, RefundMessage, Idle, NextAttempt, Fault, RefundsTyped,
               Handlers, Working, Tables
  <2>4. ReportsTyped'
        BY <1>21
           DEF RefundFails, handling, RefundMessage, Idle, NextAttempt, Fault, ChatsTyped,
               ReportsTyped, Reported, Ids, Handlers, Tables
  <2>5. Senders'
        BY <1>21
           DEF RefundFails, handling, RefundMessage, Idle, NextAttempt, Fault,
               MessagesTyped, ChatsTyped, Senders, Handlers
  <2>6. Handlers'
        BY <1>21
           DEF RefundFails, handling, RefundMessage, Idle, NextAttempt, Fault,
               MessagesTyped, ChatsTyped, ReportsTyped, Senders, Handlers, Tables, Reported
  <2>7. Working'
        BY <1>21
           DEF RefundFails, handling, RefundMessage, Idle, NextAttempt, Fault, RefundsTyped,
               Working, Handlers
  <2> QED BY <2>1, <2>2, <2>3, <2>4, <2>5, <2>6, <2>7
<1>22. ASSUME StoreRefund PROVE Shape'
  <2>1. MessagesTyped'
        BY <1>22
           DEF StoreRefund, books, handling, StoredAfterwards, Idle, Fault, MessagesTyped,
               ReportsTyped, Reported, Ids, Handlers
  <2>2. ChatsTyped'
        BY <1>22
           DEF StoreRefund, books, handling, StoredAfterwards, Idle, Fault, ChatsTyped,
               ReportsTyped, Reported, Ids, Handlers
  <2>3. RefundsTyped'
        BY <1>22
           DEF StoreRefund, books, handling, StoredAfterwards, Idle, Fault, RefundsTyped,
               Handlers, Working, Tables
  <2>4. ReportsTyped'
        BY <1>22 DEF StoreRefund, handling, Fault, ReportsTyped
  <2>5. Senders'
        BY <1>22
           DEF StoreRefund, books, handling, StoredAfterwards, Idle, Fault, MessagesTyped,
               ChatsTyped, Senders, Handlers
  <2>6. Handlers'
        BY <1>22
           DEF StoreRefund, books, handling, StoredAfterwards, Idle, Fault, MessagesTyped,
               ChatsTyped, ReportsTyped, Senders, Handlers, Tables, Reported
  <2>7. Working'
        BY <1>22
           DEF StoreRefund, books, handling, StoredAfterwards, Idle, Fault, RefundsTyped,
               Working, Handlers
  <2> QED BY <2>1, <2>2, <2>3, <2>4, <2>5, <2>6, <2>7
<1>23. ASSUME Crash PROVE Shape'
  <2>1. MessagesTyped'
        BY <1>23
           DEF Crash, books, Fault, Idle, MessagesTyped, ReportsTyped, Reported, Ids,
               Handlers
  <2>2. ChatsTyped'
        BY <1>23
           DEF Crash, books, Fault, Idle, ChatsTyped, ReportsTyped, Reported, Ids, Handlers
  <2>3. RefundsTyped'
        BY <1>23 DEF Crash, books, Fault, Idle, RefundsTyped, Handlers, Working, Tables
  <2>4. ReportsTyped'
        BY <1>23
           DEF Crash, books, Fault, Idle, ChatsTyped, ReportsTyped, Reported, Ids, Handlers,
               Tables
  <2>5. Senders'
        BY <1>23 DEF Crash, books, Fault, Idle, MessagesTyped, ChatsTyped, Senders, Handlers
  <2>6. Handlers'
        BY <1>23
           DEF Crash, books, Fault, Idle, MessagesTyped, ChatsTyped, ReportsTyped, Senders,
               Handlers, Tables, Reported
  <2>7. Working'
        BY <1>23 DEF Crash, books, Fault, Idle, RefundsTyped, Working, Handlers
  <2> QED BY <2>1, <2>2, <2>3, <2>4, <2>5, <2>6, <2>7
<1>24. CASE UNCHANGED vars
  BY <1>24
     DEF vars, books, refunding, handling, MessagesTyped, ReportsTyped, Reported, Ids,
         Handlers, ChatsTyped, RefundsTyped, Working, Tables, Senders
<1> QED
        BY <1>1, <1>2, <1>3, <1>4, <1>5, <1>6, <1>7, <1>8, <1>9, <1>10, <1>11, <1>12, <1>13,
       <1>14, <1>15, <1>16, <1>17, <1>18, <1>19, <1>20, <1>21, <1>22, <1>23, <1>24
       DEF Next, SenderStep, HandlerStep, RefundStep

(* Every variable keeps its type, whatever is reported when (TypeOK).      *)
THEOREM TypeCorrect == Spec => []TypeOK
<1>1. Shape => TypeOK
      BY DEF Shape, Typed, MessagesTyped, ChatsTyped, RefundsTyped, ReportsTyped, TypeOK
<1> QED BY <1>1, ShapeInit, ShapeStep, PTL DEF Spec

-----------------------------------------------------------------------------
(* A charge is refunded under the name it bears then; that of a message    *)
(* that was not sent keeps its first name, the other has its last.         *)
OneName ==
  /\ \A m \in Campaign : refunds[m] \subseteq {"wamid"}
  /\ \A m \in Service :
       /\ sender[m] = "new" => charge[m] = "none"
       /\ \/ refunds[m] = {}
          \/ refunds[m] = {"svc"} /\ charge[m] = "svc" /\ sender[m] = "over"
          \/ refunds[m] = {"wamid"} /\ charge[m] = "wamid"

LEMMA OneNameStep == Shape /\ OneName /\ [Next]_vars => OneName'
<1> SUFFICES ASSUME Shape, OneName, [Next]_vars PROVE OneName'
    OBVIOUS
<1> USE DEF Shape, Typed, Message, OneName
<1>1. ASSUME NEW m \in Message, Send(m) PROVE OneName'
  BY <1>1
     DEF Send, refunding, handling, SenderAt, MessagesTyped, RefundsTyped, Handlers, Working
<1>2. ASSUME NEW m \in Message, Answer(m) PROVE OneName'
  BY <1>2
     DEF Answer, books, refunding, handling, SenderAt, MessagesTyped, RefundsTyped,
         Handlers, Working
<1>3. ASSUME NEW m \in Message, RefundUnsent(m) PROVE OneName'
  BY <1>3, StatusAssumption
     DEF RefundUnsent, refunding, handling, SenderAt, RefundCharge, Owed, Fault,
         MessagesTyped, RefundsTyped, Handlers, Working
<1>4. ASSUME NEW m \in Message, Attach(m) PROVE OneName'
  BY <1>4
     DEF Attach, refunding, handling, SenderAt, Given, Fault, MessagesTyped, RefundsTyped,
         Handlers, Working
<1>5. ASSUME NEW m \in Message, Flush(m) PROVE OneName'
  BY <1>5
     DEF Flush, books, refunding, handling, SenderAt, Given, MessagesTyped, RefundsTyped,
         Handlers, Working
<1>6. ASSUME NEW m \in Message, SaveChat(m) PROVE OneName'
  BY <1>6
     DEF SaveChat, books, refunding, handling, SenderAt, Given, Fault, MessagesTyped,
         RefundsTyped, Handlers, Working
<1>7. ASSUME NEW m \in Message, NoAnswer(m) PROVE OneName'
  BY <1>7
     DEF NoAnswer, books, refunding, handling, SenderAt, MessagesTyped, RefundsTyped,
         Handlers, Working
<1>8. ASSUME NEW m \in Message, Happen(m) PROVE OneName'
  BY <1>8 DEF Happen, books, refunding, handling, MessagesTyped, RefundsTyped, Handlers, Working
<1>9. ASSUME NEW h \in Handler, NEW table \in todo[h], Rename(h, table) PROVE OneName'
  BY <1>9
     DEF Rename, refunding, Renamed, ChargeRenamed, MessagesTyped, RefundsTyped, Handlers,
         Working
<1>10. ASSUME NEW h \in Handler, FindRow(h) PROVE OneName'
  BY <1>10 DEF FindRow, books, refunding, At, MessagesTyped, RefundsTyped, Handlers, Working
<1>11. ASSUME NEW h \in Handler, UpdateRow(h) PROVE OneName'
  BY <1>11
     DEF UpdateRow, books, refunding, At, Unchanged, MessagesTyped, RefundsTyped, Handlers,
         Working
<1>12. ASSUME NEW h \in Handler, Judge(h) PROVE OneName'
  BY <1>12 DEF Judge, books, At, MessagesTyped, RefundsTyped, Handlers, Working
<1>13. ASSUME NEW h \in Handler, FindChat(h) PROVE OneName'
  BY <1>13
     DEF FindChat, books, refunding, Found, At, MessagesTyped, RefundsTyped, Handlers,
         Working
<1>14. ASSUME NEW h \in Handler, FindChatLater(h) PROVE OneName'
  BY <1>14
     DEF FindChatLater, books, refunding, Found, At, MessagesTyped, RefundsTyped, Handlers,
         Working
<1>15. ASSUME NEW h \in Handler, WriteChat(h) PROVE OneName'
  BY <1>15 DEF WriteChat, books, refunding, At, MessagesTyped, RefundsTyped, Handlers, Working
<1>16. ASSUME NEW h \in Handler, RefundUndelivered(h) PROVE OneName'
  BY <1>16
     DEF RefundUndelivered, refunding, RefundCharge, Owed, Fault, MessagesTyped,
         RefundsTyped, Handlers, Working
<1>17. ASSUME NEW h \in Handler, End(h) PROVE OneName'
  BY <1>17 DEF End, books, refunding, At, MessagesTyped, RefundsTyped, Handlers, Working
<1>18. ASSUME NEW h \in Handler, NEW m \in Message, Report(h, m) PROVE OneName'
  BY <1>18
     DEF Report, books, refunding, At, Happened, Given, MessagesTyped, RefundsTyped,
         Handlers, Working
<1>19. ASSUME TakeRefund PROVE OneName'
  BY <1>19 DEF TakeRefund, books, handling, Idle, MessagesTyped, RefundsTyped, Handlers, Working
<1>20. ASSUME PayRefund PROVE OneName'
  <2>1. work.item \in Campaign
        BY <1>20 DEF PayRefund, Working
  <2>2. refunds' = refunds \/ refunds' = [refunds EXCEPT ![work.item] = refunds[work.item] \cup {"wamid"}]
        BY <1>20 DEF PayRefund, RefundMessage
  <2>3. sender' = sender /\ charge' = charge
        BY <1>20 DEF PayRefund
  <2> QED BY <2>1, <2>2, <2>3, StatusAssumption DEF RefundsTyped
<1>21. ASSUME RefundFails PROVE OneName'
  <2>1. work.item \in Campaign
        BY <1>21 DEF RefundFails, Working
  <2>2. refunds' = refunds \/ refunds' = [refunds EXCEPT ![work.item] = refunds[work.item] \cup {"wamid"}]
        BY <1>21 DEF RefundFails, RefundMessage
  <2>3. sender' = sender /\ charge' = charge
        BY <1>21 DEF RefundFails
  <2> QED BY <2>1, <2>2, <2>3, StatusAssumption DEF RefundsTyped
<1>22. ASSUME StoreRefund PROVE OneName'
  BY <1>22
     DEF StoreRefund, books, handling, StoredAfterwards, Idle, Fault, MessagesTyped,
         RefundsTyped, Handlers, Working
<1>23. ASSUME Crash PROVE OneName'
  BY <1>23 DEF Crash, books, Fault, Idle, MessagesTyped, RefundsTyped, Handlers, Working
<1>24. CASE UNCHANGED vars
  BY <1>24 DEF vars, books, refunding, handling, MessagesTyped, RefundsTyped, Handlers, Working
<1> QED
        BY <1>1, <1>2, <1>3, <1>4, <1>5, <1>6, <1>7, <1>8, <1>9, <1>10, <1>11, <1>12, <1>13,
       <1>14, <1>15, <1>16, <1>17, <1>18, <1>19, <1>20, <1>21, <1>22, <1>23, <1>24
       DEF Next, SenderStep, HandlerStep, RefundStep

(* A charge is refunded once, though senders and reports look for it under *)
(* three names (PaidBackOnce).                                             *)
THEOREM PaidBackAtMostOnce == Spec => []PaidBackOnce
<1>1. Init => OneName
      BY DEF Init, OneName, Message
<1>2. OneName => PaidBackOnce
  <2> SUFFICES ASSUME OneName, NEW m \in Message PROVE Cardinality(refunds[m]) <= 1
      BY DEF PaidBackOnce
  <2>1. refunds[m] = {} \/ \E x : refunds[m] = {x}
        BY DEF OneName, Message
  <2> QED BY <2>1, FS_EmptySet, FS_Singleton
<1> QED BY <1>1, <1>2, ShapeInit, ShapeStep, OneNameStep, PTL DEF Spec

-----------------------------------------------------------------------------
(* No step takes a row back, and none a chat but a handler whose reading of*)
(* it is out of date.                                                      *)
RowOnward == \A m \in Campaign : Rank[row[m].status] <= Rank[row'[m].status]

ChatOnward == \A m \in Message :
  \/ chat[m].status = "none"
  \/ Rank[chat[m].status] <= Rank[chat'[m].status]
  \/ \E h \in Handler : about[h] = m /\ stage[h] = "write" /\ seen[h] # chat[m].status

LEMMA RankType == \A s \in Reported \cup {"QUEUED"} : Rank[s] \in 0 .. 4
BY DEF Rank, Reported

LEMMA ForwardRank ==
  \A old, new \in Reported \cup {"QUEUED"} : Forward(old, new) => Rank[old] <= Rank[new]
BY DEF Forward, Rank, Reported

LEMMA OnwardStep == Shape /\ [Next]_vars => RowOnward /\ ChatOnward
<1> SUFFICES ASSUME Shape, [Next]_vars PROVE RowOnward /\ ChatOnward
    OBVIOUS
<1> USE DEF Shape, Typed, Message
<1>0. /\ (\A m \in Campaign : row[m].status = row'[m].status) => RowOnward
      /\ (\A m \in Message : chat[m].status = chat'[m].status) => ChatOnward
  <2>1. \A m \in Campaign : row[m].status \in Reported \cup {"QUEUED"}
        BY DEF MessagesTyped
  <2>2. \A m \in Message : chat[m].status \in Reported \cup {"none"}
        BY DEF ChatsTyped
  <2> QED BY <2>1, <2>2, RankType DEF RowOnward, ChatOnward
<1>1. ASSUME NEW m \in Message, Send(m) PROVE RowOnward /\ ChatOnward
  <2>1. \A k \in Campaign : row[k].status = row'[k].status
        BY <1>1 DEF Send
  <2>2. \A k \in Message : chat[k].status = chat'[k].status
        BY <1>1 DEF Send
  <2> QED BY <1>0, <2>1, <2>2
<1>2. ASSUME NEW m \in Message, Answer(m) PROVE RowOnward /\ ChatOnward
  <2>1. \A k \in Campaign : row[k].status = row'[k].status
        BY <1>2 DEF Answer
  <2>2. \A k \in Message : chat[k].status = chat'[k].status
        BY <1>2 DEF Answer
  <2> QED BY <1>0, <2>1, <2>2
<1>3. ASSUME NEW m \in Message, RefundUnsent(m) PROVE RowOnward /\ ChatOnward
  <2>1. \A k \in Campaign : row[k].status = row'[k].status
        BY <1>3 DEF RefundUnsent
  <2>2. \A k \in Message : chat[k].status = chat'[k].status
        BY <1>3 DEF RefundUnsent
  <2> QED BY <1>0, <2>1, <2>2
<1>4. ASSUME NEW m \in Message, Attach(m) PROVE RowOnward /\ ChatOnward
  <2>1. \A k \in Campaign : row[k].status = row'[k].status
        BY <1>4 DEF Attach
  <2>2. \A k \in Message : chat[k].status = chat'[k].status
        BY <1>4 DEF Attach
  <2> QED BY <1>0, <2>1, <2>2
<1>5. ASSUME NEW m \in Message, Flush(m) PROVE RowOnward /\ ChatOnward
  <2>1. \A k \in Message : chat[k].status = chat'[k].status
        BY <1>5 DEF Flush
  <2>2. ASSUME NEW k \in Campaign PROVE Rank[row[k].status] <= Rank[row'[k].status]
    <3>1. \/ row[k].status = row'[k].status
          \/ row[k].status = "QUEUED" /\ row'[k].status \in {"SENT", "FAILED"}
          BY <1>5 DEF Flush, SenderAt, Senders, MessagesTyped
    <3>2. row[k].status \in Reported \cup {"QUEUED"}
          BY DEF MessagesTyped
    <3> QED BY <3>1, <3>2, RankType DEF Rank, Reported
  <2> QED BY <1>0, <2>1, <2>2 DEF RowOnward
<1>6. ASSUME NEW m \in Message, SaveChat(m) PROVE RowOnward /\ ChatOnward
  <2>1. \A k \in Campaign : row[k].status = row'[k].status
        BY <1>6 DEF SaveChat
  <2>2. \A k \in Message : chat[k].status = "none" \/ chat'[k].status = chat[k].status
        BY <1>6 DEF SaveChat, SenderAt, Senders, ChatsTyped
  <2>3. \A k \in Message : chat[k].status \in Reported \cup {"none"}
        BY DEF ChatsTyped
  <2> QED BY <1>0, <2>1, <2>2, <2>3, RankType DEF ChatOnward
<1>7. ASSUME NEW m \in Message, NoAnswer(m) PROVE RowOnward /\ ChatOnward
  <2>1. \A k \in Campaign : row[k].status = row'[k].status
        BY <1>7 DEF NoAnswer
  <2>2. \A k \in Message : chat[k].status = chat'[k].status
        BY <1>7 DEF NoAnswer
  <2> QED BY <1>0, <2>1, <2>2
<1>8. ASSUME NEW m \in Message, Happen(m) PROVE RowOnward /\ ChatOnward
  <2>1. \A k \in Campaign : row[k].status = row'[k].status
        BY <1>8 DEF Happen
  <2>2. \A k \in Message : chat[k].status = chat'[k].status
        BY <1>8 DEF Happen
  <2> QED BY <1>0, <2>1, <2>2
<1>9. ASSUME NEW h \in Handler, NEW table \in todo[h], Rename(h, table) PROVE RowOnward /\ ChatOnward
  <2>1. \A k \in Campaign : row[k].status = row'[k].status
        BY <1>9 DEF Rename, MessagesTyped
  <2>2. \A k \in Message : chat[k].status = chat'[k].status
        BY <1>9 DEF Rename, ChatsTyped
  <2> QED BY <1>0, <2>1, <2>2
<1>10. ASSUME NEW h \in Handler, FindRow(h) PROVE RowOnward /\ ChatOnward
  <2>1. \A k \in Campaign : row[k].status = row'[k].status
        BY <1>10 DEF FindRow
  <2>2. \A k \in Message : chat[k].status = chat'[k].status
        BY <1>10 DEF FindRow
  <2> QED BY <1>0, <2>1, <2>2
<1>11. ASSUME NEW h \in Handler, UpdateRow(h) PROVE RowOnward /\ ChatOnward
  <2>1. \A k \in Message : chat[k].status = chat'[k].status
        BY <1>11 DEF UpdateRow
  <2>2. ASSUME NEW k \in Campaign PROVE Rank[row[k].status] <= Rank[row'[k].status]
    <3>1. CASE k = about[h] /\ row[k].status = seen[h]
      <4>1. row'[k].status = says[h]
            BY <1>11, <3>1 DEF UpdateRow, Unchanged, MessagesTyped
      <4>2. Forward(seen[h], says[h]) /\ says[h] \in Reported /\ seen[h] \in Reported \cup {"QUEUED"}
            BY <1>11 DEF UpdateRow, At, Handlers, ReportsTyped
      <4> QED BY <3>1, <4>1, <4>2, ForwardRank
    <3>2. CASE ~(k = about[h] /\ row[k].status = seen[h])
      <4>1. row'[k].status = row[k].status
            BY <1>11, <3>2 DEF UpdateRow, Unchanged, MessagesTyped
      <4>2. row[k].status \in Reported \cup {"QUEUED"}
            BY DEF MessagesTyped
      <4> QED BY <4>1, <4>2, RankType
    <3> QED BY <3>1, <3>2
  <2> QED BY <1>0, <2>1, <2>2 DEF RowOnward
<1>12. ASSUME NEW h \in Handler, Judge(h) PROVE RowOnward /\ ChatOnward
  <2>1. \A k \in Campaign : row[k].status = row'[k].status
        BY <1>12 DEF Judge
  <2>2. \A k \in Message : chat[k].status = chat'[k].status
        BY <1>12 DEF Judge
  <2> QED BY <1>0, <2>1, <2>2
<1>13. ASSUME NEW h \in Handler, FindChat(h) PROVE RowOnward /\ ChatOnward
  <2>1. \A k \in Campaign : row[k].status = row'[k].status
        BY <1>13 DEF FindChat
  <2>2. \A k \in Message : chat[k].status = chat'[k].status
        BY <1>13 DEF FindChat
  <2> QED BY <1>0, <2>1, <2>2
<1>14. ASSUME NEW h \in Handler, FindChatLater(h) PROVE RowOnward /\ ChatOnward
  <2>1. \A k \in Campaign : row[k].status = row'[k].status
        BY <1>14 DEF FindChatLater
  <2>2. \A k \in Message : chat[k].status = chat'[k].status
        BY <1>14 DEF FindChatLater
  <2> QED BY <1>0, <2>1, <2>2
<1>15. ASSUME NEW h \in Handler, WriteChat(h) PROVE RowOnward /\ ChatOnward
  <2>1. \A k \in Campaign : row[k].status = row'[k].status
        BY <1>15 DEF WriteChat
  <2>2. ASSUME NEW k \in Message, chat[k].status # "none",
               \A g \in Handler : ~(about[g] = k /\ stage[g] = "write" /\ seen[g] # chat[k].status)
        PROVE  Rank[chat[k].status] <= Rank[chat'[k].status]
    <3>0. chat[k].status \in Reported
          BY <2>2 DEF ChatsTyped
    <3>1. CASE k = about[h]
      <4>1. chat'[k].status = says[h] /\ seen[h] = chat[k].status
            BY <1>15, <2>2, <3>1 DEF WriteChat, At, ChatsTyped
      <4>2. Forward(seen[h], says[h]) /\ says[h] \in Reported
            BY <1>15 DEF WriteChat, At, Handlers
      <4> QED BY <3>0, <4>1, <4>2, ForwardRank
    <3>2. CASE k # about[h]
      <4>1. chat'[k].status = chat[k].status
            BY <1>15, <3>2 DEF WriteChat, ChatsTyped
      <4> QED BY <3>0, <4>1, RankType
    <3> QED BY <3>1, <3>2
  <2> QED BY <1>0, <2>1, <2>2 DEF ChatOnward
<1>16. ASSUME NEW h \in Handler, RefundUndelivered(h) PROVE RowOnward /\ ChatOnward
  <2>1. \A k \in Campaign : row[k].status = row'[k].status
        BY <1>16 DEF RefundUndelivered
  <2>2. \A k \in Message : chat[k].status = chat'[k].status
        BY <1>16 DEF RefundUndelivered
  <2> QED BY <1>0, <2>1, <2>2
<1>17. ASSUME NEW h \in Handler, End(h) PROVE RowOnward /\ ChatOnward
  <2>1. \A k \in Campaign : row[k].status = row'[k].status
        BY <1>17 DEF End
  <2>2. \A k \in Message : chat[k].status = chat'[k].status
        BY <1>17 DEF End
  <2> QED BY <1>0, <2>1, <2>2
<1>18. ASSUME NEW h \in Handler, NEW m \in Message, Report(h, m) PROVE RowOnward /\ ChatOnward
  <2>1. \A k \in Campaign : row[k].status = row'[k].status
        BY <1>18 DEF Report
  <2>2. \A k \in Message : chat[k].status = chat'[k].status
        BY <1>18 DEF Report
  <2> QED BY <1>0, <2>1, <2>2
<1>19. ASSUME TakeRefund PROVE RowOnward /\ ChatOnward
  <2>1. \A k \in Campaign : row[k].status = row'[k].status
        BY <1>19 DEF TakeRefund
  <2>2. \A k \in Message : chat[k].status = chat'[k].status
        BY <1>19 DEF TakeRefund
  <2> QED BY <1>0, <2>1, <2>2
<1>20. ASSUME PayRefund PROVE RowOnward /\ ChatOnward
  <2>1. \A k \in Campaign : row[k].status = row'[k].status
        BY <1>20 DEF PayRefund
  <2>2. \A k \in Message : chat[k].status = chat'[k].status
        BY <1>20 DEF PayRefund
  <2> QED BY <1>0, <2>1, <2>2
<1>21. ASSUME RefundFails PROVE RowOnward /\ ChatOnward
  <2>1. \A k \in Campaign : row[k].status = row'[k].status
        BY <1>21 DEF RefundFails
  <2>2. \A k \in Message : chat[k].status = chat'[k].status
        BY <1>21 DEF RefundFails
  <2> QED BY <1>0, <2>1, <2>2
<1>22. ASSUME StoreRefund PROVE RowOnward /\ ChatOnward
  <2>1. \A k \in Campaign : row[k].status = row'[k].status
        BY <1>22 DEF StoreRefund
  <2>2. \A k \in Message : chat[k].status = chat'[k].status
        BY <1>22 DEF StoreRefund
  <2> QED BY <1>0, <2>1, <2>2
<1>23. ASSUME Crash PROVE RowOnward /\ ChatOnward
  <2>1. \A k \in Campaign : row[k].status = row'[k].status
        BY <1>23 DEF Crash
  <2>2. \A k \in Message : chat[k].status = chat'[k].status
        BY <1>23 DEF Crash
  <2> QED BY <1>0, <2>1, <2>2
<1>24. CASE UNCHANGED vars
  <2>1. row' = row /\ chat' = chat
        BY <1>24 DEF vars
  <2> QED BY <1>0, <2>1
<1> QED
        BY <1>1, <1>2, <1>3, <1>4, <1>5, <1>6, <1>7, <1>8, <1>9, <1>10, <1>11, <1>12, <1>13,
       <1>14, <1>15, <1>16, <1>17, <1>18, <1>19, <1>20, <1>21, <1>22, <1>23, <1>24
       DEF Next, SenderStep, HandlerStep, RefundStep

(* However reports are ordered and handlers overlap, rows go forward only, *)
(* and chats but for a handler with an outdated reading (NeverBack).       *)
THEOREM NeverGoesBack == Spec => NeverBack
<1>1. Shape /\ [Next]_vars =>
        [/\ \A m \in Campaign : Rank[row[m].status] <= Rank[row'[m].status]
         /\ \A m \in Message :
              \/ chat[m].status = "none"
              \/ Rank[chat[m].status] <= Rank[chat'[m].status]
              \/ \E h \in Handler :
                   about[h] = m /\ stage[h] = "write" /\ seen[h] # chat[m].status]_<<row, chat>>
      BY OnwardStep DEF RowOnward, ChatOnward
<1> QED BY <1>1, ShapeInit, ShapeStep, PTL DEF Spec, NeverBack

==============================================================================
