------------------------------ MODULE Inbound ------------------------------
(***************************************************************************)
(* modules/webhooks: what a customer writes, from Meta's webhook to the    *)
(* inbox and to whoever answers - an automation, the chatbot (ChatFlow) or *)
(* the AI agent.  Every delivery runs on its own after Meta has got its    *)
(* 200, a message may be delivered more than once, and all of them share   *)
(* the contact, the chat and the message table.                            *)
(***************************************************************************)
EXTENDS ChatFlow, Sequences

CONSTANTS
  Messages,    \* waMessageIds
  Of,          \* delivery -> message
  MaxUpsets    \* bound: restarts, failures and changes from outside

Deliveries == Calls

ASSUME InboundAssumption ==
  /\ Of \in [Deliveries -> Messages]
  /\ MaxUpsets \in Nat

VARIABLES
  at,        \* where each delivery is
  dup,       \* its duplicate check
  paused,    \* the automationPaused it read
  byFlow,    \* the message goes to the chatbot
  ran,       \* an automation answered it
  stored,    \* Message
  counted,   \* how often the chat's unreadCount counted each message
  routed,    \* how often each message was given to the bots
  contact,   \* Contact.status; "none" before there is one
  used,      \* Subscription.contactsUsed, as far as this contact goes
  human,     \* Conversation.automationPaused
  chain,     \* the AI agent's queue of this chat
  upsets

inVars == <<at, dup, paused, byFlow, ran>>
tables == <<stored, counted, routed, contact, used, human>>
vars == <<flowVars, inVars, tables, chain, upsets>>

Places == {"new", "contact", "create", "found", "store", "count", "opt",
           "route", "answer", "bots", "queue", "think", "reply", "over"}

TypeOK ==
  /\ FlowTypeOK
  /\ at \in [Deliveries -> Places]
  /\ dup \in [Deliveries -> {"unread", "no", "yes"}]
  /\ paused \in [Deliveries -> BOOLEAN]
  /\ byFlow \in [Deliveries -> BOOLEAN]
  /\ ran \in [Deliveries -> BOOLEAN]
  /\ stored \subseteq Messages
  /\ counted \in [Messages -> Nat]
  /\ routed \in [Messages -> Nat]
  /\ contact \in {"none", "ACTIVE", "UNSUBSCRIBED"}
  /\ used \in Nat
  /\ human \in BOOLEAN
  /\ chain \in Seq(Deliveries)
  /\ upsets \in 0 .. MaxUpsets

Init ==
  /\ FlowInit
  /\ at = [d \in Deliveries |-> "new"]
  /\ dup = [d \in Deliveries |-> "unread"]
  /\ paused = [d \in Deliveries |-> FALSE]
  /\ byFlow = [d \in Deliveries |-> FALSE]
  /\ ran = [d \in Deliveries |-> FALSE]
  /\ stored = {}
  /\ counted = [m \in Messages |-> 0]
  /\ routed = [m \in Messages |-> 0]
  /\ contact = "none"
  /\ used = 0
  /\ human = FALSE
  /\ chain = << >>
  /\ upsets = 0

-----------------------------------------------------------------------------
Goto(d, place) == at' = [at EXCEPT ![d] = place]

(* A delivery that has been answered keeps nothing.                        *)
Forget(d) ==
  /\ dup' = [dup EXCEPT ![d] = "unread"]
  /\ paused' = [paused EXCEPT ![d] = FALSE]
  /\ ran' = [ran EXCEPT ![d] = FALSE]

Upset == upsets < MaxUpsets /\ upsets' = upsets + 1

Receive(d) ==
  /\ at[d] = "new"
  /\ Goto(d, "contact")
  /\ UNCHANGED <<flowVars, dup, paused, byFlow, ran, tables, chain, upsets>>

(* The duplicate check and the contact are looked up at the same time.     *)
CheckDuplicate(d) ==
  /\ at[d] \in {"contact", "create", "found"}
  /\ dup[d] = "unread"
  /\ dup' = [dup EXCEPT ![d] = IF Of[d] \in stored THEN "yes" ELSE "no"]
  /\ UNCHANGED <<flowVars, at, paused, byFlow, ran, tables, chain, upsets>>

FindContact(d) ==
  /\ at[d] = "contact"
  /\ Goto(d, IF contact = "none" THEN "create" ELSE "found")
  /\ UNCHANGED <<flowVars, dup, paused, byFlow, ran, tables, chain, upsets>>

(* An upsert: another delivery may have been faster, and what it created   *)
(* less than five seconds ago counts as new once more.                     *)
CreateContact(d) ==
  /\ at[d] = "create"
  /\ contact' = IF contact = "none" THEN "ACTIVE" ELSE contact
  /\ \E fresh \in IF contact = "none" THEN {TRUE} ELSE BOOLEAN :
       used' = IF fresh THEN used + 1 ELSE used
  /\ Goto(d, "found")
  /\ UNCHANGED <<flowVars, dup, paused, byFlow, ran, stored, counted, routed,
                 human, chain, upsets>>

SkipDuplicate(d) ==
  /\ at[d] = "found"
  /\ dup[d] = "yes"
  /\ Goto(d, "over")
  /\ UNCHANGED <<flowVars, dup, paused, byFlow, ran, tables, chain, upsets>>

FindChat(d) ==
  /\ at[d] = "found"
  /\ dup[d] = "no"
  /\ Goto(d, "store")
  /\ UNCHANGED <<flowVars, dup, paused, byFlow, ran, tables, chain, upsets>>

StoreAgain(d) ==
  /\ at[d] = "store"
  /\ stored' = stored \cup {Of[d]}
  /\ Goto(d, "count")
  /\ UNCHANGED <<flowVars, dup, paused, byFlow, ran, counted, routed,
                 contact, used, human, chain, upsets>>

(* waMessageId is unique: the second of two that passed the check fails.   *)
StoreMessage(d) ==
  /\ at[d] = "store"
  /\ stored' = stored \cup {Of[d]}
  /\ Goto(d, IF Of[d] \in stored THEN "over" ELSE "count")
  /\ UNCHANGED <<flowVars, dup, paused, byFlow, ran, counted, routed,
                 contact, used, human, chain, upsets>>

CountMessage(d) ==
  /\ at[d] = "count"
  /\ counted' = [counted EXCEPT ![Of[d]] = @ + 1]
  /\ paused' = [paused EXCEPT ![d] = human]
  /\ Goto(d, "opt")
  /\ UNCHANGED <<flowVars, dup, byFlow, ran, stored, routed, contact,
                 used, human, chain, upsets>>

(* "STOP" and its like; nobody is to answer it.                            *)
OptOut(d) ==
  /\ at[d] = "opt"
  /\ contact' = "UNSUBSCRIBED"
  /\ Goto(d, "over")
  /\ UNCHANGED <<flowVars, dup, paused, byFlow, ran, stored, counted,
                 routed, used, human, chain, upsets>>

OptIn(d) ==
  /\ at[d] = "opt"
  /\ contact' = "ACTIVE"
  /\ Goto(d, "route")
  /\ UNCHANGED <<flowVars, dup, paused, byFlow, ran, stored, counted,
                 routed, used, human, chain, upsets>>

NoSignal(d) ==
  /\ at[d] = "opt"
  /\ Goto(d, "route")
  /\ UNCHANGED <<flowVars, dup, paused, byFlow, ran, tables, chain, upsets>>

-----------------------------------------------------------------------------
(* routeInbound.  A suspended organisation answers nothing.                *)
MayNotSend(d) ==
  /\ at[d] = "route"
  /\ Goto(d, "over")
  /\ UNCHANGED <<flowVars, dup, paused, byFlow, ran, tables, chain, upsets>>

(* ownsReply: a tap on the menu the chatbot waits with.                    *)
Owned(d) ==
  ~paused[d] /\ session.waiting /\ bot /\ Flow[session.node].kind = "button"

OwnsTap(d) ==
  /\ at[d] = "route"
  /\ \E tap \in {FALSE, Owned(d)} : byFlow' = [byFlow EXCEPT ![d] = tap]
  /\ Goto(d, "answer")
  /\ UNCHANGED <<flowVars, dup, paused, ran, tables, chain, upsets>>

(* Then the automations: one that waited or one with a keyword claims the  *)
(* message, others may run beside the chatbot.  Media is not for it.       *)
GiveToBots(d) ==
  /\ at[d] = "answer"
  /\ routed' = [routed EXCEPT ![Of[d]] = @ + 1]
  /\ \E claimed \in IF byFlow[d] THEN {FALSE} ELSE BOOLEAN, text \in BOOLEAN :
       LET flow == ~paused[d] /\ text /\ (byFlow[d] \/ ~claimed)
       IN /\ byFlow[d] => text
          /\ Step(d, IF flow THEN "lock" ELSE "out")
          /\ \E r \in IF claimed THEN {TRUE} ELSE BOOLEAN :
               ran' = [ran EXCEPT ![d] = r]
  /\ byFlow' = [byFlow EXCEPT ![d] = FALSE]
  /\ Goto(d, "bots")
  /\ UNCHANGED <<chat, bot, tries, mine, keep, depth, handled, dup,
                 paused, stored, counted, contact, used, human, chain, upsets>>

(* Nobody took it: the AI agent's turn, behind the others of this chat.    *)
AskAi(d) ==
  /\ at[d] = "bots"
  /\ engine[d] = "out"
  /\ ~paused[d] /\ ~ran[d] /\ ~handled[d]
  /\ chain' = Append(chain, d)
  /\ Goto(d, "queue")
  /\ Forget(d)
  /\ UNCHANGED <<flowVars, byFlow, tables, upsets>>

Answered(d) ==
  /\ at[d] = "bots"
  /\ engine[d] = "out"
  /\ Goto(d, "over")
  /\ Forget(d)
  /\ UNCHANGED <<flowVars, byFlow, tables, chain, upsets>>

AiLeaves(d) ==
  /\ chain' = Tail(chain)
  /\ Goto(d, "over")

AiStartAtOnce(d) ==
  /\ at[d] = "queue"
  /\ ~human /\ contact = "ACTIVE"
  /\ Goto(d, "think")
  /\ UNCHANGED <<flowVars, dup, paused, byFlow, ran, tables, chain, upsets>>

(* Its turn: the agent may be off or out of quota; chat and contact are    *)
(* read afresh.                                                            *)
AiStart(d) ==
  /\ at[d] = "queue"
  /\ Head(chain) = d
  /\ ~human /\ contact = "ACTIVE"
  /\ Goto(d, "think")
  /\ UNCHANGED <<flowVars, dup, paused, byFlow, ran, tables, chain, upsets>>

AiSilent(d) ==
  /\ at[d] = "queue"
  /\ Head(chain) = d
  /\ AiLeaves(d)
  /\ UNCHANGED <<flowVars, dup, paused, byFlow, ran, tables, upsets>>

(* The model calls its tools; handoff_to_human gives the chat away.        *)
AiThinks(d) ==
  /\ at[d] = "think"
  /\ human' \in {human, TRUE}
  /\ Goto(d, "reply")
  /\ UNCHANGED <<flowVars, dup, paused, byFlow, ran, stored, counted,
                 routed, contact, used, chain, upsets>>

AiReplies(d) ==
  /\ at[d] = "reply"
  /\ AiLeaves(d)
  /\ UNCHANGED <<flowVars, dup, paused, byFlow, ran, tables, upsets>>

-----------------------------------------------------------------------------
(* An agent takes the chat over or gives it back; the bot is switched.     *)
TakeOver ==
  /\ Upset
  /\ human' = ~human
  /\ UNCHANGED <<flowVars, inVars, stored, counted, routed, contact, used, chain>>

SwitchBot ==
  /\ Upset
  /\ bot' = ~bot
  /\ UNCHANGED <<chat, calls, inVars, tables, chain>>

(* Everything in memory goes, and Meta has had its 200.                    *)
Restart ==
  /\ Upset
  /\ at' = [d \in Deliveries |-> IF at[d] = "new" THEN "new" ELSE "over"]
  /\ engine' = [c \in Calls |-> IF at[c] = "new" THEN "new" ELSE "out"]
  /\ dup' = [d \in Deliveries |-> "unread"]
  /\ paused' = [d \in Deliveries |-> FALSE]
  /\ byFlow' = [d \in Deliveries |-> FALSE]
  /\ ran' = [d \in Deliveries |-> FALSE]
  /\ mine' = [c \in Calls |-> NoSession]
  /\ depth' = [c \in Calls |-> 0]
  /\ lock' = FALSE /\ session' = NoSession /\ chain' = << >>
  /\ keep' = [c \in Calls |-> "stop"]
  /\ tries' = [c \in Calls |-> Tries]
  /\ UNCHANGED <<late, bot, handled, tables>>

(* There is nothing left to do; any other end would be a deadlock.         *)
AllDone == (\A d \in Deliveries : at[d] = "over") /\ UNCHANGED vars

Rest == UNCHANGED <<inVars, tables, chain>>

Handle(d) ==
  \/ CheckDuplicate(d) \/ FindContact(d) \/ CreateContact(d)
  \/ SkipDuplicate(d) \/ FindChat(d) \/ StoreMessage(d) \/ CountMessage(d)
  \/ OptOut(d) \/ OptIn(d) \/ NoSignal(d) \/ MayNotSend(d) \/ OwnsTap(d)
  \/ GiveToBots(d) \/ AskAi(d) \/ Answered(d)
  \/ AiStart(d) \/ AiSilent(d) \/ AiThinks(d) \/ AiReplies(d)

Next ==
  \/ \E d \in Deliveries : Receive(d) \/ Handle(d)
  \/ \E c \in Calls : EngineStep(c) /\ Rest /\ UNCHANGED upsets
  \/ \E c \in Calls : EngineFails(c) /\ Rest /\ Upset
  \/ LockExpires /\ Rest /\ UNCHANGED upsets
  \/ TakeOver \/ SwitchBot \/ Restart
  \/ AllDone

Spec == Init /\ [][Next]_vars

-----------------------------------------------------------------------------
(* A message is counted as unread and handed to the bots at most once,     *)
(* however often Meta delivers it and whoever stores it first.             *)
RoutedOnce == \A m \in Messages : counted[m] <= 1 /\ routed[m] <= 1

(* The AI agent answers a chat's messages one after the other and in the   *)
(* order they came to it, so that each turn sees the answers before it.    *)
AiInTurn ==
  \A d \in Deliveries :
    at[d] \in {"think", "reply"} => chain # << >> /\ Head(chain) = d
=============================================================================
