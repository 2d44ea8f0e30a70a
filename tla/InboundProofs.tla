--------------------------- MODULE InboundProofs ----------------------------
(***************************************************************************)
(* Theorems about inbound messages, the chatbot and the AI agent for any   *)
(* number of messages and deliveries, any bot and any number of restarts.  *)
(* Three invariants carry them: one delivery at a time has a message in    *)
(* its hands, one call at a time is inside the chatbot while no lock has   *)
(* expired, and the chain holds exactly the deliveries that wait for the   *)
(* AI agent.                                                               *)
(***************************************************************************)
EXTENDS Inbound, FiniteSetTheorems, TLAPS

(* Until it is given to the bots, a delivery has made no engine call.      *)
Before == {"new", "contact", "create", "found", "store", "count", "opt", "route", "answer"}

Fresh == \A d \in Deliveries : at[d] \in Before => engine[d] = "new" /\ tries[d] = Tries

(* A call that asks for the lock may still ask for it, and one that walks  *)
(* through the bot has a session in its hands.                             *)
Asking == \A c \in Calls : engine[c] = "lock" => tries[c] # 0

Walking == \A c \in Calls : engine[c] \in {"save", "run", "keep"} => mine[c] \in Session

(* The delivery that stored a message is the only one to go on with it.    *)
Storer == {"count", "opt", "route", "answer"}

OneStorer ==
  /\ \A d \in Deliveries : at[d] \in Storer => Of[d] \in stored /\ routed[Of[d]] = 0
  /\ \A d, e \in Deliveries : at[d] \in Storer /\ at[e] \in Storer /\ Of[d] = Of[e] => d = e
  /\ \A d \in Deliveries : at[d] = "count" => counted[Of[d]] = 0
  /\ \A m \in Messages : m \notin stored => counted[m] = 0 /\ routed[m] = 0

(* Whoever is inside the chatbot has the lock, unless one has expired.     *)
AloneInside ==
  late \/ /\ \A c, e \in Calls : engine[c] \in Inside /\ engine[e] \in Inside => c = e
          /\ \A c \in Calls : engine[c] \in Inside => lock
          /\ \A c \in Calls : engine[c] = "run" => session = mine[c]

(* The chain holds the deliveries that wait for the AI agent, each once.   *)
Waiting == {"queue", "think", "reply"}

ChainIsQueue ==
  /\ \A i, j \in 1 .. Len(chain) : chain[i] = chain[j] => i = j
  /\ \A d \in Deliveries : at[d] \in Waiting <=> \E i \in 1 .. Len(chain) : chain[i] = d

IInv ==
  /\ TypeOK /\ Fresh /\ Asking /\ Walking
  /\ OneStorer /\ RoutedOnce /\ AloneInside /\ ChainIsQueue /\ AiInTurn

-----------------------------------------------------------------------------
(* The pieces of the type invariant the steps below rest on. *)
LEMMA Types ==
  ASSUME TypeOK
  PROVE  /\ at \in [Calls -> Places] /\ engine \in [Calls -> {"new", "lock", "out"} \cup Inside]
         /\ dup \in [Calls -> {"unread", "no", "yes"}]
         /\ paused \in [Calls -> BOOLEAN] /\ byFlow \in [Calls -> BOOLEAN]
         /\ ran \in [Calls -> BOOLEAN] /\ handled \in [Calls -> BOOLEAN]
         /\ tries \in [Calls -> 0 .. Tries] /\ depth \in [Calls -> 0 .. MaxDepth + 1]
         /\ mine \in [Calls -> Session \cup {NoSession}]
         /\ keep \in [Calls -> {"go", "stop", "leave", "delete"}]
         /\ counted \in [Messages -> Nat] /\ routed \in [Messages -> Nat]
         /\ Of \in [Calls -> Messages] /\ chain \in Seq(Calls)
BY InboundAssumption DEF TypeOK, FlowTypeOK, Deliveries

(* An input leaves a session a session, and so does every node. *)
LEMMA TakenIsSession ==
  ASSUME NEW s \in Session
  PROVE  Taken(s) \subseteq Session
<1>1. Flow[s.node].next \subseteq Nodes
  BY FlowAssumption DEF Session
<1>2. ASSUME NEW n \in Nodes PROVE [s EXCEPT !.node = n, !.waiting = FALSE] \in Session
  BY DEF Session
<1>3. [s EXCEPT !.waiting = FALSE] \in Session
  BY DEF Session
<1>4. QED
  BY <1>1, <1>2, <1>3 DEF Taken

LEMMA EffectsAreSessions ==
  ASSUME NEW s \in Session, NEW e \in Effects(s)
  PROVE  e.to \in Session /\ e.then \in {"go", "stop", "leave", "delete"}
<1>1. Flow[s.node].next \subseteq Nodes
  BY FlowAssumption DEF Session
<1>2. ASSUME NEW n \in Nodes PROVE [s EXCEPT !.node = n, !.waiting = FALSE, !.ai = FALSE] \in Session
  BY DEF Session
<1>3. /\ [s EXCEPT !.waiting = TRUE] \in Session
      /\ [s EXCEPT !.waiting = TRUE, !.ai = TRUE] \in Session
  BY DEF Session
<1>4. \/ \E to \in Session, then \in {"stop", "delete", "leave"} : e = [to |-> to, then |-> then]
      \/ \E n \in Flow[s.node].next : e = Onward(s, n)
  BY <1>3 DEF Effects
<1>5. ASSUME NEW n \in Flow[s.node].next, e = Onward(s, n)
      PROVE  e.to \in Session /\ e.then \in {"go", "stop", "leave", "delete"}
  <2>1. e.to = [s EXCEPT !.node = n, !.waiting = FALSE, !.ai = FALSE] /\ e.then = "go"
    BY <1>5 DEF Onward
  <2>2. QED
    BY <1>1, <1>2, <2>1
<1>6. QED
  BY <1>4, <1>5

(* Every step keeps the types: those of the chatbot first. *)
LEMMA Numbers == /\ MaxDepth \in Nat /\ Tries \in Nat /\ Tries # 0
                 /\ 0 \in 0 .. MaxDepth + 1 /\ Tries \in 0 .. Tries
BY FlowAssumption

LEMMA EngineTypes ==
  ASSUME IInv, NEW c \in Calls, EngineStep(c) \/ EngineFails(c)
  PROVE  FlowTypeOK'
<1> USE Numbers DEF FlowTypeOK, Step, Return, chat, Inside
<1>0. FlowTypeOK /\ Asking /\ Walking
  BY DEF IInv, TypeOK
<1>1. CASE Lock(c)
  BY <1>0, <1>1 DEF Lock
<1>2. CASE Refused(c)
  <2>1. tries[c] # 0 /\ tries[c] \in 0 .. Tries
    BY <1>0, <1>2 DEF Refused, Asking
  <2>2. tries' \in [Calls -> 0 .. Tries]
    BY <1>0, <1>2, <2>1 DEF Refused
  <2>3. QED
    BY <1>0, <1>2, <2>2 DEF Refused
<1>3. CASE NoBot(c)
  BY <1>0, <1>3 DEF NoBot
<1>4. CASE StartFlow(c)
  <2>1. At(First) \in Session
    BY FlowAssumption DEF At, Session
  <2>2. QED
    BY <1>0, <1>4, <2>1 DEF StartFlow
<1>5. CASE TakeInput(c)
  <2>1. session \in Session
    BY <1>0, <1>5 DEF TakeInput
  <2>2. mine' \in [Calls -> Session \cup {NoSession}]
    BY <1>0, <1>5, <2>1, TakenIsSession DEF TakeInput
  <2>3. QED
    BY <1>0, <1>5, <2>2 DEF TakeInput
<1>6. CASE SaveSession(c)
  BY <1>0, <1>6 DEF SaveSession
<1>7. CASE DoNode(c)
  <2>1. mine[c] \in Session
    BY <1>0, <1>7 DEF DoNode, Walking
  <2>2. PICK e \in Effects(mine[c]) :
          mine' = [mine EXCEPT ![c] = e.to] /\ keep' = [keep EXCEPT ![c] = e.then]
    BY <1>7 DEF DoNode
  <2>3. e.to \in Session /\ e.then \in {"go", "stop", "leave", "delete"}
    BY <2>1, EffectsAreSessions
  <2>4. /\ mine' \in [Calls -> Session \cup {NoSession}]
        /\ keep' \in [Calls -> {"go", "stop", "leave", "delete"}]
    BY <1>0, <2>2, <2>3
  <2>5. QED
    BY <1>0, <1>7, <2>4 DEF DoNode
<1>8. CASE TooDeep(c)
  BY <1>0, <1>8 DEF TooDeep
<1>9. CASE KeepSession(c)
  BY <1>0, <1>9 DEF KeepSession
<1>10. CASE ReleaseLock(c)
  BY <1>0, <1>10 DEF ReleaseLock
<1>11. CASE EngineFails(c)
  BY <1>0, <1>11 DEF EngineFails
<1>12. QED
  BY <1>1, <1>2, <1>3, <1>4, <1>5, <1>6, <1>7, <1>8, <1>9, <1>10, <1>11 DEF EngineStep

LEMMA FlowTypes ==
  ASSUME IInv, [Next]_vars
  PROVE  FlowTypeOK'
<1>0. FlowTypeOK
  BY DEF IInv, TypeOK
<1>1. ASSUME NEW d \in Deliveries, Receive(d) \/ Handle(d) PROVE FlowTypeOK'
  <2>1. CASE GiveToBots(d)
    <3>1. \E place \in {"lock", "out"} : engine' = [engine EXCEPT ![d] = place]
      BY <2>1 DEF GiveToBots, Step
    <3>2. UNCHANGED <<chat, bot, tries, mine, keep, depth, handled>>
      BY <2>1 DEF GiveToBots
    <3>3. QED
      BY <1>0, <3>1, <3>2 DEF FlowTypeOK, Deliveries, chat
  <2>2. CASE ~ GiveToBots(d)
    <3>1. UNCHANGED flowVars
      BY <1>1, <2>2
      DEF Handle, Receive, CheckDuplicate, FindContact, CreateContact, SkipDuplicate, FindChat,
          StoreMessage, CountMessage, OptOut, OptIn, NoSignal, MayNotSend, OwnsTap, AskAi,
          Answered, AiStart, AiSilent, AiThinks, AiReplies
    <3>2. QED
      BY <1>0, <3>1 DEF FlowTypeOK, flowVars, chat, calls
  <2>3. QED
    BY <2>1, <2>2
<1>2. ASSUME NEW c \in Calls, EngineStep(c) \/ EngineFails(c) PROVE FlowTypeOK'
  BY <1>2, EngineTypes
<1>3. CASE LockExpires
  BY <1>0, <1>3 DEF LockExpires, FlowTypeOK, calls
<1>4. CASE TakeOver \/ AllDone \/ UNCHANGED vars
  BY <1>0, <1>4 DEF TakeOver, AllDone, vars, FlowTypeOK, flowVars, chat, calls
<1>5. CASE SwitchBot
  BY <1>0, <1>5 DEF SwitchBot, FlowTypeOK, chat, calls
<1>6. CASE Restart
  BY <1>0, <1>6, Numbers DEF Restart, FlowTypeOK
<1>7. QED
  BY <1>1, <1>2, <1>3, <1>4, <1>5, <1>6 DEF Next

(* The types of a delivery and of the tables; a delivery that leaves the   *)
(* chain finds itself at its head.                                         *)
InTypeOK ==
  /\ at \in [Calls -> Places] /\ dup \in [Calls -> {"unread", "no", "yes"}]
  /\ paused \in [Calls -> BOOLEAN] /\ byFlow \in [Calls -> BOOLEAN]
  /\ ran \in [Calls -> BOOLEAN]

TablesTypeOK ==
  /\ stored \subseteq Messages
  /\ counted \in [Messages -> Nat] /\ routed \in [Messages -> Nat]
  /\ contact \in {"none", "ACTIVE", "UNSUBSCRIBED"}
  /\ used \in Nat /\ human \in BOOLEAN

LEMMA DeliveryTypes ==
  ASSUME IInv, NEW d \in Calls, Receive(d) \/ Handle(d)
  PROVE  InTypeOK' /\ TablesTypeOK' /\ UNCHANGED upsets
<1>0. /\ InTypeOK /\ TablesTypeOK
      /\ handled \in [Calls -> BOOLEAN] /\ Of[d] \in Messages
  BY InboundAssumption DEF IInv, TypeOK, FlowTypeOK, InTypeOK, TablesTypeOK, Deliveries
<1> USE <1>0 DEF InTypeOK, TablesTypeOK, Goto, Forget, Places, tables
<1>1. CASE Receive(d)
  BY <1>1 DEF Receive
<1>2. CASE CheckDuplicate(d)
  BY <1>2 DEF CheckDuplicate
<1>3. CASE FindContact(d)
  BY <1>3 DEF FindContact
<1>4. CASE CreateContact(d)
  <2>1. used' \in {used, used + 1}
    BY <1>4 DEF CreateContact
  <2>2. contact' \in {"ACTIVE", contact} /\ UNCHANGED <<dup, paused, byFlow, ran, stored, counted, routed, human, upsets>>
    BY <1>4 DEF CreateContact
  <2>3. at' = [at EXCEPT ![d] = "found"]
    BY <1>4 DEF CreateContact
  <2>4. QED
    BY <2>1, <2>2, <2>3
<1>5. CASE SkipDuplicate(d) \/ FindChat(d)
  BY <1>5 DEF SkipDuplicate, FindChat
<1>6. CASE StoreMessage(d)
  BY <1>6 DEF StoreMessage
<1>7. CASE CountMessage(d)
  BY <1>7 DEF CountMessage
<1>8. CASE OptOut(d) \/ OptIn(d) \/ NoSignal(d) \/ MayNotSend(d)
  BY <1>8 DEF OptOut, OptIn, NoSignal, MayNotSend
<1>9. CASE OwnsTap(d)
  <2>1. \E tap \in BOOLEAN : byFlow' = [byFlow EXCEPT ![d] = tap]
    BY <1>9 DEF OwnsTap, Owned
  <2>2. QED
    BY <1>9, <2>1 DEF OwnsTap
<1>10. CASE GiveToBots(d)
  <2>1. \E r \in BOOLEAN : ran' = [ran EXCEPT ![d] = r]
    BY <1>10 DEF GiveToBots
  <2>2. QED
    BY <1>10, <2>1 DEF GiveToBots
<1>11. CASE AskAi(d) \/ Answered(d)
  BY <1>11 DEF AskAi, Answered
<1>12. CASE AiStart(d) \/ AiSilent(d) \/ AiReplies(d)
  BY <1>12 DEF AiStart, AiSilent, AiReplies, AiLeaves
<1>13. CASE AiThinks(d)
  BY <1>13 DEF AiThinks
<1>14. QED
  BY <1>1, <1>2, <1>3, <1>4, <1>5, <1>6, <1>7, <1>8, <1>9, <1>10, <1>11, <1>12, <1>13 DEF Handle

(* Of the chain: it is empty after a restart, and otherwise only a         *)
(* delivery that asks the agent or leaves it moves it.                     *)
LEMMA OthersKeepChain ==
  ASSUME NEW d, Receive(d) \/ Handle(d), ~ AskAi(d), ~ AiSilent(d), ~ AiReplies(d)
  PROVE  UNCHANGED chain
BY DEF Handle, Receive, CheckDuplicate, FindContact, CreateContact, SkipDuplicate, FindChat,
       StoreMessage, CountMessage, OptOut, OptIn, NoSignal, MayNotSend, OwnsTap, GiveToBots,
       Answered, AiStart, AiThinks

LEMMA ChainType ==
  ASSUME IInv, NEW d \in Calls, Receive(d) \/ Handle(d)
  PROVE  chain' \in Seq(Calls)
<1>1. chain \in Seq(Calls) /\ at[d] \in Places
  BY DEF IInv, TypeOK, Deliveries
<1>2. CASE AskAi(d)
  BY <1>1, <1>2 DEF AskAi
<1>3. CASE AiSilent(d) \/ AiReplies(d)
  <2>1. at[d] \in Waiting /\ chain' = Tail(chain)
    BY <1>3 DEF AiSilent, AiReplies, AiLeaves, Waiting
  <2>2. chain # << >>
    <3>1. PICK i \in 1 .. Len(chain) : chain[i] = d
      BY <2>1 DEF IInv, ChainIsQueue, Deliveries
    <3>2. QED
      BY <1>1, <3>1
  <2>3. QED
    BY <1>1, <2>1, <2>2
<1>4. QED
  BY <1>1, <1>2, <1>3, OthersKeepChain

LEMMA TypeStep ==
  ASSUME IInv, [Next]_vars
  PROVE  TypeOK'
<1>0. TypeOK
  BY DEF IInv
<1>1. FlowTypeOK'
  BY FlowTypes
<1>2. ASSUME NEW d \in Deliveries, Receive(d) \/ Handle(d) PROVE TypeOK'
  BY <1>0, <1>1, <1>2, DeliveryTypes, ChainType DEF TypeOK, InTypeOK, TablesTypeOK, Deliveries
<1>3. ASSUME Rest, UNCHANGED upsets \/ Upset PROVE TypeOK'
  BY <1>0, <1>1, <1>3, InboundAssumption DEF TypeOK, Rest, inVars, tables, Upset
<1>4. CASE TakeOver
  BY <1>0, <1>1, <1>4, InboundAssumption DEF TypeOK, TakeOver, inVars, Upset
<1>5. CASE SwitchBot
  BY <1>0, <1>1, <1>5, InboundAssumption DEF TypeOK, SwitchBot, inVars, tables, Upset
<1>6. CASE Restart
  <2>1. << >> \in Seq(Deliveries)
    OBVIOUS
  <2>2. QED
    BY <1>0, <1>1, <1>6, <2>1, InboundAssumption DEF TypeOK, Restart, tables, Upset, Places, Deliveries
<1>7. CASE AllDone \/ UNCHANGED vars
  BY <1>0, <1>1, <1>7 DEF TypeOK, AllDone, vars, inVars, tables
<1>8. QED
  BY <1>2, <1>3, <1>4, <1>5, <1>6, <1>7 DEF Next

-----------------------------------------------------------------------------
(* What a step of a delivery leaves alone: it moves itself, never back,    *)
(* and touches the chatbot only when it calls it.                          *)
LEMMA DeliveryMoves ==
  ASSUME TypeOK, NEW d \in Calls, Receive(d) \/ Handle(d)
  PROVE  \E place \in Places :
           /\ at' = [at EXCEPT ![d] = place]
           /\ place \in Before => at[d] \in Before /\ ~ GiveToBots(d)
<1>0. at \in [Calls -> Places]
  BY Types
<1> USE <1>0 DEF Goto, Places, Before
<1>1. CASE CheckDuplicate(d)
  <2>1. at' = [at EXCEPT ![d] = at[d]] /\ at[d] \in Before /\ at[d] # "answer"
    BY <1>1 DEF CheckDuplicate
  <2>2. QED
    BY <2>1 DEF GiveToBots
<1>2. CASE Receive(d) \/ FindContact(d) \/ CreateContact(d) \/ SkipDuplicate(d) \/ FindChat(d)
  <2>1. /\ at[d] \in {"new", "contact", "create", "found"}
        /\ \E place \in Places : at' = [at EXCEPT ![d] = place]
    BY <1>2 DEF Receive, FindContact, CreateContact, SkipDuplicate, FindChat
  <2>2. QED
    BY <2>1 DEF GiveToBots
<1>3. CASE StoreMessage(d) \/ CountMessage(d) \/ OptOut(d) \/ OptIn(d) \/ NoSignal(d)
           \/ MayNotSend(d) \/ OwnsTap(d)
  <2>1. /\ at[d] \in {"store", "count", "opt", "route"}
        /\ \E place \in Places : at' = [at EXCEPT ![d] = place]
    BY <1>3 DEF StoreMessage, CountMessage, OptOut, OptIn, NoSignal, MayNotSend, OwnsTap
  <2>2. QED
    BY <2>1 DEF GiveToBots
<1>4. CASE GiveToBots(d)
  BY <1>4 DEF GiveToBots
<1>5. CASE AskAi(d) \/ Answered(d) \/ AiStart(d) \/ AiSilent(d) \/ AiThinks(d) \/ AiReplies(d)
  <2>1. \E place \in {"queue", "over", "think", "reply"} : at' = [at EXCEPT ![d] = place]
    BY <1>5 DEF AskAi, Answered, AiStart, AiSilent, AiThinks, AiReplies, AiLeaves
  <2>2. QED
    BY <2>1
<1>6. QED
  BY <1>1, <1>2, <1>3, <1>4, <1>5 DEF Handle

LEMMA OthersKeepFlow ==
  ASSUME NEW d, Receive(d) \/ Handle(d), ~ GiveToBots(d)
  PROVE  UNCHANGED flowVars
BY DEF Handle, Receive, CheckDuplicate, FindContact, CreateContact, SkipDuplicate, FindChat,
       StoreMessage, CountMessage, OptOut, OptIn, NoSignal, MayNotSend, OwnsTap, AskAi,
       Answered, AiStart, AiSilent, AiThinks, AiReplies

LEMMA CallsTheBots ==
  ASSUME NEW d, GiveToBots(d)
  PROVE  /\ at[d] = "answer"
         /\ \E place \in {"lock", "out"} : engine' = [engine EXCEPT ![d] = place]
         /\ UNCHANGED <<lock, session, late, bot, tries, mine, keep, depth, handled>>
BY DEF GiveToBots, Step, chat

(* And a step of an engine call, which has begun. *)
LEMMA EngineMoves ==
  ASSUME TypeOK, NEW c \in Calls, EngineStep(c) \/ EngineFails(c)
  PROVE  /\ engine[c] \in {"lock"} \cup Inside
         /\ \E place \in {"lock", "out"} \cup Inside : engine' = [engine EXCEPT ![c] = place]
         /\ \A e \in Calls : e # c => tries'[e] = tries[e] /\ mine'[e] = mine[e]
<1>0. /\ engine \in [Calls -> {"new", "lock", "out"} \cup Inside]
      /\ tries \in [Calls -> 0 .. Tries] /\ mine \in [Calls -> Session \cup {NoSession}]
  BY Types
<1> USE <1>0 DEF Step, Inside
<1>1. CASE Lock(c)
  BY <1>1 DEF Lock
<1>2. CASE Refused(c)
  BY <1>2 DEF Refused
<1>3. CASE NoBot(c) \/ SaveSession(c) \/ TooDeep(c)
  BY <1>3 DEF NoBot, SaveSession, TooDeep
<1>4. CASE StartFlow(c) \/ TakeInput(c)
  BY <1>4 DEF StartFlow, TakeInput
<1>5. CASE DoNode(c)
  BY <1>5 DEF DoNode
<1>6. CASE KeepSession(c)
  BY <1>6 DEF KeepSession
<1>7. CASE ReleaseLock(c) \/ EngineFails(c)
  BY <1>7 DEF ReleaseLock, EngineFails
<1>8. QED
  BY <1>1, <1>2, <1>3, <1>4, <1>5, <1>6, <1>7 DEF EngineStep

LEMMA FreshStep ==
  ASSUME IInv, [Next]_vars
  PROVE  Fresh'
<1>0. /\ TypeOK /\ Fresh
      /\ at \in [Calls -> Places] /\ engine \in [Calls -> {"new", "lock", "out"} \cup Inside]
  BY Types DEF IInv
<1> USE DEF Fresh, Deliveries
<1>1. ASSUME NEW d \in Deliveries, Receive(d) \/ Handle(d) PROVE Fresh'
  <2>1. PICK place \in Places :
          /\ at' = [at EXCEPT ![d] = place]
          /\ place \in Before => at[d] \in Before /\ ~ GiveToBots(d)
    BY <1>0, <1>1, DeliveryMoves
  <2>2. CASE GiveToBots(d)
    BY <1>0, <2>1, <2>2, CallsTheBots
  <2>3. CASE ~ GiveToBots(d)
    BY <1>0, <1>1, <2>1, <2>3, OthersKeepFlow DEF flowVars, calls
  <2>4. QED
    BY <2>2, <2>3
<1>2. ASSUME NEW c \in Calls, EngineStep(c) \/ EngineFails(c), Rest PROVE Fresh'
  <2>1. UNCHANGED at
    BY <1>2 DEF Rest, inVars
  <2>2. QED
    BY <1>0, <1>2, <2>1, EngineMoves DEF Inside
<1>3. CASE LockExpires /\ Rest
  BY <1>0, <1>3 DEF LockExpires, Rest, inVars, calls
<1>4. CASE TakeOver \/ SwitchBot \/ AllDone \/ UNCHANGED vars
  BY <1>0, <1>4 DEF TakeOver, SwitchBot, AllDone, vars, inVars, flowVars, calls
<1>5. CASE Restart
  BY <1>0, <1>5 DEF Restart, Before
<1>6. QED
  BY <1>1, <1>2, <1>3, <1>4, <1>5 DEF Next

LEMMA AskingStep ==
  ASSUME IInv, [Next]_vars
  PROVE  Asking'
<1>0. /\ TypeOK /\ Fresh /\ Asking
      /\ tries \in [Calls -> 0 .. Tries] /\ engine \in [Calls -> {"new", "lock", "out"} \cup Inside]
  BY Types DEF IInv
<1> USE DEF Asking, Deliveries
<1>1. ASSUME NEW d \in Deliveries, Receive(d) \/ Handle(d) PROVE Asking'
  <2>1. CASE GiveToBots(d)
    <3>1. tries[d] # 0
      BY <1>0, <2>1, CallsTheBots, Numbers DEF Fresh, Before
    <3>2. QED
      BY <1>0, <2>1, <3>1, CallsTheBots
  <2>2. CASE ~ GiveToBots(d)
    BY <1>0, <1>1, <2>2, OthersKeepFlow DEF flowVars, calls
  <2>3. QED
    BY <2>1, <2>2
<1>2. ASSUME NEW c \in Calls, EngineStep(c) \/ EngineFails(c) PROVE Asking'
  <2>1. engine'[c] = "lock" => tries'[c] # 0
    <3>1. CASE Refused(c)
      <4>1. tries[c] \in Int /\ tries'[c] = tries[c] - 1
        BY <1>0, <3>1, Numbers DEF Refused
      <4>2. CASE tries[c] > 1
        BY <4>1, <4>2
      <4>3. CASE ~ (tries[c] > 1)
        BY <1>0, <3>1, <4>3 DEF Refused, Step
      <4>4. QED
        BY <4>2, <4>3
    <3>2. CASE ~ Refused(c)
      <4>1. CASE Lock(c) \/ NoBot(c) \/ StartFlow(c) \/ TakeInput(c) \/ SaveSession(c)
        BY <1>0, <4>1 DEF Step, Lock, NoBot, StartFlow, TakeInput, SaveSession
      <4>2. CASE DoNode(c) \/ TooDeep(c) \/ KeepSession(c) \/ ReleaseLock(c) \/ EngineFails(c)
        BY <1>0, <4>2 DEF Step, DoNode, TooDeep, KeepSession, ReleaseLock, EngineFails
      <4>3. QED
        BY <1>2, <3>2, <4>1, <4>2 DEF EngineStep
    <3>3. QED
      BY <3>1, <3>2
  <2>2. QED
    BY <1>0, <1>2, <2>1, EngineMoves
<1>3. CASE LockExpires
  BY <1>0, <1>3 DEF LockExpires, calls
<1>4. CASE TakeOver \/ SwitchBot \/ AllDone \/ UNCHANGED vars
  BY <1>0, <1>4 DEF TakeOver, SwitchBot, AllDone, vars, flowVars, calls
<1>5. CASE Restart
  BY <1>0, <1>5 DEF Restart
<1>6. QED
  BY <1>1, <1>2, <1>3, <1>4, <1>5 DEF Next

LEMMA WalkingStep ==
  ASSUME IInv, [Next]_vars
  PROVE  Walking'
<1>0. /\ TypeOK /\ Walking
      /\ mine \in [Calls -> Session \cup {NoSession}] /\ session \in Session \cup {NoSession}
      /\ engine \in [Calls -> {"new", "lock", "out"} \cup Inside]
  BY Types DEF IInv, TypeOK, FlowTypeOK
<1> USE DEF Walking, Deliveries
<1>1. ASSUME NEW d \in Deliveries, Receive(d) \/ Handle(d) PROVE Walking'
  <2>1. CASE GiveToBots(d)
    BY <1>0, <2>1, CallsTheBots
  <2>2. CASE ~ GiveToBots(d)
    BY <1>0, <1>1, <2>2, OthersKeepFlow DEF flowVars, calls
  <2>3. QED
    BY <2>1, <2>2
<1>2. ASSUME NEW c \in Calls, EngineStep(c) \/ EngineFails(c) PROVE Walking'
  <2>1. engine'[c] \in {"save", "run", "keep"} => mine'[c] \in Session
    <3>1. CASE StartFlow(c)
      BY <1>0, <3>1, FlowAssumption DEF StartFlow, At, Session
    <3>2. CASE TakeInput(c)
      BY <1>0, <3>2, TakenIsSession DEF TakeInput
    <3>3. CASE DoNode(c)
      <4>1. mine[c] \in Session
        BY <1>0, <3>3 DEF DoNode
      <4>2. QED
        BY <1>0, <3>3, <4>1, EffectsAreSessions DEF DoNode
    <3>4. CASE SaveSession(c) \/ KeepSession(c)
      BY <1>0, <3>4 DEF SaveSession, KeepSession, Step
    <3>5. CASE Lock(c) \/ Refused(c) \/ NoBot(c) \/ TooDeep(c) \/ ReleaseLock(c) \/ EngineFails(c)
      BY <1>0, <3>5 DEF Lock, Refused, NoBot, TooDeep, ReleaseLock, EngineFails, Step
    <3>6. QED
      BY <1>2, <3>1, <3>2, <3>3, <3>4, <3>5 DEF EngineStep
  <2>2. QED
    BY <1>0, <1>2, <2>1, EngineMoves
<1>3. CASE LockExpires
  BY <1>0, <1>3 DEF LockExpires, calls
<1>4. CASE TakeOver \/ SwitchBot \/ AllDone \/ UNCHANGED vars
  BY <1>0, <1>4 DEF TakeOver, SwitchBot, AllDone, vars, flowVars, calls
<1>5. CASE Restart
  BY <1>0, <1>5 DEF Restart
<1>6. QED
  BY <1>1, <1>2, <1>3, <1>4, <1>5 DEF Next

-----------------------------------------------------------------------------
(* A message is stored once, and who stored it goes on with it alone.      *)
LEMMA StorerMoves ==
  ASSUME IInv, NEW d \in Calls, Receive(d) \/ Handle(d)
  PROVE  OneStorer' /\ RoutedOnce'
<1>0. /\ OneStorer /\ RoutedOnce
      /\ at \in [Calls -> Places] /\ Of \in [Calls -> Messages] /\ stored \subseteq Messages
      /\ counted \in [Messages -> Nat] /\ routed \in [Messages -> Nat]
  BY Types DEF IInv, TypeOK
<1> USE DEF OneStorer, RoutedOnce, Storer, Deliveries, Goto
<1>1. CASE StoreMessage(d)
  <2>1. /\ at[d] = "store" /\ stored' = stored \cup {Of[d]}
        /\ at' = [at EXCEPT ![d] = IF Of[d] \in stored THEN "over" ELSE "count"]
        /\ UNCHANGED <<counted, routed>>
    BY <1>1 DEF StoreMessage
  <2>2. CASE Of[d] \in stored
    BY <1>0, <2>1, <2>2
  <2>3. CASE Of[d] \notin stored
    BY <1>0, <2>1, <2>3
  <2>4. QED
    BY <2>2, <2>3
<1>2. CASE CountMessage(d)
  <2>1. /\ at[d] = "count" /\ at' = [at EXCEPT ![d] = "opt"]
        /\ counted' = [counted EXCEPT ![Of[d]] = counted[Of[d]] + 1]
        /\ UNCHANGED <<stored, routed>>
    BY <1>2 DEF CountMessage
  <2>2. counted[Of[d]] = 0 /\ Of[d] \in stored
    BY <1>0, <2>1
  <2>3. QED
    BY <1>0, <2>1, <2>2
<1>3. CASE GiveToBots(d)
  <2>1. /\ at[d] = "answer" /\ at' = [at EXCEPT ![d] = "bots"]
        /\ routed' = [routed EXCEPT ![Of[d]] = routed[Of[d]] + 1]
        /\ UNCHANGED <<stored, counted>>
    BY <1>3 DEF GiveToBots
  <2>2. routed[Of[d]] = 0 /\ Of[d] \in stored
    BY <1>0, <2>1
  <2>3. QED
    BY <1>0, <2>1, <2>2
<1>4. CASE OptOut(d) \/ OptIn(d) \/ NoSignal(d) \/ MayNotSend(d) \/ OwnsTap(d)
  <2>1. /\ at[d] \in {"opt", "route"}
        /\ \E place \in {"over", "route", "answer"} : at' = [at EXCEPT ![d] = place]
        /\ UNCHANGED <<stored, counted, routed>>
    BY <1>4 DEF OptOut, OptIn, NoSignal, MayNotSend, OwnsTap, tables
  <2>2. QED
    BY <1>0, <2>1
<1>5. CASE Receive(d) \/ CheckDuplicate(d) \/ FindContact(d) \/ CreateContact(d)
           \/ SkipDuplicate(d) \/ FindChat(d)
  <2>1. /\ \E place \in Places \ Storer : at' = [at EXCEPT ![d] = place]
        /\ UNCHANGED <<stored, counted, routed>>
    <3>1. CASE CheckDuplicate(d)
      BY <1>0, <3>1 DEF CheckDuplicate, tables
    <3>2. CASE ~ CheckDuplicate(d)
      BY <1>5, <3>2 DEF Receive, FindContact, CreateContact, SkipDuplicate, FindChat, tables, Places
    <3>3. QED
      BY <3>1, <3>2
  <2>2. QED
    BY <1>0, <2>1
<1>6. CASE AskAi(d) \/ Answered(d) \/ AiStart(d) \/ AiSilent(d) \/ AiThinks(d) \/ AiReplies(d)
  <2>1. /\ \E place \in {"queue", "over", "think", "reply"} : at' = [at EXCEPT ![d] = place]
        /\ UNCHANGED <<stored, counted, routed>>
    BY <1>6 DEF AskAi, Answered, AiStart, AiSilent, AiThinks, AiReplies, AiLeaves, tables
  <2>2. QED
    BY <1>0, <2>1
<1>7. QED
  BY <1>1, <1>2, <1>3, <1>4, <1>5, <1>6 DEF Handle

LEMMA StorerStep ==
  ASSUME IInv, [Next]_vars
  PROVE  OneStorer' /\ RoutedOnce'
<1>0. OneStorer /\ RoutedOnce
  BY DEF IInv
<1>1. ASSUME NEW d \in Deliveries, Receive(d) \/ Handle(d) PROVE OneStorer' /\ RoutedOnce'
  BY <1>1, StorerMoves DEF Deliveries
<1>2. ASSUME UNCHANGED <<at, stored, counted, routed>> PROVE OneStorer' /\ RoutedOnce'
  BY <1>0, <1>2 DEF OneStorer, RoutedOnce
<1>3. CASE Restart
  <2>1. /\ \A d \in Deliveries : at'[d] \notin Storer
        /\ UNCHANGED <<stored, counted, routed>>
    BY <1>3 DEF Restart, tables, Storer
  <2>2. QED
    BY <1>0, <2>1 DEF OneStorer, RoutedOnce, Storer
<1>4. CASE \E c \in Calls : (EngineStep(c) \/ EngineFails(c)) /\ Rest
  BY <1>2, <1>4 DEF Rest, inVars, tables
<1>5. CASE (LockExpires /\ Rest) \/ TakeOver \/ SwitchBot \/ AllDone \/ UNCHANGED vars
  BY <1>2, <1>5 DEF Rest, TakeOver, SwitchBot, AllDone, vars, inVars, tables
<1>6. QED
  BY <1>1, <1>3, <1>4, <1>5 DEF Next

-----------------------------------------------------------------------------
(* As long as no lock has expired only its owner is inside the chatbot.    *)
LEMMA AloneEngine ==
  ASSUME IInv, NEW c \in Calls, EngineStep(c) \/ EngineFails(c)
  PROVE  AloneInside'
<1>0. /\ TypeOK /\ AloneInside
      /\ engine \in [Calls -> {"new", "lock", "out"} \cup Inside]
      /\ mine \in [Calls -> Session \cup {NoSession}]
  BY Types DEF IInv
<1> UNCHANGED late
  BY DEF EngineStep, Lock, Refused, NoBot, StartFlow, TakeInput, SaveSession, DoNode, TooDeep,
         KeepSession, ReleaseLock, EngineFails, chat
<1> SUFFICES ASSUME ~ late PROVE AloneInside'
  BY DEF AloneInside
<1> USE <1>0 DEF AloneInside, Inside, Step, chat
<1>1. CASE Lock(c)
  BY <1>1 DEF Lock
<1>2. CASE Refused(c)
  BY <1>2 DEF Refused
<1>3. CASE NoBot(c)
  BY <1>3 DEF NoBot
<1>4. CASE StartFlow(c) \/ TakeInput(c)
  <2>1. /\ engine[c] = "load" /\ engine' = [engine EXCEPT ![c] = "save"]
        /\ \A e \in Calls : e # c => mine'[e] = mine[e]
        /\ UNCHANGED <<lock, session>>
    BY <1>4 DEF StartFlow, TakeInput
  <2>2. QED
    BY <2>1
<1>5. CASE SaveSession(c)
  BY <1>5 DEF SaveSession
<1>6. CASE DoNode(c)
  <2>1. /\ engine[c] = "run" /\ engine' = [engine EXCEPT ![c] = "keep"]
        /\ \A e \in Calls : e # c => mine'[e] = mine[e]
        /\ UNCHANGED <<lock, session>>
    BY <1>6 DEF DoNode
  <2>2. QED
    BY <2>1
<1>7. CASE TooDeep(c) \/ EngineFails(c)
  <2>1. /\ engine[c] \in Inside /\ engine' = [engine EXCEPT ![c] = "free"]
        /\ UNCHANGED <<lock, session, mine>>
    BY <1>7 DEF TooDeep, EngineFails
  <2>2. QED
    BY <2>1
<1>8. CASE KeepSession(c)
  <2>1. /\ engine[c] = "keep" /\ UNCHANGED <<lock, mine>>
        /\ \/ session' = mine[c] /\ engine' = [engine EXCEPT ![c] = "run"]
           \/ engine' = [engine EXCEPT ![c] = "free"]
    BY <1>8 DEF KeepSession
  <2>2. QED
    BY <2>1
<1>9. CASE ReleaseLock(c)
  <2>1. /\ engine[c] = "free" /\ engine' = [engine EXCEPT ![c] = "out"]
        /\ mine' = [mine EXCEPT ![c] = NoSession] /\ UNCHANGED session
    BY <1>9 DEF ReleaseLock
  <2>2. \A e \in Calls : engine'[e] \notin Inside
    BY <2>1
  <2>3. QED
    BY <2>2
<1>10. QED
  BY <1>1, <1>2, <1>3, <1>4, <1>5, <1>6, <1>7, <1>8, <1>9 DEF EngineStep

LEMMA AloneStep ==
  ASSUME IInv, [Next]_vars
  PROVE  AloneInside'
<1>0. AloneInside /\ engine \in [Calls -> {"new", "lock", "out"} \cup Inside]
  BY Types DEF IInv
<1>1. ASSUME NEW d \in Deliveries, Receive(d) \/ Handle(d) PROVE AloneInside'
  <2>1. CASE GiveToBots(d)
    BY <1>0, <1>1, <2>1, CallsTheBots DEF AloneInside, Inside, Deliveries
  <2>2. CASE ~ GiveToBots(d)
    BY <1>0, <1>1, <2>2, OthersKeepFlow DEF AloneInside, flowVars, calls, chat
  <2>3. QED
    BY <2>1, <2>2
<1>2. ASSUME NEW c \in Calls, EngineStep(c) \/ EngineFails(c) PROVE AloneInside'
  BY <1>2, AloneEngine
<1>3. CASE LockExpires
  BY <1>3 DEF LockExpires, AloneInside
<1>4. CASE TakeOver \/ SwitchBot \/ AllDone \/ UNCHANGED vars
  BY <1>0, <1>4 DEF TakeOver, SwitchBot, AllDone, AloneInside, vars, flowVars, calls, chat
<1>5. CASE Restart
  <2>1. /\ \A c \in Calls : engine'[c] \notin Inside
        /\ \A c \in Calls : engine'[c] # "run"
    BY <1>5 DEF Restart, Inside
  <2>2. QED
    BY <2>1 DEF AloneInside
<1>6. QED
  BY <1>1, <1>2, <1>3, <1>4, <1>5 DEF Next

-----------------------------------------------------------------------------
(* The AI agent's chain.  Whoever is thought about or replied to is at its *)
(* head, so that no other can leave it.                                    *)
LEMMA Leaving ==
  ASSUME NEW s \in Seq(Calls), s # << >>,
         \A i, j \in 1 .. Len(s) : s[i] = s[j] => i = j
  PROVE  /\ Tail(s) \in Seq(Calls) /\ Len(Tail(s)) = Len(s) - 1
         /\ \A i \in 1 .. Len(Tail(s)) : Tail(s)[i] = s[i + 1]
         /\ \A i, j \in 1 .. Len(Tail(s)) : Tail(s)[i] = Tail(s)[j] => i = j
         /\ \A d : d # Head(s) /\ (\E i \in 1 .. Len(s) : s[i] = d)
                  => \E i \in 1 .. Len(Tail(s)) : Tail(s)[i] = d
         /\ ~ \E i \in 1 .. Len(Tail(s)) : Tail(s)[i] = Head(s)
<1>1. /\ Tail(s) \in Seq(Calls) /\ Len(Tail(s)) = Len(s) - 1
      /\ \A i \in 1 .. Len(Tail(s)) : Tail(s)[i] = s[i + 1]
      /\ Head(s) = s[1] /\ Len(s) \in Nat /\ Len(s) > 0
  OBVIOUS
<1>2. \A i, j \in 1 .. Len(Tail(s)) : Tail(s)[i] = Tail(s)[j] => i = j
  BY <1>1
<1>3. ASSUME NEW d, d # Head(s), NEW i \in 1 .. Len(s), s[i] = d
      PROVE  \E k \in 1 .. Len(Tail(s)) : Tail(s)[k] = d
  <2>1. i # 1 /\ i - 1 \in 1 .. Len(Tail(s)) /\ (i - 1) + 1 = i
    BY <1>1, <1>3
  <2>2. Tail(s)[i - 1] = d
    BY <1>1, <1>3, <2>1
  <2>3. QED
    BY <2>1, <2>2
<1>4. ~ \E i \in 1 .. Len(Tail(s)) : Tail(s)[i] = Head(s)
  BY <1>1
<1>5. QED
  BY <1>1, <1>2, <1>3, <1>4

LEMMA Joining ==
  ASSUME NEW s \in Seq(Calls), NEW d \in Calls,
         \A i, j \in 1 .. Len(s) : s[i] = s[j] => i = j,
         ~ \E i \in 1 .. Len(s) : s[i] = d
  PROVE  /\ \A i, j \in 1 .. Len(Append(s, d)) : Append(s, d)[i] = Append(s, d)[j] => i = j
         /\ \A e : (\E i \in 1 .. Len(Append(s, d)) : Append(s, d)[i] = e)
                  <=> e = d \/ \E i \in 1 .. Len(s) : s[i] = e
         /\ s # << >> => Append(s, d) # << >> /\ Head(Append(s, d)) = Head(s)
<1>1. /\ Len(Append(s, d)) = Len(s) + 1 /\ Len(s) \in Nat
      /\ \A i \in 1 .. Len(s) : Append(s, d)[i] = s[i]
      /\ Append(s, d)[Len(s) + 1] = d
  OBVIOUS
<1>2. \A i, j \in 1 .. Len(Append(s, d)) : Append(s, d)[i] = Append(s, d)[j] => i = j
  BY <1>1
<1>3. ASSUME NEW e
      PROVE  (\E i \in 1 .. Len(Append(s, d)) : Append(s, d)[i] = e)
               <=> e = d \/ \E i \in 1 .. Len(s) : s[i] = e
  <2>1. \A i \in 1 .. Len(s) + 1 : i \in 1 .. Len(s) \/ i = Len(s) + 1
    BY <1>1
  <2>2. Len(s) + 1 \in 1 .. Len(s) + 1 /\ \A i \in 1 .. Len(s) : i \in 1 .. Len(s) + 1
    BY <1>1
  <2>3. QED
    BY <1>1, <2>1, <2>2
<1>4. s # << >> => Append(s, d) # << >> /\ Head(Append(s, d)) = Head(s)
  BY <1>1
<1>5. QED
  BY <1>2, <1>3, <1>4

LEMMA TurnsMove ==
  ASSUME IInv, NEW d \in Calls, Receive(d) \/ Handle(d)
  PROVE  ChainIsQueue' /\ AiInTurn'
<1>0. /\ TypeOK /\ ChainIsQueue /\ AiInTurn
      /\ at \in [Calls -> Places] /\ chain \in Seq(Calls)
  BY Types DEF IInv
<1> USE DEF ChainIsQueue, AiInTurn, Deliveries, Waiting
<1>1. CASE AskAi(d)
  <2>1. at[d] = "bots" /\ chain' = Append(chain, d) /\ at' = [at EXCEPT ![d] = "queue"]
    BY <1>1 DEF AskAi, Goto
  <2>2. ~ \E i \in 1 .. Len(chain) : chain[i] = d
    BY <1>0, <2>1
  <2>3. /\ \A i, j \in 1 .. Len(chain') : chain'[i] = chain'[j] => i = j
        /\ \A e : (\E i \in 1 .. Len(chain') : chain'[i] = e)
                 <=> e = d \/ \E i \in 1 .. Len(chain) : chain[i] = e
        /\ chain # << >> => chain' # << >> /\ Head(chain') = Head(chain)
    BY <1>0, <2>1, <2>2, Joining
  <2>4. QED
    BY <1>0, <2>1, <2>3
<1>2. CASE AiSilent(d) \/ AiReplies(d)
  <2>1. at[d] \in Waiting /\ chain' = Tail(chain) /\ at' = [at EXCEPT ![d] = "over"]
    BY <1>2 DEF AiSilent, AiReplies, AiLeaves, Goto
  <2>2. chain # << >>
    BY <1>0, <2>1
  <2>3. Head(chain) = d
    BY <1>0, <1>2 DEF AiSilent, AiReplies
  <2>4. /\ \A i, j \in 1 .. Len(chain') : chain'[i] = chain'[j] => i = j
        /\ \A e : e # d /\ (\E i \in 1 .. Len(chain) : chain[i] = e)
                 => \E i \in 1 .. Len(chain') : chain'[i] = e
        /\ ~ \E i \in 1 .. Len(chain') : chain'[i] = d
        /\ \A i \in 1 .. Len(chain') : \E k \in 1 .. Len(chain) : chain'[i] = chain[k]
    <3>1. /\ Len(chain') = Len(chain) - 1 /\ Len(chain) \in Nat
          /\ \A i \in 1 .. Len(chain') : chain'[i] = chain[i + 1]
      BY <1>0, <2>1, <2>2, Leaving
    <3>2. \A i \in 1 .. Len(chain') : i + 1 \in 1 .. Len(chain)
      BY <3>1
    <3>3. \A i \in 1 .. Len(chain') : \E k \in 1 .. Len(chain) : chain'[i] = chain[k]
      BY <3>1, <3>2
    <3>4. /\ \A e : e # Head(chain) /\ (\E i \in 1 .. Len(chain) : chain[i] = e)
                   => \E i \in 1 .. Len(Tail(chain)) : Tail(chain)[i] = e
          /\ ~ \E i \in 1 .. Len(Tail(chain)) : Tail(chain)[i] = Head(chain)
          /\ \A i, j \in 1 .. Len(Tail(chain)) : Tail(chain)[i] = Tail(chain)[j] => i = j
      BY <1>0, <2>2, Leaving
    <3>5. QED
      BY <2>1, <2>3, <3>3, <3>4
  <2>5. \A e \in Calls : e # d => at'[e] = at[e] /\ at[e] \notin {"think", "reply"}
    BY <1>0, <2>1, <2>3
  <2>6. at'[d] = "over"
    BY <1>0, <2>1
  <2>7. ASSUME NEW e \in Calls
        PROVE  at'[e] \in Waiting <=> \E i \in 1 .. Len(chain') : chain'[i] = e
    <3>1. CASE e = d
      BY <2>4, <2>6, <3>1
    <3>2. CASE e # d
      <4>1. at'[e] \in Waiting <=> \E i \in 1 .. Len(chain) : chain[i] = e
        BY <1>0, <2>5, <3>2
      <4>2. (\E i \in 1 .. Len(chain) : chain[i] = e) <=> \E i \in 1 .. Len(chain') : chain'[i] = e
        BY <2>4, <3>2
      <4>3. QED
        BY <4>1, <4>2
    <3>3. QED
      BY <3>1, <3>2
  <2>8. AiInTurn'
    BY <2>5, <2>6
  <2>9. QED
    BY <2>4, <2>7, <2>8
<1>3. CASE AiStart(d)
  <2>1. /\ at[d] = "queue" /\ Head(chain) = d
        /\ at' = [at EXCEPT ![d] = "think"] /\ UNCHANGED chain
    BY <1>3 DEF AiStart, Goto
  <2>2. chain # << >>
    BY <1>0, <2>1
  <2>3. QED
    BY <1>0, <2>1, <2>2
<1>4. CASE AiThinks(d)
  BY <1>0, <1>4 DEF AiThinks, Goto
<1>5. CASE Receive(d) \/ CheckDuplicate(d) \/ FindContact(d) \/ CreateContact(d)
           \/ SkipDuplicate(d) \/ FindChat(d) \/ StoreMessage(d) \/ CountMessage(d)
           \/ OptOut(d) \/ OptIn(d) \/ NoSignal(d) \/ MayNotSend(d) \/ OwnsTap(d)
           \/ GiveToBots(d) \/ Answered(d)
  <2>1. at[d] \notin Waiting /\ UNCHANGED chain
    BY <1>5
    DEF Receive, CheckDuplicate, FindContact, CreateContact, SkipDuplicate, FindChat,
        StoreMessage, CountMessage, OptOut, OptIn, NoSignal, MayNotSend, OwnsTap, GiveToBots,
        Answered
  <2>2. \E place \in Places \ Waiting : at' = [at EXCEPT ![d] = place]
    <3>1. CASE CheckDuplicate(d)
      BY <1>0, <2>1, <3>1 DEF CheckDuplicate
    <3>2. CASE ~ CheckDuplicate(d)
      BY <1>5, <3>2
      DEF Goto, Places, Receive, FindContact, CreateContact, SkipDuplicate, FindChat,
          StoreMessage, CountMessage, OptOut, OptIn, NoSignal, MayNotSend, OwnsTap, GiveToBots,
          Answered
    <3>3. QED
      BY <3>1, <3>2
  <2>3. QED
    BY <1>0, <2>1, <2>2
<1>6. QED
  BY <1>1, <1>2, <1>3, <1>4, <1>5 DEF Handle

LEMMA TurnsStep ==
  ASSUME IInv, [Next]_vars
  PROVE  ChainIsQueue' /\ AiInTurn'
<1>0. ChainIsQueue /\ AiInTurn
  BY DEF IInv
<1>1. ASSUME NEW d \in Deliveries, Receive(d) \/ Handle(d) PROVE ChainIsQueue' /\ AiInTurn'
  BY <1>1, TurnsMove DEF Deliveries
<1>2. ASSUME UNCHANGED <<at, chain>> PROVE ChainIsQueue' /\ AiInTurn'
  BY <1>0, <1>2 DEF ChainIsQueue, AiInTurn
<1>3. CASE Restart
  <2>1. chain' = << >> /\ \A d \in Deliveries : at'[d] \in {"new", "over"}
    BY <1>3 DEF Restart
  <2>2. Len(chain') = 0
    BY <2>1
  <2>3. QED
    BY <2>1, <2>2 DEF ChainIsQueue, AiInTurn, Waiting
<1>4. CASE \E c \in Calls : (EngineStep(c) \/ EngineFails(c)) /\ Rest
  BY <1>2, <1>4 DEF Rest, inVars
<1>5. CASE (LockExpires /\ Rest) \/ TakeOver \/ SwitchBot \/ AllDone \/ UNCHANGED vars
  BY <1>2, <1>5 DEF Rest, TakeOver, SwitchBot, AllDone, vars, inVars
<1>6. QED
  BY <1>1, <1>3, <1>4, <1>5 DEF Next

-----------------------------------------------------------------------------
LEMMA IInit == Init => IInv
<1> SUFFICES ASSUME Init PROVE IInv
  OBVIOUS
<1>1. FlowTypeOK
  BY Numbers DEF Init, FlowInit, FlowTypeOK
<1>2. << >> \in Seq(Deliveries) /\ Len(<< >>) = 0
  OBVIOUS
<1>3. TypeOK
  <2>1. /\ at \in [Deliveries -> Places] /\ dup \in [Deliveries -> {"unread", "no", "yes"}]
        /\ paused \in [Deliveries -> BOOLEAN] /\ byFlow \in [Deliveries -> BOOLEAN]
        /\ ran \in [Deliveries -> BOOLEAN]
    BY DEF Init, Places
  <2>2. /\ counted \in [Messages -> Nat] /\ routed \in [Messages -> Nat]
        /\ stored \subseteq Messages /\ used \in Nat /\ human \in BOOLEAN
    BY DEF Init
  <2>3. /\ contact \in {"none", "ACTIVE", "UNSUBSCRIBED"}
        /\ chain \in Seq(Deliveries) /\ upsets \in 0 .. MaxUpsets
    BY <1>2, InboundAssumption DEF Init
  <2>4. QED
    BY <1>1, <2>1, <2>2, <2>3 DEF TypeOK
<1>4. Fresh /\ Asking /\ Walking
  BY DEF Init, FlowInit, Fresh, Asking, Walking, Deliveries
<1>5. OneStorer /\ RoutedOnce
  BY InboundAssumption DEF Init, OneStorer, RoutedOnce, Storer
<1>6. AloneInside
  BY DEF Init, FlowInit, AloneInside, Inside
<1>7. ChainIsQueue /\ AiInTurn
  BY <1>2 DEF Init, ChainIsQueue, AiInTurn, Waiting
<1>8. QED
  BY <1>3, <1>4, <1>5, <1>6, <1>7 DEF IInv

LEMMA Invariance == Spec => []IInv
<1>1. IInv /\ [Next]_vars => IInv'
  BY TypeStep, FreshStep, AskingStep, WalkingStep, StorerStep, AloneStep, TurnsStep DEF IInv
<1>2. QED
  BY IInit, <1>1, PTL DEF Spec

(* The variables of webhook, chatbot and AI agent keep their types.        *)
THEOREM TypeCorrect == Spec => []TypeOK
BY Invariance, PTL DEF IInv

(* However often Meta delivers a message, and whoever stores it first, it  *)
(* is counted and handed to the bots at most once.                         *)
THEOREM RoutedAtMostOnce == Spec => []RoutedOnce
BY Invariance, PTL DEF IInv

(* Until a flow outlasts its lock one call at a time walks through the     *)
(* bot, and with the session that is stored.                               *)
THEOREM SessionHasOneOwner == Spec => []SessionOwned
<1>1. ASSUME IInv PROVE SessionOwned
  <2> SUFFICES ASSUME ~ late
               PROVE  Cardinality({c \in Calls : engine[c] \in Inside}) <= 1
    BY <1>1 DEF IInv, AloneInside, SessionOwned
  <2>1. \A c, e \in Calls : engine[c] \in Inside /\ engine[e] \in Inside => c = e
    BY <1>1 DEF IInv, AloneInside
  <2>2. CASE {c \in Calls : engine[c] \in Inside} = {}
    BY <2>2, FS_EmptySet
  <2>3. CASE {c \in Calls : engine[c] \in Inside} # {}
    <3>1. PICK c \in Calls : engine[c] \in Inside
      BY <2>3
    <3>2. {e \in Calls : engine[e] \in Inside} = {c}
      BY <2>1, <3>1
    <3>3. QED
      BY <3>2, FS_Singleton
  <2>4. QED
    BY <2>2, <2>3
<1>2. QED
  BY <1>1, Invariance, PTL

(* The AI agent answers a chat's messages one after the other.             *)
THEOREM AiAnswersInTurn == Spec => []AiInTurn
BY Invariance, PTL DEF IInv
=============================================================================
