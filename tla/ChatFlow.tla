------------------------------ MODULE ChatFlow ------------------------------
(***************************************************************************)
(* modules/chatbot: one chat and one bot.  An engine call takes the chat's *)
(* lock, reads its session, and walks the bot's flow from node to node,    *)
(* writing the session after each, until a node waits for the customer.    *)
(* Lock and sessions live in the process (config/redis.ts is a map in      *)
(* memory).  The calls come from Inbound, which extends this module.       *)
(***************************************************************************)
EXTENDS Integers, FiniteSets

CONSTANTS
  Calls,      \* calls of processMessage
  Flow,       \* node -> [kind, next]: the nodes an edge leads to
  First,      \* the node after the start node
  NoNode,     \* the node of no session
  MaxDepth,   \* nodes one call may go through (30)
  Tries       \* how often a call asks for the lock (3)

Nodes == DOMAIN Flow
Kinds == {"message", "step", "condition", "ask", "button", "ai", "end"}

ASSUME FlowAssumption ==
  /\ Flow \in [Nodes -> [kind : Kinds, next : SUBSET Nodes]]
  /\ First \in Nodes
  /\ NoNode \notin Nodes
  /\ MaxDepth \in Nat
  /\ Tries \in Nat \ {0}

VARIABLES
  lock,     \* chatbot:lock of the chat; it does not say whose it is
  session,  \* chatbot:session of the chat
  late,     \* a call has outlasted its lock (30 s)
  bot,      \* the bot is ACTIVE
  engine,   \* where each call is
  tries,    \* how often it may still ask for the lock
  mine,     \* the session in its hands
  keep,     \* what it does with it next
  depth,    \* nodes it has gone through
  handled   \* what it returned

chat == <<lock, session, late>>
calls == <<engine, tries, mine, keep, depth, handled>>
flowVars == <<chat, bot, calls>>

Session == [node : Nodes, waiting : BOOLEAN, ai : BOOLEAN]
NoSession == [node |-> NoNode, waiting |-> FALSE, ai |-> FALSE]
At(n) == [node |-> n, waiting |-> FALSE, ai |-> FALSE]

(* The stages between taking the lock and giving it back.                  *)
Inside == {"load", "save", "run", "keep", "free"}

FlowTypeOK ==
  /\ lock \in BOOLEAN
  /\ session \in Session \cup {NoSession}
  /\ late \in BOOLEAN /\ bot \in BOOLEAN
  /\ engine \in [Calls -> {"new", "lock", "out"} \cup Inside]
  /\ tries \in [Calls -> 0 .. Tries]
  /\ mine \in [Calls -> Session \cup {NoSession}]
  /\ keep \in [Calls -> {"go", "stop", "leave", "delete"}]
  /\ depth \in [Calls -> 0 .. MaxDepth + 1]
  /\ handled \in [Calls -> BOOLEAN]

FlowInit ==
  /\ lock = FALSE /\ session = NoSession /\ late = FALSE /\ bot = TRUE
  /\ engine = [c \in Calls |-> "new"]
  /\ tries = [c \in Calls |-> Tries]
  /\ mine = [c \in Calls |-> NoSession]
  /\ keep = [c \in Calls |-> "stop"]
  /\ depth = [c \in Calls |-> 0]
  /\ handled = [c \in Calls |-> FALSE]

-----------------------------------------------------------------------------
Step(c, place) == engine' = [engine EXCEPT ![c] = place]

Return(c, answer) == handled' = [handled EXCEPT ![c] = answer]

LockAnyway(c) ==
  /\ engine[c] = "lock"
  /\ lock' = TRUE
  /\ Step(c, "load")
  /\ UNCHANGED <<session, late, bot, tries, mine, keep, depth, handled>>

Lock(c) ==
  /\ engine[c] = "lock"
  /\ ~lock
  /\ lock' = TRUE
  /\ Step(c, "load")
  /\ UNCHANGED <<session, late, bot, tries, mine, keep, depth, handled>>

RefusedEndlessly(c) ==
  /\ engine[c] = "lock"
  /\ lock
  /\ tries' = [tries EXCEPT ![c] = @ - 1]
  /\ UNCHANGED <<chat, bot, engine, mine, keep, depth, handled>>

(* Half a second later it asks again; a call that is refused for the last  *)
(* time is told that the chatbot is at work already.                       *)
Refused(c) ==
  /\ engine[c] = "lock"
  /\ lock
  /\ tries' = [tries EXCEPT ![c] = @ - 1]
  /\ IF tries[c] > 1
     THEN UNCHANGED <<engine, handled>>
     ELSE Step(c, "out") /\ Return(c, TRUE)
  /\ UNCHANGED <<chat, bot, mine, keep, depth>>

(* The bot is paused or none fits: a session of it is thrown away.         *)
NoBot(c) ==
  /\ engine[c] = "load"
  /\ ~bot \/ session = NoSession
  /\ session' = NoSession
  /\ Return(c, FALSE)
  /\ Step(c, "free")
  /\ UNCHANGED <<lock, late, bot, tries, mine, keep, depth>>

(* No session, a keyword, or a new chat that is not in a flow.             *)
StartFlow(c) ==
  /\ engine[c] = "load"
  /\ bot
  /\ mine' = [mine EXCEPT ![c] = At(First)]
  /\ Step(c, "save")
  /\ UNCHANGED <<chat, bot, tries, keep, depth, handled>>

(* handleExistingSession: where an input takes the session.  A choice that *)
(* is not on the menu leaves it where it is.                               *)
Taken(s) ==
  LET node == Flow[s.node]
      on == {[s EXCEPT !.node = n, !.waiting = FALSE] : n \in node.next}
      same == [s EXCEPT !.waiting = FALSE]
  IN IF s.ai \/ ~s.waiting THEN {same}
     ELSE CASE node.kind = "ask" -> IF node.next = {} THEN {same} ELSE on
            [] node.kind = "button" -> on \cup {same}
            [] OTHER -> {same}

TakeInput(c) ==
  /\ engine[c] = "load"
  /\ bot
  /\ session # NoSession
  /\ \E s \in Taken(session) : mine' = [mine EXCEPT ![c] = s]
  /\ Step(c, "save")
  /\ UNCHANGED <<chat, bot, tries, keep, depth, handled>>

SaveSession(c) ==
  /\ engine[c] = "save"
  /\ session' = mine[c]
  /\ Step(c, "run")
  /\ UNCHANGED <<lock, late, bot, tries, mine, keep, depth, handled>>

-----------------------------------------------------------------------------
(* executeFlow: what a node makes of the session, and whether the flow     *)
(* goes on, stops there, is left unwritten (nothing follows), or is over.  *)
Onward(s, n) == [to |-> [s EXCEPT !.node = n, !.waiting = FALSE, !.ai = FALSE],
                 then |-> "go"]

Effects(s) ==
  LET node == Flow[s.node]
      on == {Onward(s, n) : n \in node.next}
  IN CASE node.kind \in {"ask", "button"} ->
            {[to |-> [s EXCEPT !.waiting = TRUE], then |-> "stop"]}
       [] node.kind = "end" \/ (node.kind = "message" /\ node.next = {}) ->
            {[to |-> s, then |-> "delete"]}
       [] node.kind = "ai" /\ node.next = {} ->
            {[to |-> [s EXCEPT !.waiting = TRUE, !.ai = TRUE], then |-> "stop"]}
       [] node.kind \in {"step", "condition"} /\ node.next = {} ->
            {[to |-> s, then |-> "leave"]}
       [] OTHER -> on

DoNode(c) ==
  /\ engine[c] = "run"
  /\ depth[c] <= MaxDepth
  /\ \E e \in Effects(mine[c]) :
       /\ mine' = [mine EXCEPT ![c] = e.to]
       /\ keep' = [keep EXCEPT ![c] = e.then]
  /\ depth' = [depth EXCEPT ![c] = @ + 1]
  /\ Step(c, "keep")
  /\ UNCHANGED <<chat, bot, tries, handled>>

(* A flow in a circle is left where it is.                                 *)
TooDeep(c) ==
  /\ engine[c] = "run"
  /\ depth[c] > MaxDepth
  /\ Return(c, TRUE)
  /\ Step(c, "free")
  /\ UNCHANGED <<chat, bot, tries, mine, keep, depth>>

KeepSession(c) ==
  /\ engine[c] = "keep"
  /\ session' = CASE keep[c] = "delete" -> NoSession
                  [] keep[c] = "leave" -> session
                  [] OTHER -> mine[c]
  /\ IF keep[c] = "go"
     THEN Step(c, "run") /\ UNCHANGED handled
     ELSE Step(c, "free") /\ Return(c, TRUE)
  /\ UNCHANGED <<lock, late, bot, tries, mine, keep, depth>>

(* Whoever holds it by now.                                                *)
ReleaseLock(c) ==
  /\ engine[c] = "free"
  /\ lock' = FALSE
  /\ Step(c, "out")
  /\ mine' = [mine EXCEPT ![c] = NoSession]
  /\ keep' = [keep EXCEPT ![c] = "stop"]
  /\ depth' = [depth EXCEPT ![c] = 0]
  /\ tries' = [tries EXCEPT ![c] = Tries]
  /\ UNCHANGED <<session, late, bot, handled>>

EngineFails(c) ==
  /\ engine[c] \in {"load", "save", "run", "keep"}
  /\ Return(c, FALSE)
  /\ Step(c, "free")
  /\ UNCHANGED <<chat, bot, tries, mine, keep, depth>>

(* The lock lives for 30 seconds, a flow with delays may take longer.      *)
LockExpires ==
  /\ lock
  /\ lock' = FALSE
  /\ late' = TRUE
  /\ UNCHANGED <<session, bot, calls>>

EngineStep(c) ==
  \/ Lock(c) \/ Refused(c) \/ NoBot(c) \/ StartFlow(c) \/ TakeInput(c)
  \/ SaveSession(c) \/ DoNode(c) \/ TooDeep(c) \/ KeepSession(c)
  \/ ReleaseLock(c)

-----------------------------------------------------------------------------
(* As long as no flow outlasts its lock, one call at a time walks through  *)
(* the bot, and with the session that is stored: the customer is not       *)
(* answered twice from one node, and nothing another call has written is   *)
(* overwritten from an old copy.                                           *)
SessionOwned ==
  late \/ /\ Cardinality({c \in Calls : engine[c] \in Inside}) <= 1
          /\ \A c \in Calls : engine[c] = "run" => session = mine[c]
=============================================================================
