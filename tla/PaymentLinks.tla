---------------------------- MODULE PaymentLinks ----------------------------
(***************************************************************************)
(* modules/payments: links through which the customers of a client pay on  *)
(* the client's own Razorpay account.  That a link was paid, has expired   *)
(* or was cancelled is heard from the client's webhook, from an employee   *)
(* who refreshes the payment and from the scheduler, which asks for the    *)
(* links it has not asked for longest.  All three act on an answer that    *)
(* may be old by then.                                                     *)
(***************************************************************************)
EXTENDS Naturals, Sequences, FiniteSets, SequencesExt

CONSTANTS
  Links,
  NoLink,      \* the link of a caller that has none
  Requests,    \* requests and webhook events being handled
  Poller,      \* the scheduler's run, one at a time (JobLock)
  Batch,       \* links asked for in one run (50)
  FollowUps,   \* what markPaid does once the row says PAID, in this order
  MaxUpsets    \* bound: errors, restarts, changes of gateway

ASSUME LinksAssumption ==
  /\ NoLink \notin Links
  /\ Poller \notin Requests
  /\ Batch \in Nat \ {0}
  /\ FollowUps \in Seq({"lead", "receipt", "notify", "trigger"}) /\ FollowUps # << >>
  /\ \A i, j \in DOMAIN FollowUps : FollowUps[i] = FollowUps[j] => i = j
  /\ MaxUpsets \in Nat

Callers == Requests \cup {Poller}

Effects == ToSet(FollowUps)

VARIABLES
  link,     \* the links at Razorpay
  row,      \* LeadPayment.status
  over,     \* links past their expiresAt
  asked,    \* links with a lastCheckedAt, the oldest first
  recent,   \* links whose lastCheckedAt is less than three minutes old
  gateway,  \* links whose client has a PaymentGateway
  at,       \* where each caller is
  of,       \* the link it deals with
  answer,   \* what it has heard of it
  poll,     \* how far the scheduler's run has come
  list,     \* the links it has still to ask for
  done,     \* how often each effect followed the payment of each link
  upsets

table == <<row, over, asked, recent>>
callers == <<at, of, answer>>
polling == <<poll, list>>
vars == <<link, table, gateway, callers, polling, done, upsets>>

LinkStatus == {"none", "open", "paid", "expired", "cancelled"}
Final == {"paid", "expired", "cancelled"}

TypeOK ==
  /\ link \in [Links -> LinkStatus]
  /\ row \in [Links -> {"none", "PENDING", "PAID", "EXPIRED", "CANCELLED"}]
  /\ over \subseteq Links /\ recent \subseteq Links /\ gateway \subseteq Links
  /\ asked \in Seq(Links)
  /\ at \in [Callers -> {"idle", "insert", "fetch", "note", "act"} \cup Effects]
  /\ of \in [Callers -> Links \cup {NoLink}]
  /\ answer \in [Callers -> LinkStatus]
  /\ poll \in {"idle", "list", "work"}
  /\ list \subseteq Links
  /\ done \in [Links -> [Effects -> Nat]]
  /\ upsets \in 0 .. MaxUpsets

Init ==
  /\ link = [l \in Links |-> "none"]
  /\ row = [l \in Links |-> "none"]
  /\ over = {} /\ asked = << >> /\ recent = {}
  /\ gateway = Links
  /\ at = [c \in Callers |-> "idle"]
  /\ of = [c \in Callers |-> NoLink]
  /\ answer = [c \in Callers |-> "none"]
  /\ poll = "idle" /\ list = {}
  /\ done = [l \in Links |-> [e \in Effects |-> 0]]
  /\ upsets = 0

-----------------------------------------------------------------------------
Upset == upsets < MaxUpsets /\ upsets' = upsets + 1

Goto(c, place) == at' = [at EXCEPT ![c] = place]

Begin(c, place, l, heard) ==
  /\ at[c] = "idle"
  /\ Goto(c, place)
  /\ of' = [of EXCEPT ![c] = l]
  /\ answer' = [answer EXCEPT ![c] = heard]

Return(c) ==
  /\ Goto(c, "idle")
  /\ of' = [of EXCEPT ![c] = NoLink]
  /\ answer' = [answer EXCEPT ![c] = "none"]

(* createPaymentLink: first at Razorpay, then in the table.  That the link *)
(* is sent to the customer changes no row.                                 *)
Create(c, l) ==
  /\ c \in Requests
  /\ link[l] = "none" /\ l \in gateway
  /\ link' = [link EXCEPT ![l] = "open"]
  /\ Begin(c, "insert", l, "none")
  /\ UNCHANGED <<table, gateway, polling, done, upsets>>

Insert(c) ==
  /\ at[c] = "insert"
  /\ row' = [row EXCEPT ![of[c]] = "PENDING"]
  /\ Return(c)
  /\ UNCHANGED <<link, over, asked, recent, gateway, polling, done, upsets>>

(* Razorpay: the customer pays, the client cancels, or time runs out.      *)
EndLink(l) ==
  /\ link[l] = "open"
  /\ \E end \in Final :
       /\ end = "expired" => l \in over
       /\ link' = [link EXCEPT ![l] = end]
  /\ UNCHANGED <<table, gateway, callers, polling, done, upsets>>

-----------------------------------------------------------------------------
(* Razorpay's event of what became of a link comes at any time, once, more *)
(* than once or never: the webhook has answered 200 before it begins.  An  *)
(* event for a link of no known payment is ignored.                        *)
Deliver(c, l) ==
  /\ c \in Requests
  /\ link[l] \in Final
  /\ l \in gateway /\ row[l] # "none"
  /\ Begin(c, "act", l, link[l])
  /\ UNCHANGED <<link, table, gateway, polling, done, upsets>>

(* syncPayment, by hand.                                                   *)
Refresh(c, l) ==
  /\ c \in Requests
  /\ row[l] = "PENDING"
  /\ Begin(c, "fetch", l, "none")
  /\ UNCHANGED <<link, table, gateway, polling, done, upsets>>

(* Without a gateway there is no client to ask with: nothing is noted.     *)
NoGateway(c) ==
  /\ at[c] = "fetch"
  /\ of[c] \notin gateway
  /\ Return(c)
  /\ UNCHANGED <<link, table, gateway, polling, done, upsets>>

Fetch(c) ==
  /\ at[c] = "fetch"
  /\ of[c] \in gateway
  /\ answer' = [answer EXCEPT ![c] = link[of[c]]]
  /\ Goto(c, "note")
  /\ UNCHANGED <<link, table, gateway, of, polling, done, upsets>>

FetchFails(c) ==
  /\ at[c] = "fetch"
  /\ of[c] \in gateway
  /\ Upset
  /\ Goto(c, "note")
  /\ UNCHANGED <<link, table, gateway, of, answer, polling, done>>

(* lastCheckedAt is written whether Razorpay has answered or not.          *)
Place(l) == IF l \in ToSet(asked) THEN CHOOSE i \in DOMAIN asked : asked[i] = l ELSE 0

Without(l) == IF Place(l) > 0 THEN RemoveAt(asked, Place(l)) ELSE asked

NotedIfAnswered(c) == IF answer[c] \in Final THEN Append(Without(of[c]), of[c]) ELSE asked
Noted(c) == Append(Without(of[c]), of[c])

NoteAsked(c) ==
  /\ at[c] = "note"
  /\ asked' = Noted(c)
  /\ recent' = recent \cup {of[c]}
  /\ IF answer[c] \in Final
     THEN Goto(c, "act") /\ UNCHANGED <<of, answer>>
     ELSE Return(c)
  /\ UNCHANGED <<link, row, over, gateway, polling, done, upsets>>

(* markPaid: the first to write PAID wins, also over EXPIRED and CANCELLED.*)
WinsAlways(l) == TRUE
Wins(l) == row[l] # "PAID"

MarkPaid(c) ==
  /\ at[c] = "act" /\ answer[c] = "paid"
  /\ IF Wins(of[c])
     THEN /\ row' = [row EXCEPT ![of[c]] = "PAID"]
          /\ Goto(c, Head(FollowUps))
          /\ UNCHANGED <<of, answer>>
     ELSE Return(c) /\ UNCHANGED row
  /\ UNCHANGED <<link, over, asked, recent, gateway, polling, done, upsets>>

Close(c) ==
  /\ at[c] = "act" /\ answer[c] \in {"expired", "cancelled"}
  /\ row' = IF row[of[c]] # "PENDING" THEN row
            ELSE [row EXCEPT ![of[c]] = IF answer[c] = "expired" THEN "EXPIRED" ELSE "CANCELLED"]
  /\ Return(c)
  /\ UNCHANGED <<link, over, asked, recent, gateway, polling, done, upsets>>

GoOn(c) ==
  IF at[c] = Last(FollowUps) THEN Return(c)
  ELSE /\ \E i \in DOMAIN FollowUps : at[c] = FollowUps[i] /\ Goto(c, FollowUps[i + 1])
       /\ UNCHANGED <<of, answer>>

(* The lead is won, the customer thanked, the team told, automations       *)
(* started; one that fails is logged and the next is done.                 *)
FollowUp(c) ==
  /\ at[c] \in Effects
  /\ done' = [done EXCEPT ![of[c]][at[c]] = @ + 1]
  /\ GoOn(c)
  /\ UNCHANGED <<link, table, gateway, polling, upsets>>

FollowUpFails(c) ==
  /\ at[c] \in Effects
  /\ Upset
  /\ GoOn(c)
  /\ UNCHANGED <<link, table, gateway, polling, done>>

-----------------------------------------------------------------------------
(* pollPendingPayments: links whose time is up are closed unasked,         *)
Lapsing == {l \in over : row[l] = "PENDING"}

PollExpire ==
  /\ poll = "idle"
  /\ row' = [l \in Links |-> IF l \in Lapsing THEN "EXPIRED" ELSE row[l]]
  /\ poll' = "list"
  /\ UNCHANGED <<link, over, asked, recent, gateway, callers, list, done, upsets>>

(* then come those never asked for, then those asked for longest ago.      *)
Due == {l \in Links : row[l] = "PENDING" /\ l \notin recent}

PollList ==
  /\ poll = "list"
  /\ \E chosen \in SUBSET Due :
       /\ Cardinality(chosen) = Batch \/ chosen = Due
       /\ Cardinality(chosen) <= Batch
       /\ \A k \in chosen, l \in Due \ chosen : Place(k) <= Place(l)
       /\ list' = chosen
  /\ poll' = "work"
  /\ UNCHANGED <<link, table, gateway, callers, done, upsets>>

PollNext(l) ==
  /\ poll = "work" /\ l \in list
  /\ at[Poller] = "idle"
  /\ list' = list \ {l}
  /\ IF row[l] = "PENDING" THEN Begin(Poller, "fetch", l, "none") ELSE UNCHANGED callers
  /\ UNCHANGED <<link, table, gateway, poll, done, upsets>>

PollDone ==
  /\ poll = "work" /\ list = {}
  /\ at[Poller] = "idle"
  /\ poll' = "idle"
  /\ UNCHANGED <<link, table, gateway, callers, list, done, upsets>>

-----------------------------------------------------------------------------
(* Three minutes, and the time of the link.                                *)
Ages(l) ==
  /\ l \in recent
  /\ recent' = recent \ {l}
  /\ UNCHANGED <<link, row, over, asked, gateway, callers, polling, done, upsets>>

TimeIsUp(l) ==
  /\ row[l] # "none" /\ l \notin over
  /\ over' = over \cup {l}
  /\ UNCHANGED <<link, row, asked, recent, gateway, callers, polling, done, upsets>>

Disconnect(l) ==
  /\ Upset
  /\ gateway' = gateway \ {l}
  /\ UNCHANGED <<link, table, callers, polling, done>>

Connect(l) ==
  /\ gateway' = gateway \cup {l}
  /\ UNCHANGED <<link, table, callers, polling, done, upsets>>

Crash ==
  /\ Upset
  /\ at' = [c \in Callers |-> "idle"]
  /\ of' = [c \in Callers |-> NoLink]
  /\ answer' = [c \in Callers |-> "none"]
  /\ poll' = "idle" /\ list' = {}
  /\ UNCHANGED <<link, table, gateway, done>>

-----------------------------------------------------------------------------
CallerStep(c) ==
  Insert(c) \/ NoGateway(c) \/ Fetch(c) \/ NoteAsked(c) \/ MarkPaid(c) \/ Close(c)
    \/ FollowUp(c)

PollStep == PollExpire \/ PollList \/ (\E l \in list : PollNext(l)) \/ PollDone

Next ==
  \/ \E c \in Callers : CallerStep(c) \/ FetchFails(c) \/ FollowUpFails(c)
  \/ \E c \in Requests, l \in Links : Create(c, l) \/ Refresh(c, l) \/ Deliver(c, l)
  \/ \E l \in Links : EndLink(l) \/ Ages(l) \/ TimeIsUp(l) \/ Disconnect(l) \/ Connect(l)
  \/ PollStep
  \/ Crash

Spec == Init /\ [][Next]_vars

(* What has begun goes on, the scheduler runs every three minutes, and     *)
(* time passes; nobody has to refresh, pay or deliver anything.            *)
FairSpec ==
  /\ Spec
  /\ \A c \in Callers : WF_vars(CallerStep(c))
  /\ WF_vars(PollStep)
  /\ \A l \in Links : WF_vars(Ages(l))

-----------------------------------------------------------------------------
(* "webhook and polling can both confirm the same payment, so confirmation *)
(* must happen exactly once" (payments.test.ts): whoever hears what, how   *)
(* late, and in which order, the row tells what became of the link and the *)
(* effects follow once (SettledLinks).                                     *)
ImplementsLinks == INSTANCE SettledLinks
TellsOnce == ImplementsLinks!LinksSpec

(* Payments whose event never came are found by asking: however many links *)
(* wait, each has its turn, before its own time is up and as long as every *)
(* client has a gateway.                                                   *)
PaidIsSeen ==
  \A l \in Links :
    link[l] = "paid" /\ row[l] = "PENDING"
      ~> row[l] = "PAID" \/ l \in over \/ gateway # Links
=============================================================================
