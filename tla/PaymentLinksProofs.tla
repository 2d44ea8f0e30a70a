------------------------- MODULE PaymentLinksProofs -------------------------
(***************************************************************************)
(* Theorems about payment links, and about the lock under which they are   *)
(* asked for, for any number of links, requests and runs.                  *)
(*                                                                         *)
(* Payment links: the row tells what became of the link, and the effects   *)
(* of a payment follow it once.  The invariant says what a caller carries  *)
(* with it: an answer about a link that is over stays true, and who won    *)
(* the row is alone with the effects that are still to come.               *)
(***************************************************************************)
EXTENDS PaymentLinks, JobLock, TLAPS

(* A caller at work deals with a link, and but for the one that creates it *)
(* with one that has a row.                                                *)
Busy ==
  \A c \in Callers : at[c] # "idle" =>
    /\ of[c] \in Links
    /\ at[c] # "insert" => row[of[c]] # "none"

(* A link is put in the table by the caller that created it.               *)
OneCreator ==
  /\ \A l \in Links : link[l] = "none" => row[l] = "none"
  /\ \A c \in Callers : at[c] = "insert" => link[of[c]] # "none" /\ row[of[c]] = "none"
  /\ \A c, e \in Callers : at[c] = "insert" /\ at[e] = "insert" /\ of[c] = of[e] => c = e

(* However old an answer is, a link that was over then is so now.          *)
AnswersHold ==
  \A c \in Callers : answer[c] \in Final => of[c] \in Links /\ link[of[c]] = answer[c]

(* Nothing follows a payment that is not shown; one caller does what       *)
(* follows, and what it has still to do has not been done.                 *)
NothingFollows == \A l \in Links : row[l] # "PAID" => \A e \in Effects : done[l][e] = 0

OneFollows ==
  /\ \A c \in Callers : at[c] \in Effects => row[of[c]] = "PAID"
  /\ \A c \in Callers : \A i, j \in DOMAIN FollowUps :
       at[c] = FollowUps[i] /\ i <= j => done[of[c]][FollowUps[j]] = 0
  /\ \A c, e \in Callers : at[c] \in Effects /\ at[e] \in Effects /\ of[c] = of[e] => c = e

(* A link is at most once among those asked for.                           *)
AskedOnce == \A i, j \in DOMAIN asked : asked[i] = asked[j] => i = j

LinksInv ==
  /\ TypeOK /\ Busy /\ OneCreator /\ AnswersHold /\ NothingFollows /\ OneFollows /\ AskedOnce

-----------------------------------------------------------------------------
(* What follows a payment comes in order, and is no other place of a       *)
(* caller.                                                                 *)
LEMMA FollowUpFacts ==
  /\ Len(FollowUps) \in Nat /\ Len(FollowUps) > 0 /\ DOMAIN FollowUps = 1 .. Len(FollowUps)
  /\ \A i \in DOMAIN FollowUps : FollowUps[i] \in Effects
  /\ \A e \in Effects : \E i \in DOMAIN FollowUps : FollowUps[i] = e
  /\ Head(FollowUps) = FollowUps[1] /\ 1 \in DOMAIN FollowUps
  /\ Last(FollowUps) = FollowUps[Len(FollowUps)]
  /\ Effects \cap {"idle", "insert", "fetch", "note", "act"} = {}
<1>1. /\ Len(FollowUps) \in Nat /\ Len(FollowUps) > 0 /\ DOMAIN FollowUps = 1 .. Len(FollowUps)
      /\ \A i \in DOMAIN FollowUps : FollowUps[i] \in {"lead", "receipt", "notify", "trigger"}
      /\ Head(FollowUps) = FollowUps[1]
  BY LinksAssumption
<1>2. Effects = {FollowUps[i] : i \in DOMAIN FollowUps}
  BY DEF Effects, ToSet
<1>3. Last(FollowUps) = FollowUps[Len(FollowUps)]
  BY DEF Last
<1>4. QED
  BY <1>1, <1>2, <1>3

Idle(c) ==
  /\ at' = [at EXCEPT ![c] = "idle"]
  /\ of' = [of EXCEPT ![c] = NoLink]
  /\ answer' = [answer EXCEPT ![c] = "none"]

LEMMA GoingOn ==
  ASSUME NEW c \in Callers, at[c] \in Effects, GoOn(c)
  PROVE  \/ Idle(c)
         \/ \E i \in DOMAIN FollowUps :
              /\ i + 1 \in DOMAIN FollowUps /\ at[c] = FollowUps[i]
              /\ at' = [at EXCEPT ![c] = FollowUps[i + 1]]
              /\ UNCHANGED <<of, answer>>
<1>1. CASE at[c] = Last(FollowUps)
  BY <1>1 DEF GoOn, Return, Goto, Idle
<1>2. CASE at[c] # Last(FollowUps)
  <2>1. PICK i \in DOMAIN FollowUps : at[c] = FollowUps[i] /\ Goto(c, FollowUps[i + 1])
    BY <1>2 DEF GoOn
  <2>2. i \in Nat /\ i # Len(FollowUps) /\ i + 1 \in DOMAIN FollowUps
    BY <1>2, <2>1, FollowUpFacts
  <2>3. UNCHANGED <<of, answer>>
    BY <1>2 DEF GoOn
  <2>4. QED
    BY <2>1, <2>2, <2>3 DEF Goto
<1>3. QED
  BY <1>1, <1>2

(* A sequence from which one element is taken. *)
LEMMA Removing ==
  ASSUME NEW S, NEW s \in Seq(S), NEW p \in 1 .. Len(s)
  PROVE  /\ RemoveAt(s, p) \in Seq(S) /\ Len(RemoveAt(s, p)) = Len(s) - 1
         /\ \A i \in 1 .. Len(s) - 1 :
              RemoveAt(s, p)[i] = IF i < p THEN s[i] ELSE s[i + 1]
<1>1. PICK u, v : u = SubSeq(s, 1, p - 1) /\ v = SubSeq(s, p + 1, Len(s))
  OBVIOUS
<1>2. /\ u \in Seq(S) /\ Len(u) = p - 1
      /\ \A i \in 1 .. p - 1 : u[i] = s[i]
  BY <1>1
<1>3. /\ v \in Seq(S) /\ Len(v) = Len(s) - p
      /\ \A i \in 1 .. Len(s) - p : v[i] = s[p + i]
  BY <1>1
<1>4. /\ u \o v \in Seq(S) /\ Len(u \o v) = Len(u) + Len(v)
      /\ \A i \in 1 .. Len(u) : (u \o v)[i] = u[i]
      /\ \A i \in 1 .. Len(v) : (u \o v)[Len(u) + i] = v[i]
  <2>1. u \in Seq(S) /\ v \in Seq(S)
    BY <1>2, <1>3
  <2>2. QED
    BY <2>1
<1> DEFINE w == u \o v
<1> HIDE DEF w
<1>5. ASSUME NEW i \in 1 .. Len(s) - 1
      PROVE  w[i] = IF i < p THEN s[i] ELSE s[i + 1]
  <2>1. CASE i < p
    <3>1. i \in 1 .. p - 1
      BY <2>1
    <3>2. QED
      BY <1>2, <1>4, <2>1, <3>1 DEF w
  <2>2. CASE ~ (i < p)
    <3>1. i - (p - 1) \in 1 .. Len(s) - p
      BY <2>2
    <3>2. (p - 1) + (i - (p - 1)) = i /\ p + (i - (p - 1)) = i + 1
      OBVIOUS
    <3>3. w[(p - 1) + (i - (p - 1))] = v[i - (p - 1)]
      BY <1>2, <1>3, <1>4, <3>1 DEF w
    <3>4. QED
      BY <1>3, <2>2, <3>1, <3>2, <3>3
  <2>3. QED
    BY <2>1, <2>2
<1>6. RemoveAt(s, p) = w
  BY <1>1 DEF RemoveAt, w
<1>7. Len(w) = Len(s) - 1 /\ w \in Seq(S)
  BY <1>2, <1>3, <1>4 DEF w
<1>8. QED
  BY <1>5, <1>6, <1>7

(* The list of those asked for. *)
LEMMA NotedType ==
  ASSUME asked \in Seq(Links), AskedOnce, NEW c \in Callers, of[c] \in Links
  PROVE  /\ Noted(c) \in Seq(Links)
         /\ \A i, j \in DOMAIN Noted(c) : Noted(c)[i] = Noted(c)[j] => i = j
<1> DEFINE l == of[c]
           p == Place(l)
           w == Without(l)
<1>1. ASSUME w \in Seq(Links),
             \A i, j \in 1 .. Len(w) : w[i] = w[j] => i = j,
             \A i \in 1 .. Len(w) : w[i] # l
      PROVE  /\ Append(w, l) \in Seq(Links)
             /\ \A i, j \in DOMAIN Append(w, l) : Append(w, l)[i] = Append(w, l)[j] => i = j
  <2> HIDE DEF w, l
  <2>1. /\ Append(w, l) \in Seq(Links) /\ DOMAIN Append(w, l) = 1 .. Len(w) + 1
        /\ Len(w) \in Nat /\ Append(w, l)[Len(w) + 1] = l
        /\ \A i \in 1 .. Len(w) : Append(w, l)[i] = w[i]
    BY <1>1 DEF l
  <2>2. \A i \in 1 .. Len(w) + 1 : i \in 1 .. Len(w) \/ i = Len(w) + 1
    BY <2>1
  <2>3. QED
    BY <1>1, <2>1, <2>2
<1>2. CASE l \in ToSet(asked)
  <2>1. \E i \in DOMAIN asked : asked[i] = l
    BY <1>2 DEF ToSet
  <2>2. p \in 1 .. Len(asked) /\ asked[p] = l
    BY <1>2, <2>1 DEF Place
  <2>3. w = IF p > 0 THEN RemoveAt(asked, p) ELSE asked
    BY DEF Without
  <2> HIDE DEF p, w
  <2>4. w = RemoveAt(asked, p)
    BY <2>2, <2>3
  <2>5. /\ w \in Seq(Links) /\ Len(w) = Len(asked) - 1
        /\ \A i \in 1 .. Len(asked) - 1 : w[i] = IF i < p THEN asked[i] ELSE asked[i + 1]
    BY <2>2, <2>4, Removing
  <2>6. \A i, j \in 1 .. Len(asked) : asked[i] = asked[j] => i = j
    BY DEF AskedOnce
  <2>7. ASSUME NEW i \in 1 .. Len(w), NEW j \in 1 .. Len(w), w[i] = w[j]
        PROVE  i = j
    <3>1. /\ i \in 1 .. Len(asked) /\ i + 1 \in 1 .. Len(asked)
          /\ j \in 1 .. Len(asked) /\ j + 1 \in 1 .. Len(asked)
      BY <2>5
    <3>2. /\ w[i] = IF i < p THEN asked[i] ELSE asked[i + 1]
          /\ w[j] = IF j < p THEN asked[j] ELSE asked[j + 1]
      BY <2>5
    <3>3. CASE i < p /\ j < p
      BY <2>6, <2>7, <3>1, <3>2, <3>3
    <3>4. CASE i < p /\ ~ (j < p)
      <4>1. asked[i] = asked[j + 1]
        BY <2>7, <3>2, <3>4
      <4>2. i = j + 1
        BY <2>6, <3>1, <4>1
      <4>3. QED
        BY <2>2, <3>1, <3>4, <4>2
    <3>5. CASE ~ (i < p) /\ j < p
      <4>1. asked[i + 1] = asked[j]
        BY <2>7, <3>2, <3>5
      <4>2. i + 1 = j
        BY <2>6, <3>1, <4>1
      <4>3. QED
        BY <2>2, <3>1, <3>5, <4>2
    <3>6. CASE ~ (i < p) /\ ~ (j < p)
      <4>1. asked[i + 1] = asked[j + 1]
        BY <2>7, <3>2, <3>6
      <4>2. i + 1 = j + 1
        BY <2>6, <3>1, <4>1
      <4>3. QED
        BY <3>1, <4>2
    <3>7. QED
      BY <3>3, <3>4, <3>5, <3>6
  <2>8. ASSUME NEW i \in 1 .. Len(w) PROVE w[i] # l
    <3>1. i \in 1 .. Len(asked) /\ i + 1 \in 1 .. Len(asked)
      BY <2>5
    <3>2. w[i] = IF i < p THEN asked[i] ELSE asked[i + 1]
      BY <2>5
    <3>3. QED
      BY <2>2, <2>6, <3>1, <3>2
  <2>9. QED
    BY <1>1, <2>5, <2>7, <2>8 DEF Noted, w
<1>3. CASE l \notin ToSet(asked)
  <2>1. w = asked
    BY <1>3 DEF Without, Place
  <2>2. \A i \in DOMAIN asked : asked[i] # l
    BY <1>3 DEF ToSet
  <2>3. QED
    BY <1>1, <2>1, <2>2 DEF Noted, AskedOnce
<1>4. QED
  BY <1>2, <1>3

-----------------------------------------------------------------------------
(* The pieces of the type invariant, and what of them a step touches.      *)
CallersTypeOK ==
  /\ at \in [Callers -> {"idle", "insert", "fetch", "note", "act"} \cup Effects]
  /\ of \in [Callers -> Links \cup {NoLink}]
  /\ answer \in [Callers -> LinkStatus]

RowsTypeOK ==
  /\ link \in [Links -> LinkStatus]
  /\ row \in [Links -> {"none", "PENDING", "PAID", "EXPIRED", "CANCELLED"}]
  /\ done \in [Links -> [Effects -> Nat]]

AskingTypeOK ==
  /\ over \subseteq Links /\ recent \subseteq Links /\ gateway \subseteq Links
  /\ asked \in Seq(Links)
  /\ poll \in {"idle", "list", "work"}
  /\ list \subseteq Links
  /\ upsets \in 0 .. MaxUpsets

LEMMA TypeParts == TypeOK <=> CallersTypeOK /\ RowsTypeOK /\ AskingTypeOK
BY DEF TypeOK, CallersTypeOK, RowsTypeOK, AskingTypeOK

LEMMA CallersTypes ==
  ASSUME LinksInv, [Next]_vars
  PROVE  CallersTypeOK'
<1>0. /\ CallersTypeOK /\ Poller \in Callers /\ Requests \subseteq Callers
      /\ link \in [Links -> LinkStatus] /\ list \subseteq Links /\ Busy
  BY TypeParts DEF LinksInv, RowsTypeOK, AskingTypeOK, Callers
<1> USE <1>0, FollowUpFacts DEF CallersTypeOK, Begin, Return, Goto, LinkStatus
<1>1. ASSUME NEW c \in Callers, Insert(c) \/ NoGateway(c) \/ NoteAsked(c) \/ MarkPaid(c) \/ Close(c)
             \/ FetchFails(c)
      PROVE  CallersTypeOK'
  <2>1. CASE Insert(c) \/ NoGateway(c) \/ Close(c)
    BY <2>1 DEF Insert, NoGateway, Close
  <2>2. CASE NoteAsked(c)
    BY <2>2 DEF NoteAsked
  <2>3. CASE MarkPaid(c)
    BY <2>3 DEF MarkPaid
  <2>4. CASE FetchFails(c)
    BY <2>4 DEF FetchFails
  <2>5. QED
    BY <1>1, <2>1, <2>2, <2>3, <2>4
<1>2. ASSUME NEW c \in Callers, Fetch(c) PROVE CallersTypeOK'
  <2>1. of[c] \in Links
    BY <1>2 DEF Fetch, Busy
  <2>2. QED
    BY <1>2, <2>1 DEF Fetch
<1>3. ASSUME NEW c \in Callers, FollowUp(c) \/ FollowUpFails(c) PROVE CallersTypeOK'
  <2>1. at[c] \in Effects /\ GoOn(c)
    BY <1>3 DEF FollowUp, FollowUpFails
  <2>2. CASE Idle(c)
    BY <2>2 DEF Idle
  <2>3. CASE \E i \in DOMAIN FollowUps :
               /\ i + 1 \in DOMAIN FollowUps /\ at[c] = FollowUps[i]
               /\ at' = [at EXCEPT ![c] = FollowUps[i + 1]]
               /\ UNCHANGED <<of, answer>>
    BY <2>3
  <2>4. QED
    BY <2>1, <2>2, <2>3, GoingOn
<1>4. ASSUME NEW c \in Requests, NEW l \in Links, Create(c, l) \/ Refresh(c, l) \/ Deliver(c, l)
      PROVE  CallersTypeOK'
  BY <1>4 DEF Create, Refresh, Deliver
<1>5. ASSUME NEW l \in Links, EndLink(l) \/ Ages(l) \/ TimeIsUp(l) \/ Disconnect(l) \/ Connect(l)
      PROVE  CallersTypeOK'
  BY <1>5 DEF EndLink, Ages, TimeIsUp, Disconnect, Connect, callers
<1>6. CASE PollStep
  <2>1. ASSUME NEW l \in list, PollNext(l) PROVE CallersTypeOK'
    BY <2>1 DEF PollNext, callers
  <2>2. CASE PollExpire \/ PollList \/ PollDone
    BY <2>2 DEF PollExpire, PollList, PollDone, callers
  <2>3. QED
    BY <1>6, <2>1, <2>2 DEF PollStep
<1>7. CASE Crash
  BY <1>7 DEF Crash
<1>8. CASE UNCHANGED vars
  BY <1>8 DEF vars, callers
<1>9. QED
  BY <1>1, <1>2, <1>3, <1>4, <1>5, <1>6, <1>7, <1>8 DEF Next, CallerStep

LEMMA RowsTypes ==
  ASSUME LinksInv, [Next]_vars
  PROVE  RowsTypeOK'
<1>0. RowsTypeOK /\ CallersTypeOK /\ Busy
  BY TypeParts DEF LinksInv
<1> USE <1>0 DEF RowsTypeOK, CallersTypeOK, LinkStatus
<1>1. ASSUME NEW c \in Callers, Insert(c) \/ MarkPaid(c) \/ Close(c) PROVE RowsTypeOK'
  <2>1. of[c] \in Links
    BY <1>1 DEF Insert, MarkPaid, Close, Busy
  <2>2. QED
    BY <1>1, <2>1 DEF Insert, MarkPaid, Close
<1>2. ASSUME NEW c \in Callers, FollowUp(c) PROVE RowsTypeOK'
  <2>1. of[c] \in Links /\ at[c] \in Effects
    BY <1>2, FollowUpFacts DEF FollowUp, Busy
  <2>2. done' = [done EXCEPT ![of[c]][at[c]] = @ + 1] /\ UNCHANGED <<link, row>>
    BY <1>2 DEF FollowUp, table
  <2>3. QED
    BY <2>1, <2>2
<1>3. ASSUME NEW c \in Callers,
             NoGateway(c) \/ Fetch(c) \/ NoteAsked(c) \/ FetchFails(c) \/ FollowUpFails(c)
      PROVE  RowsTypeOK'
  BY <1>3 DEF NoGateway, Fetch, NoteAsked, FetchFails, FollowUpFails, table
<1>4. ASSUME NEW c \in Requests, NEW l \in Links, Create(c, l) \/ Refresh(c, l) \/ Deliver(c, l)
      PROVE  RowsTypeOK'
  BY <1>4 DEF Create, Refresh, Deliver, table
<1>5. ASSUME NEW l \in Links, EndLink(l) \/ Ages(l) \/ TimeIsUp(l) \/ Disconnect(l) \/ Connect(l)
      PROVE  RowsTypeOK'
  BY <1>5 DEF EndLink, Final, Ages, TimeIsUp, Disconnect, Connect, table
<1>6. CASE PollStep
  BY <1>6 DEF PollStep, PollNext, PollExpire, PollList, PollDone, table
<1>7. CASE Crash \/ UNCHANGED vars
  BY <1>7 DEF Crash, vars, table
<1>8. QED
  BY <1>1, <1>2, <1>3, <1>4, <1>5, <1>6, <1>7 DEF Next, CallerStep

LEMMA AskingTypes ==
  ASSUME LinksInv, [Next]_vars
  PROVE  AskingTypeOK' /\ AskedOnce'
<1>0. AskingTypeOK /\ Busy /\ AskedOnce /\ MaxUpsets \in Nat
  BY TypeParts, LinksAssumption DEF LinksInv
<1> USE <1>0 DEF AskingTypeOK, AskedOnce
<1>1. ASSUME NEW c \in Callers, NoteAsked(c) PROVE AskingTypeOK' /\ AskedOnce'
  <2>1. of[c] \in Links
    BY <1>1 DEF NoteAsked, Busy
  <2>2. asked' = Noted(c) /\ recent' = recent \cup {of[c]} /\ UNCHANGED <<over, gateway, poll, list, upsets>>
    BY <1>1 DEF NoteAsked, polling
  <2>3. QED
    BY <2>1, <2>2, NotedType
<1>2. ASSUME NEW c \in Callers,
             Insert(c) \/ MarkPaid(c) \/ Close(c) \/ FollowUp(c) \/ NoGateway(c) \/ Fetch(c)
      PROVE  AskingTypeOK' /\ AskedOnce'
  BY <1>2 DEF Insert, MarkPaid, Close, FollowUp, NoGateway, Fetch, table, polling
<1>3. ASSUME NEW c \in Callers, FetchFails(c) \/ FollowUpFails(c) PROVE AskingTypeOK' /\ AskedOnce'
  BY <1>3 DEF FetchFails, FollowUpFails, Upset, table, polling
<1>4. ASSUME NEW c \in Requests, NEW l \in Links, Create(c, l) \/ Refresh(c, l) \/ Deliver(c, l)
      PROVE  AskingTypeOK' /\ AskedOnce'
  BY <1>4 DEF Create, Refresh, Deliver, table, polling
<1>5. ASSUME NEW l \in Links, EndLink(l) \/ Ages(l) \/ TimeIsUp(l) \/ Disconnect(l) \/ Connect(l)
      PROVE  AskingTypeOK' /\ AskedOnce'
  BY <1>5 DEF EndLink, Ages, TimeIsUp, Disconnect, Connect, Upset, table, polling
<1>6. CASE PollStep
  <2>1. UNCHANGED <<over, asked, recent, gateway, upsets>>
    BY <1>6 DEF PollStep, PollNext, PollExpire, PollList, PollDone, table
  <2>2. poll' \in {"idle", "list", "work"} /\ list' \subseteq Links
    BY <1>6 DEF PollStep, PollNext, PollExpire, PollList, PollDone, Due
  <2>3. QED
    BY <2>1, <2>2
<1>7. CASE Crash \/ UNCHANGED vars
  BY <1>7 DEF Crash, Upset, vars, table, polling
<1>8. QED
  BY <1>1, <1>2, <1>3, <1>4, <1>5, <1>6, <1>7 DEF Next, CallerStep

-----------------------------------------------------------------------------
(* What a step does to the rows and the links: a row stays in the table, a *)
(* payment stays paid, and a link that is over stays as it ended.          *)
LEMMA RowsStay ==
  ASSUME LinksInv, [Next]_vars
  PROVE  \A l \in Links :
           /\ row[l] # "none" => row'[l] # "none"
           /\ row[l] = "PAID" => row'[l] = "PAID"
           /\ link[l] # "none" => link'[l] # "none"
           /\ link[l] \in Final => link'[l] = link[l]
<1>0. RowsTypeOK /\ OneCreator
  BY TypeParts DEF LinksInv
<1> USE <1>0 DEF RowsTypeOK, Final
<1> SUFFICES ASSUME NEW l \in Links
             PROVE  /\ row[l] # "none" => row'[l] # "none"
                    /\ row[l] = "PAID" => row'[l] = "PAID"
                    /\ link[l] # "none" => link'[l] # "none"
                    /\ link[l] \in Final => link'[l] = link[l]
  OBVIOUS
<1>1. ASSUME NEW c \in Callers, Insert(c)
      PROVE  (row[l] # "none" => row'[l] # "none" /\ (row[l] = "PAID" => row'[l] = "PAID")) /\ UNCHANGED link
  BY <1>1 DEF Insert, OneCreator
<1>2. ASSUME NEW c \in Callers, MarkPaid(c) \/ Close(c)
      PROVE  /\ row[l] # "none" => row'[l] # "none" /\ (row[l] = "PAID" => row'[l] = "PAID")
             /\ UNCHANGED link
  BY <1>2 DEF MarkPaid, Close
<1>3. CASE PollExpire
  BY <1>3 DEF PollExpire, Lapsing
<1>4. ASSUME NEW c \in Callers,
             FollowUp(c) \/ NoGateway(c) \/ Fetch(c) \/ NoteAsked(c) \/ FetchFails(c) \/ FollowUpFails(c)
      PROVE  UNCHANGED <<link, row>>
  BY <1>4 DEF FollowUp, NoGateway, Fetch, NoteAsked, FetchFails, FollowUpFails, table
<1>5. ASSUME NEW c \in Requests, NEW k \in Links, Create(c, k)
      PROVE  (link[l] # "none" => link'[l] = link[l]) /\ UNCHANGED row
  BY <1>5 DEF Create, table
<1>6. ASSUME NEW c \in Requests, NEW k \in Links, Refresh(c, k) \/ Deliver(c, k)
      PROVE  UNCHANGED <<link, row>>
  BY <1>6 DEF Refresh, Deliver, table
<1>7. ASSUME NEW k \in Links, EndLink(k)
      PROVE  /\ link[l] # "none" => link'[l] # "none"
             /\ link[l] \in Final => link'[l] = link[l]
             /\ UNCHANGED row
  BY <1>7 DEF EndLink, table
<1>8. ASSUME NEW k \in Links, Ages(k) \/ TimeIsUp(k) \/ Disconnect(k) \/ Connect(k)
      PROVE  UNCHANGED <<link, row>>
  BY <1>8 DEF Ages, TimeIsUp, Disconnect, Connect, table
<1>9. CASE PollStep /\ ~ PollExpire
  BY <1>9 DEF PollStep, PollNext, PollList, PollDone, table
<1>10. CASE Crash \/ UNCHANGED vars
  BY <1>10 DEF Crash, vars, table
<1>11. QED
  BY <1>1, <1>2, <1>3, <1>4, <1>5, <1>6, <1>7, <1>8, <1>9, <1>10 DEF Next, CallerStep

(* What it does to the callers: one of them moves at most, unless all      *)
(* begin anew.                                                             *)
Begins(c, place) ==
  /\ at[c] = "idle"
  /\ at' = [at EXCEPT ![c] = place]
  /\ answer' = [answer EXCEPT ![c] = "none"]

Follows(c) ==
  \E i \in DOMAIN FollowUps :
    /\ i + 1 \in DOMAIN FollowUps /\ at[c] = FollowUps[i]
    /\ at' = [at EXCEPT ![c] = FollowUps[i + 1]]
    /\ UNCHANGED <<of, answer>>

Moved(c) ==
  \/ Idle(c)
  \/ \E l \in Links : /\ Begins(c, "insert") /\ of' = [of EXCEPT ![c] = l]
                     /\ link[l] = "none" /\ link'[l] = "open" /\ UNCHANGED row
  \/ \E l \in Links : /\ Begins(c, "fetch") /\ of' = [of EXCEPT ![c] = l]
                     /\ row[l] = "PENDING"
  \/ \E l \in Links : /\ at[c] = "idle" /\ at' = [at EXCEPT ![c] = "act"]
                     /\ of' = [of EXCEPT ![c] = l] /\ row[l] # "none"
                     /\ answer' = [answer EXCEPT ![c] = link[l]] /\ UNCHANGED link
  \/ /\ at[c] = "fetch" /\ at' = [at EXCEPT ![c] = "note"]
     /\ answer' \in {answer, [answer EXCEPT ![c] = link[of[c]]]} /\ UNCHANGED <<of, link>>
  \/ at[c] = "note" /\ at' = [at EXCEPT ![c] = "act"] /\ UNCHANGED <<of, answer>>
  \/ /\ at[c] = "act" /\ at' = [at EXCEPT ![c] = Head(FollowUps)] /\ UNCHANGED <<of, answer, done>>
     /\ row[of[c]] # "PAID" /\ row'[of[c]] = "PAID"
  \/ Follows(c)

LEMMA CallersMove ==
  ASSUME LinksInv, [Next]_vars
  PROVE  \/ UNCHANGED callers
         \/ \A c \in Callers : at'[c] = "idle" /\ answer'[c] = "none"
         \/ \E c \in Callers : Moved(c)
<1>0. /\ CallersTypeOK /\ RowsTypeOK /\ Busy /\ Poller \in Callers /\ Requests \subseteq Callers
      /\ list \subseteq Links
  BY TypeParts DEF LinksInv, AskingTypeOK, Callers
<1> USE <1>0 DEF CallersTypeOK, RowsTypeOK, Begin, Return, Goto
<1>1. ASSUME NEW c \in Callers, Insert(c) \/ NoGateway(c) \/ Close(c) PROVE Moved(c)
  BY <1>1 DEF Insert, NoGateway, Close, Moved, Idle
<1>2. ASSUME NEW c \in Callers, Fetch(c) \/ FetchFails(c) PROVE Moved(c)
  BY <1>2 DEF Fetch, FetchFails, Moved
<1>3. ASSUME NEW c \in Callers, NoteAsked(c) PROVE Moved(c)
  BY <1>3 DEF NoteAsked, Moved, Idle
<1>4. ASSUME NEW c \in Callers, MarkPaid(c) PROVE Moved(c)
  <2>1. of[c] \in Links
    BY <1>4 DEF MarkPaid, Busy
  <2>2. QED
    BY <1>4, <2>1 DEF MarkPaid, Wins, Moved, Idle
<1>5. ASSUME NEW c \in Callers, FollowUp(c) \/ FollowUpFails(c) PROVE Moved(c)
  <2>1. at[c] \in Effects /\ GoOn(c)
    BY <1>5 DEF FollowUp, FollowUpFails
  <2>2. QED
    BY <2>1, GoingOn DEF Moved, Follows
<1>6. ASSUME NEW c \in Requests, NEW l \in Links, Create(c, l) PROVE Moved(c)
  <2>1. /\ link[l] = "none" /\ link'[l] = "open" /\ UNCHANGED row /\ of' = [of EXCEPT ![c] = l]
        /\ Begins(c, "insert")
    BY <1>6 DEF Create, Begins, table
  <2>2. QED
    BY <2>1 DEF Moved
<1>7. ASSUME NEW c \in Requests, NEW l \in Links, Refresh(c, l) PROVE Moved(c)
  <2>1. row[l] = "PENDING" /\ of' = [of EXCEPT ![c] = l] /\ Begins(c, "fetch")
    BY <1>7 DEF Refresh, Begins
  <2>2. QED
    BY <2>1 DEF Moved
<1>8. ASSUME NEW c \in Requests, NEW l \in Links, Deliver(c, l) PROVE Moved(c)
  BY <1>8 DEF Deliver, Moved
<1>9. ASSUME NEW l \in list, PollNext(l) PROVE UNCHANGED callers \/ Moved(Poller)
  <2>1. CASE row[l] = "PENDING"
    <3>1. of' = [of EXCEPT ![Poller] = l] /\ Begins(Poller, "fetch") /\ l \in Links
      BY <1>9, <2>1 DEF PollNext, Begins
    <3>2. QED
      BY <2>1, <3>1 DEF Moved
  <2>2. CASE row[l] # "PENDING"
    BY <1>9, <2>2 DEF PollNext
  <2>3. QED
    BY <2>1, <2>2
<1>10. CASE PollExpire \/ PollList \/ PollDone \/ UNCHANGED vars
  BY <1>10 DEF PollExpire, PollList, PollDone, vars
<1>11. ASSUME NEW l \in Links, EndLink(l) \/ Ages(l) \/ TimeIsUp(l) \/ Disconnect(l) \/ Connect(l)
       PROVE  UNCHANGED callers
  BY <1>11 DEF EndLink, Ages, TimeIsUp, Disconnect, Connect
<1>12. CASE Crash
  BY <1>12 DEF Crash
<1>13. QED
  BY <1>0, <1>1, <1>2, <1>3, <1>4, <1>5, <1>6, <1>7, <1>8, <1>9, <1>10, <1>11, <1>12
  DEF Next, CallerStep, PollStep

LEMMA BusyStep ==
  ASSUME LinksInv, [Next]_vars
  PROVE  Busy'
<1>0. CallersTypeOK /\ CallersTypeOK' /\ Busy
  BY TypeParts, CallersTypes DEF LinksInv
<1>1. \A l \in Links : row[l] # "none" => row'[l] # "none"
  BY RowsStay
<1> USE <1>0, <1>1 DEF CallersTypeOK, Busy
<1>2. CASE UNCHANGED callers
  BY <1>2 DEF callers
<1>3. CASE \A c \in Callers : at'[c] = "idle"
  BY <1>3
<1>4. ASSUME NEW c \in Callers, Moved(c) PROVE Busy'
  <2>1. CASE Idle(c)
    BY <2>1 DEF Idle
  <2>2. CASE Follows(c)
    BY <2>2, FollowUpFacts DEF Follows
  <2>3. CASE ~ Idle(c) /\ ~ Follows(c)
    BY <1>4, <2>3, FollowUpFacts DEF Moved, Begins
  <2>4. QED
    BY <2>1, <2>2, <2>3
<1>5. QED
  BY <1>2, <1>3, <1>4, CallersMove

LEMMA AnswersStep ==
  ASSUME LinksInv, [Next]_vars
  PROVE  AnswersHold'
<1>0. CallersTypeOK /\ CallersTypeOK' /\ Busy /\ AnswersHold
  BY TypeParts, CallersTypes DEF LinksInv
<1>1. \A l \in Links : link[l] \in Final => link'[l] = link[l]
  BY RowsStay
<1> USE <1>0, <1>1 DEF CallersTypeOK, AnswersHold
<1>2. CASE UNCHANGED callers
  BY <1>2 DEF callers
<1>3. CASE \A c \in Callers : at'[c] = "idle" /\ answer'[c] = "none"
  BY <1>3 DEF Final
<1>4. ASSUME NEW c \in Callers, Moved(c) PROVE AnswersHold'
  <2>1. CASE Idle(c)
    BY <2>1 DEF Idle, Final
  <2>2. CASE UNCHANGED <<of, answer>>
    BY <2>2
  <2>3. CASE at[c] = "fetch" /\ answer' = [answer EXCEPT ![c] = link[of[c]]] /\ UNCHANGED <<of, link>>
    <3>1. of[c] \in Links
      BY <2>3 DEF Busy
    <3>2. QED
      BY <2>3, <3>1
  <2>4. ASSUME NEW l \in Links, answer' = [answer EXCEPT ![c] = "none"], of' = [of EXCEPT ![c] = l]
        PROVE  AnswersHold'
    BY <2>4 DEF Final
  <2>5. ASSUME NEW l \in Links, answer' = [answer EXCEPT ![c] = link[l]], of' = [of EXCEPT ![c] = l],
               UNCHANGED link
        PROVE  AnswersHold'
    BY <2>5
  <2>6. QED
    BY <1>4, <2>1, <2>2, <2>3, <2>4, <2>5 DEF Moved, Begins, Follows
<1>5. QED
  BY <1>2, <1>3, <1>4, CallersMove

(* Only who created a link puts it in the table, and only who won its row  *)
(* does what follows.                                                      *)
LEMMA RowsBegin ==
  ASSUME LinksInv, [Next]_vars, NEW l \in Links, row[l] = "none", row'[l] # "none"
  PROVE  \E c \in Callers : Insert(c) /\ of[c] = l
<1>0. RowsTypeOK /\ Busy
  BY TypeParts DEF LinksInv
<1> USE <1>0 DEF RowsTypeOK
<1>1. ASSUME NEW c \in Callers, Insert(c) PROVE of[c] = l
  BY <1>1 DEF Insert
<1>2. ASSUME NEW c \in Callers, MarkPaid(c) \/ Close(c) PROVE FALSE
  BY <1>2 DEF MarkPaid, Close, Busy
<1>3. CASE PollExpire
  BY <1>3 DEF PollExpire, Lapsing
<1>4. ASSUME NEW c \in Callers,
             FollowUp(c) \/ NoGateway(c) \/ Fetch(c) \/ NoteAsked(c) \/ FetchFails(c) \/ FollowUpFails(c)
      PROVE  UNCHANGED row
  BY <1>4 DEF FollowUp, NoGateway, Fetch, NoteAsked, FetchFails, FollowUpFails, table
<1>5. ASSUME NEW c \in Requests, NEW k \in Links, Create(c, k) \/ Refresh(c, k) \/ Deliver(c, k)
      PROVE  UNCHANGED row
  BY <1>5 DEF Create, Refresh, Deliver, table
<1>6. ASSUME NEW k \in Links, EndLink(k) \/ Ages(k) \/ TimeIsUp(k) \/ Disconnect(k) \/ Connect(k)
      PROVE  UNCHANGED row
  BY <1>6 DEF EndLink, Ages, TimeIsUp, Disconnect, Connect, table
<1>7. CASE PollStep /\ ~ PollExpire
  BY <1>7 DEF PollStep, PollNext, PollList, PollDone, table
<1>8. CASE Crash \/ UNCHANGED vars
  BY <1>8 DEF Crash, vars, table
<1>9. QED
  BY <1>1, <1>2, <1>3, <1>4, <1>5, <1>6, <1>7, <1>8 DEF Next, CallerStep

LEMMA DoneMoves ==
  ASSUME [Next]_vars
  PROVE  UNCHANGED done \/ \E c \in Callers : FollowUp(c)
<1>1. ASSUME NEW c \in Callers, Insert(c) \/ MarkPaid(c) \/ Close(c) \/ NoGateway(c) \/ Fetch(c)
             \/ NoteAsked(c) \/ FetchFails(c) \/ FollowUpFails(c)
      PROVE  UNCHANGED done
  BY <1>1 DEF Insert, MarkPaid, Close, NoGateway, Fetch, NoteAsked, FetchFails, FollowUpFails
<1>2. ASSUME NEW c \in Requests, NEW l \in Links, Create(c, l) \/ Refresh(c, l) \/ Deliver(c, l)
      PROVE  UNCHANGED done
  BY <1>2 DEF Create, Refresh, Deliver
<1>3. ASSUME NEW l \in Links, EndLink(l) \/ Ages(l) \/ TimeIsUp(l) \/ Disconnect(l) \/ Connect(l)
      PROVE  UNCHANGED done
  BY <1>3 DEF EndLink, Ages, TimeIsUp, Disconnect, Connect
<1>4. CASE PollStep
  BY <1>4 DEF PollStep, PollExpire, PollNext, PollList, PollDone
<1>5. CASE Crash \/ UNCHANGED vars
  BY <1>5 DEF Crash, vars
<1>6. QED
  BY <1>1, <1>2, <1>3, <1>4, <1>5 DEF Next, CallerStep

LEMMA CreatorStep ==
  ASSUME LinksInv, [Next]_vars
  PROVE  OneCreator'
<1>0. CallersTypeOK /\ CallersTypeOK' /\ Busy /\ OneCreator
  BY TypeParts, CallersTypes DEF LinksInv
<1>1. \A l \in Links : link[l] # "none" => link'[l] # "none"
  BY RowsStay
<1>2. ASSUME NEW l \in Links, link'[l] = "none" PROVE row'[l] = "none"
  <2>1. link[l] = "none" /\ row[l] = "none"
    BY <1>0, <1>1, <1>2 DEF OneCreator
  <2>2. SUFFICES ASSUME NEW c \in Callers, Insert(c), of[c] = l PROVE FALSE
    BY <2>1, RowsBegin
  <2>3. QED
    BY <1>0, <2>1, <2>2 DEF Insert, OneCreator
<1>3. ASSUME NEW e \in Callers, at[e] = "insert", at'[e] = "insert", of'[e] = of[e]
      PROVE  link'[of'[e]] # "none" /\ row'[of'[e]] = "none"
  <2>1. of[e] \in Links /\ link[of[e]] # "none" /\ row[of[e]] = "none"
    BY <1>0, <1>3 DEF OneCreator, Busy
  <2>2. ASSUME NEW c \in Callers, Insert(c), of[c] = of[e] PROVE FALSE
    <3>1. c = e
      BY <1>0, <1>3, <2>2 DEF Insert, OneCreator
    <3>2. at'[e] = "idle"
      BY <1>0, <2>2, <3>1 DEF Insert, Return, Goto, CallersTypeOK
    <3>3. QED
      BY <1>3, <3>2
  <2>3. QED
    BY <1>1, <1>3, <2>1, <2>2, RowsBegin
<1>4. ASSUME \A e \in Callers : at'[e] = "insert" => at[e] = "insert" /\ of'[e] = of[e]
      PROVE  OneCreator'
  BY <1>0, <1>2, <1>3, <1>4 DEF OneCreator
<1>5. CASE UNCHANGED callers
  BY <1>4, <1>5 DEF callers
<1>6. CASE \A c \in Callers : at'[c] = "idle"
  BY <1>4, <1>6
<1>7. ASSUME NEW c \in Callers, Moved(c) PROVE OneCreator'
  <2>1. CASE Idle(c)
    BY <1>0, <1>4, <2>1 DEF Idle, CallersTypeOK
  <2>2. CASE Follows(c)
    BY <1>0, <1>4, <2>2, FollowUpFacts DEF Follows, CallersTypeOK
  <2>3. ASSUME NEW l \in Links, Begins(c, "insert"), of' = [of EXCEPT ![c] = l],
               link[l] = "none", link'[l] = "open", UNCHANGED row
        PROVE  OneCreator'
    <3>1. at'[c] = "insert" /\ of'[c] = l /\ row'[l] = "none"
      BY <1>0, <2>3 DEF Begins, CallersTypeOK, OneCreator
    <3>2. \A e \in Callers : e # c => at'[e] = at[e] /\ of'[e] = of[e]
      BY <1>0, <2>3 DEF Begins, CallersTypeOK
    <3>3. \A e \in Callers : e # c /\ at[e] = "insert" => of[e] # l
      BY <1>0, <2>3 DEF OneCreator
    <3>4. QED
      BY <1>0, <1>2, <1>3, <2>3, <3>1, <3>2, <3>3 DEF OneCreator
  <2>4. CASE \E place \in {"note", "act", "fetch"} \cup Effects :
               at' = [at EXCEPT ![c] = place] /\ \A e \in Callers : e # c => of'[e] = of[e]
    BY <1>0, <1>4, <2>4, FollowUpFacts DEF CallersTypeOK
  <2>5. QED
    BY <1>0, <1>7, <2>1, <2>2, <2>3, <2>4, FollowUpFacts DEF Moved, Begins, CallersTypeOK
<1>8. QED
  BY <1>5, <1>6, <1>7, CallersMove

(* What has still to follow for a caller, has not been done. *)
Pending(c) ==
  \A i, j \in DOMAIN FollowUps : at[c] = FollowUps[i] /\ i <= j => done[of[c]][FollowUps[j]] = 0

LEMMA FollowsStep ==
  ASSUME LinksInv, [Next]_vars
  PROVE  NothingFollows' /\ OneFollows'
<1>0. /\ CallersTypeOK /\ CallersTypeOK' /\ RowsTypeOK /\ RowsTypeOK' /\ Busy /\ Busy'
      /\ NothingFollows /\ OneFollows
  BY TypeParts, CallersTypes, RowsTypes, BusyStep DEF LinksInv
<1>1. \A l \in Links : row[l] = "PAID" => row'[l] = "PAID"
  BY RowsStay
<1>2. \A c \in Callers : Pending(c)
  BY <1>0 DEF OneFollows, Pending
<1>3. \A c \in Callers : at[c] \in Effects => of[c] \in Links /\ row[of[c]] = "PAID"
  BY <1>0, FollowUpFacts DEF OneFollows, Busy
<1>4. \A l \in Links : row'[l] # "PAID" => row[l] # "PAID"
  BY <1>1
<1>5. CASE \E c \in Callers : FollowUp(c)
  <2>1. PICK c \in Callers : FollowUp(c)
    BY <1>5
  <2>2. /\ at[c] \in Effects /\ done' = [done EXCEPT ![of[c]][at[c]] = @ + 1] /\ GoOn(c)
        /\ UNCHANGED row
    BY <2>1 DEF FollowUp, table
  <2>3. of[c] \in Links /\ row[of[c]] = "PAID"
    BY <1>3, <2>2
  <2>4. \A l \in Links : l # of[c] => done'[l] = done[l]
    BY <1>0, <2>2 DEF RowsTypeOK
  <2>5. \A e \in Effects : e # at[c] => done'[of[c]][e] = done[of[c]][e]
    BY <1>0, <2>2, <2>3 DEF RowsTypeOK
  <2>6. NothingFollows'
    BY <1>0, <2>2, <2>3, <2>4 DEF NothingFollows
  <2>7. \A e \in Callers : e # c => at'[e] = at[e] /\ of'[e] = of[e]
    BY <1>0, <2>2, GoingOn DEF CallersTypeOK, Idle
  <2>8. ASSUME NEW e \in Callers, e # c, at'[e] \in Effects
        PROVE  of'[e] # of[c] /\ of'[e] \in Links /\ row'[of'[e]] = "PAID" /\ Pending(e)'
    <3>1. at[e] \in Effects /\ of[e] \in Links /\ of[e] # of[c] /\ row[of[e]] = "PAID"
      BY <1>0, <1>3, <2>2, <2>7, <2>8 DEF OneFollows
    <3>2. done'[of'[e]] = done[of[e]]
      BY <2>4, <2>7, <2>8, <3>1
    <3>3. Pending(e)'
      BY <1>2, <2>7, <2>8, <3>2 DEF Pending
    <3>4. QED
      BY <2>2, <2>7, <2>8, <3>1, <3>3
  <2>9. CASE Idle(c)
    <3>1. at'[c] = "idle"
      BY <1>0, <2>9 DEF Idle, CallersTypeOK
    <3>2. at'[c] \notin Effects /\ Pending(c)'
      BY <3>1, FollowUpFacts DEF Pending
    <3>3. \A e \in Callers : Pending(e)'
      BY <2>8, <3>2, FollowUpFacts DEF Pending
    <3>4. \A e, f \in Callers : at'[e] \in Effects /\ at'[f] \in Effects /\ of'[e] = of'[f] => e = f
      BY <1>0, <2>7, <3>2 DEF OneFollows
    <3>5. QED
      BY <2>6, <2>8, <3>2, <3>3, <3>4 DEF OneFollows, Pending
  <2>10. CASE Follows(c)
    <3>1. PICK i \in DOMAIN FollowUps :
            /\ i + 1 \in DOMAIN FollowUps /\ at[c] = FollowUps[i]
            /\ at' = [at EXCEPT ![c] = FollowUps[i + 1]]
            /\ UNCHANGED <<of, answer>>
      BY <2>10 DEF Follows
    <3>2. at'[c] = FollowUps[i + 1] /\ of'[c] = of[c] /\ at'[c] \in Effects
      BY <1>0, <3>1, FollowUpFacts DEF CallersTypeOK
    <3>3. ASSUME NEW h \in DOMAIN FollowUps, NEW j \in DOMAIN FollowUps,
                 at'[c] = FollowUps[h], h <= j
          PROVE  done'[of'[c]][FollowUps[j]] = 0
      <4>1. h = i + 1
        BY <3>1, <3>2, <3>3, LinksAssumption
      <4>2. i <= j /\ i # j
        BY <3>1, <3>3, <4>1, FollowUpFacts
      <4>3. FollowUps[j] # at[c] /\ FollowUps[j] \in Effects
        BY <3>1, <4>2, LinksAssumption, FollowUpFacts
      <4>4. done[of[c]][FollowUps[j]] = 0
        BY <1>2, <3>1, <4>2 DEF Pending
      <4>5. QED
        BY <2>5, <3>2, <4>3, <4>4
    <3>4. \A e \in Callers : Pending(e)'
      BY <2>8, <3>3, FollowUpFacts DEF Pending
    <3>5. row'[of'[c]] = "PAID"
      BY <2>2, <2>3, <3>2
    <3>6. \A e, f \in Callers : at'[e] \in Effects /\ at'[f] \in Effects /\ of'[e] = of'[f] => e = f
      BY <1>0, <2>2, <2>7, <2>8, <3>2 DEF OneFollows
    <3>7. \A e \in Callers : at'[e] \in Effects => row'[of'[e]] = "PAID"
      BY <2>8, <3>5
    <3>8. OneFollows'
      BY <3>4, <3>6, <3>7 DEF OneFollows, Pending
    <3>9. QED
      BY <2>6, <3>8
  <2>11. Idle(c) \/ Follows(c)
    BY <2>2, GoingOn DEF Follows
  <2>12. QED
    BY <2>9, <2>10, <2>11
<1>6. CASE UNCHANGED done
  <2>1. NothingFollows'
    BY <1>0, <1>4, <1>6 DEF NothingFollows
  <2>2. ASSUME \A e \in Callers : at'[e] \in Effects => at[e] \in Effects /\ of'[e] = of[e],
               \A e \in Callers : Pending(e)'
        PROVE  OneFollows'
    BY <1>0, <1>1, <1>3, <2>2 DEF OneFollows, Pending
  <2>3. ASSUME \A e \in Callers : at'[e] \in Effects => at'[e] = at[e] /\ of'[e] = of[e]
        PROVE  OneFollows'
    <3>1. \A e \in Callers : Pending(e)'
      BY <1>2, <1>6, <2>3, FollowUpFacts DEF Pending
    <3>2. QED
      BY <2>2, <2>3, <3>1
  <2>4. CASE UNCHANGED callers
    BY <2>1, <2>3, <2>4 DEF callers
  <2>5. CASE \A c \in Callers : at'[c] = "idle"
    BY <2>1, <2>3, <2>5, FollowUpFacts
  <2>6. ASSUME NEW c \in Callers, Moved(c) PROVE OneFollows'
    <3>1. CASE at'[c] \notin Effects /\ \A e \in Callers : e # c => at'[e] = at[e] /\ of'[e] = of[e]
      BY <2>3, <3>1
    <3>2. CASE Idle(c)
      BY <1>0, <3>1, <3>2, FollowUpFacts DEF Idle, CallersTypeOK
    <3>3. CASE Follows(c)
      <4>1. PICK i \in DOMAIN FollowUps :
              /\ i + 1 \in DOMAIN FollowUps /\ at[c] = FollowUps[i]
              /\ at' = [at EXCEPT ![c] = FollowUps[i + 1]]
              /\ UNCHANGED <<of, answer>>
        BY <3>3 DEF Follows
      <4>2. at'[c] = FollowUps[i + 1] /\ at[c] \in Effects
        BY <1>0, <4>1, FollowUpFacts DEF CallersTypeOK
      <4>3. \A e \in Callers : e # c => at'[e] = at[e]
        BY <1>0, <4>1 DEF CallersTypeOK
      <4>4. ASSUME NEW h \in DOMAIN FollowUps, NEW j \in DOMAIN FollowUps,
                   at'[c] = FollowUps[h], h <= j
            PROVE  done'[of'[c]][FollowUps[j]] = 0
        <5>1. h = i + 1
          BY <4>1, <4>2, <4>4, LinksAssumption
        <5>2. i <= j
          BY <4>1, <4>4, <5>1, FollowUpFacts
        <5>3. done[of[c]][FollowUps[j]] = 0
          BY <1>2, <4>1, <5>2 DEF Pending
        <5>4. QED
          BY <1>6, <4>1, <5>3
      <4>5. ASSUME NEW e \in Callers PROVE Pending(e)'
        <5>1. CASE e = c
          BY <4>4, <5>1 DEF Pending
        <5>2. CASE e # c
          BY <1>2, <1>6, <4>1, <4>3, <5>2 DEF Pending
        <5>3. QED
          BY <5>1, <5>2
      <4>6. \A e \in Callers : at'[e] \in Effects => at[e] \in Effects /\ of'[e] = of[e]
        BY <4>1, <4>2, <4>3
      <4>7. QED
        BY <2>2, <4>5, <4>6
    <3>4. CASE /\ at[c] = "act" /\ at' = [at EXCEPT ![c] = Head(FollowUps)]
               /\ UNCHANGED <<of, answer, done>>
               /\ row[of[c]] # "PAID" /\ row'[of[c]] = "PAID"
      <4>1. of[c] \in Links /\ at'[c] = Head(FollowUps) /\ at'[c] \in Effects
        BY <1>0, <3>4, FollowUpFacts DEF Busy, CallersTypeOK
      <4>2. \A e \in Callers : e # c => at'[e] = at[e]
        BY <1>0, <3>4 DEF CallersTypeOK
      <4>3. \A e \in Effects : done[of[c]][e] = 0
        BY <1>0, <3>4, <4>1 DEF NothingFollows
      <4>4. \A e \in Callers : at[e] \in Effects => of[e] # of[c]
        BY <1>3, <3>4
      <4>5. ASSUME NEW e \in Callers PROVE Pending(e)'
        <5>1. CASE e = c
          BY <1>6, <3>4, <4>3, <5>1, FollowUpFacts DEF Pending
        <5>2. CASE e # c
          BY <1>2, <1>6, <3>4, <4>2, <5>2 DEF Pending
        <5>3. QED
          BY <5>1, <5>2
      <4>6. \A e \in Callers : at'[e] \in Effects => row'[of'[e]] = "PAID"
        BY <1>1, <1>3, <3>4, <4>2
      <4>7. \A e, f \in Callers : at'[e] \in Effects /\ at'[f] \in Effects /\ of'[e] = of'[f] => e = f
        BY <1>0, <3>4, <4>2, <4>4 DEF OneFollows
      <4>8. QED
        BY <4>5, <4>6, <4>7 DEF OneFollows, Pending
    <3>5. CASE \E place \in {"insert", "fetch", "act", "note"} :
                 at' = [at EXCEPT ![c] = place] /\ \A e \in Callers : e # c => of'[e] = of[e]
      BY <1>0, <3>1, <3>5, FollowUpFacts DEF CallersTypeOK
    <3>6. QED
      BY <1>0, <2>6, <3>2, <3>3, <3>4, <3>5 DEF Moved, Begins, CallersTypeOK
  <2>7. QED
    BY <2>1, <2>4, <2>5, <2>6, CallersMove
<1>7. QED
  BY <1>5, <1>6, DoneMoves

-----------------------------------------------------------------------------
LEMMA LinksInit == Init => LinksInv
<1> SUFFICES ASSUME Init PROVE LinksInv
  OBVIOUS
<1>1. CallersTypeOK
  BY DEF Init, CallersTypeOK, LinkStatus
<1>2. RowsTypeOK
  BY DEF Init, RowsTypeOK, LinkStatus
<1>3. AskingTypeOK
  BY LinksAssumption DEF Init, AskingTypeOK
<1>4. Busy /\ OneCreator /\ AnswersHold
  BY DEF Init, Busy, OneCreator, AnswersHold, Final
<1>5. NothingFollows /\ OneFollows
  BY FollowUpFacts DEF Init, NothingFollows, OneFollows
<1>6. AskedOnce
  BY DEF Init, AskedOnce
<1>7. QED
  BY <1>1, <1>2, <1>3, <1>4, <1>5, <1>6, TypeParts DEF LinksInv

LEMMA LinksInvariance == Spec => []LinksInv
<1>1. ASSUME LinksInv, [Next]_vars PROVE LinksInv'
  <2>1. TypeOK'
    BY <1>1, CallersTypes, RowsTypes, AskingTypes
    DEF TypeOK, CallersTypeOK, RowsTypeOK, AskingTypeOK
  <2>2. QED
    BY <1>1, <2>1, AskingTypes, BusyStep, CreatorStep, AnswersStep, FollowsStep DEF LinksInv
<1>2. QED
  BY LinksInit, <1>1, PTL DEF Spec

(* The variables of links, callers and polling keep their types.           *)
THEOREM LinksTypeCorrect == Spec => []TypeOK
BY LinksInvariance, PTL DEF LinksInv

(* Every step of a caller, the scheduler or Razorpay is a step of          *)
(* SettledLinks or changes nothing a client sees.                          *)
LEMMA StepTells ==
  ASSUME LinksInv, [Next]_vars
  PROVE  [ImplementsLinks!LinksNext]_<<link, row, over, done>>
<1>0. /\ CallersTypeOK /\ RowsTypeOK /\ Busy /\ OneCreator /\ AnswersHold
      /\ NothingFollows /\ OneFollows
  BY TypeParts DEF LinksInv
<1> USE <1>0 DEF CallersTypeOK, RowsTypeOK
<1> DEFINE Told == ImplementsLinks!LinksNext \/ UNCHANGED <<link, row, over, done>>
<1>1. ASSUME NEW c \in Callers, Insert(c) PROVE ImplementsLinks!Record(of[c]) /\ of[c] \in Links
  BY <1>1 DEF Insert, Busy, OneCreator, ImplementsLinks!Record
<1>2. ASSUME NEW c \in Callers, MarkPaid(c) PROVE Told
  <2>1. of[c] \in Links /\ link[of[c]] = "paid" /\ row[of[c]] # "none"
    BY <1>2 DEF MarkPaid, Busy, AnswersHold, Final
  <2>2. CASE Wins(of[c])
    <3>1. ImplementsLinks!Paid(of[c])
      BY <1>2, <2>1, <2>2 DEF MarkPaid, Wins, ImplementsLinks!Paid
    <3>2. QED
      BY <2>1, <3>1 DEF ImplementsLinks!LinksNext
  <2>3. CASE ~ Wins(of[c])
    BY <1>2, <2>3 DEF MarkPaid
  <2>4. QED
    BY <2>2, <2>3
<1>3. ASSUME NEW c \in Callers, Close(c) PROVE Told
  <2>1. of[c] \in Links /\ link[of[c]] = answer[c]
    BY <1>3 DEF Close, Busy, AnswersHold, Final
  <2>2. CASE row[of[c]] = "PENDING"
    <3>1. ImplementsLinks!Closed(of[c])
      BY <1>3, <2>1, <2>2 DEF Close, ImplementsLinks!Closed
    <3>2. QED
      BY <2>1, <3>1 DEF ImplementsLinks!LinksNext
  <2>3. CASE row[of[c]] # "PENDING"
    BY <1>3, <2>3 DEF Close
  <2>4. QED
    BY <2>2, <2>3
<1>4. ASSUME NEW c \in Callers, FollowUp(c) PROVE Told
  <2>1. of[c] \in Links /\ row[of[c]] = "PAID" /\ at[c] \in Effects /\ done[of[c]][at[c]] = 0
    <3>1. at[c] \in Effects /\ of[c] \in Links /\ row[of[c]] = "PAID"
      BY <1>4, FollowUpFacts DEF FollowUp, Busy, OneFollows
    <3>2. PICK i \in DOMAIN FollowUps : FollowUps[i] = at[c]
      BY <3>1, FollowUpFacts
    <3>3. i <= i
      BY <3>2, FollowUpFacts
    <3>4. QED
      BY <3>1, <3>2, <3>3 DEF OneFollows
  <2>2. /\ done' = [done EXCEPT ![of[c]][at[c]] = done[of[c]][at[c]] + 1]
        /\ UNCHANGED <<link, row, over>>
    BY <1>4 DEF FollowUp, table
  <2>3. done' = [done EXCEPT ![of[c]][at[c]] = 1]
    BY <2>1, <2>2
  <2>4. ImplementsLinks!Follow(of[c], at[c])
    BY <2>1, <2>2, <2>3 DEF ImplementsLinks!Follow
  <2>5. QED
    BY <2>1, <2>4 DEF ImplementsLinks!LinksNext
<1>5. ASSUME NEW c \in Callers,
             NoGateway(c) \/ Fetch(c) \/ NoteAsked(c) \/ FetchFails(c) \/ FollowUpFails(c)
      PROVE  UNCHANGED <<link, row, over, done>>
  BY <1>5 DEF NoGateway, Fetch, NoteAsked, FetchFails, FollowUpFails, table
<1>6. ASSUME NEW c \in Requests, NEW l \in Links, Create(c, l) PROVE ImplementsLinks!Issue(l)
  BY <1>6 DEF Create, table, ImplementsLinks!Issue
<1>7. ASSUME NEW c \in Requests, NEW l \in Links, Refresh(c, l) \/ Deliver(c, l)
      PROVE  UNCHANGED <<link, row, over, done>>
  BY <1>7 DEF Refresh, Deliver, table
<1>8. ASSUME NEW l \in Links, EndLink(l) PROVE ImplementsLinks!End(l)
  BY <1>8 DEF EndLink, Final, table, ImplementsLinks!End
<1>9. ASSUME NEW l \in Links, TimeIsUp(l) PROVE ImplementsLinks!TimeIsUp(l)
  BY <1>9 DEF TimeIsUp, ImplementsLinks!TimeIsUp
<1>10. ASSUME NEW l \in Links, Ages(l) \/ Disconnect(l) \/ Connect(l)
       PROVE  UNCHANGED <<link, row, over, done>>
  BY <1>10 DEF Ages, Disconnect, Connect, table
<1>11. CASE PollExpire
  <2>1. row' = [l \in Links |-> IF row[l] = "PENDING" /\ l \in over THEN "EXPIRED" ELSE row[l]]
    BY <1>11 DEF PollExpire, Lapsing
  <2>2. ImplementsLinks!Lapse
    BY <1>11, <2>1 DEF PollExpire, ImplementsLinks!Lapse
  <2>3. QED
    BY <2>2 DEF ImplementsLinks!LinksNext
<1>12. CASE PollStep /\ ~ PollExpire
  BY <1>12 DEF PollStep, PollNext, PollList, PollDone, table
<1>13. CASE Crash \/ UNCHANGED vars
  BY <1>13 DEF Crash, vars, table
<1>14. Told
  BY <1>1, <1>2, <1>3, <1>4, <1>5, <1>6, <1>7, <1>8, <1>9, <1>10, <1>11, <1>12, <1>13
  DEF Next, CallerStep, ImplementsLinks!LinksNext
<1>15. QED
  BY <1>14

(* Whoever hears what of a link, how late and in which order: the row      *)
(* tells what became of it, and the effects of a payment follow once.      *)
THEOREM LinksAreSettled == Spec => TellsOnce
<1>1. Init => ImplementsLinks!LinksInit
  BY DEF Init, ImplementsLinks!LinksInit
<1>2. QED
  BY <1>1, StepTells, LinksInvariance, PTL
  DEF Spec, TellsOnce, ImplementsLinks!LinksSpec, ImplementsLinks!linkVars

-----------------------------------------------------------------------------
(***************************************************************************)
(* Mutual exclusion of withJobLock for any number of runs and any timing   *)
(* that satisfies Timely.  The invariant behind it: the lease of a run at  *)
(* work always outlives the time in which the next renewal is sure to      *)
(* land, whatever delays and failures are still allowed.                   *)
(***************************************************************************)

(* The time until a renewal of r is sure to have landed. *)
Reserve(r) ==
  IF flight[r] > 0 /\ misses[r] = MaxMisses
    THEN flight[r] - 1
    ELSE IF flight[r] > 0
           THEN beat[r] + MaxLag + (MaxMisses - misses[r] - 1) * RenewEvery
           ELSE beat[r] + MaxLag + (MaxMisses - misses[r]) * RenewEvery

(* The lease is the worker's and outlasts its reserve. *)
LeaseOutlasts ==
  \A r \in Runs : pc[r] = "running" => lease.holder = r /\ Reserve(r) < lease.left

(* A run that is not in the function, and whose name may be drawn again,   *)
(* has nothing in flight.                                                  *)
IdleIsClean == \A r \in Runs : pc[r] = "idle" => flight[r] = 0

(* A worker's heartbeat has been answered by the time the next is due. *)
AnsweredInTime ==
  \A r \in Runs : pc[r] = "running" /\ flight[r] > 0 => flight[r] <= beat[r]

IInv == LockTypeOK /\ IdleIsClean /\ AnsweredInTime /\ LeaseOutlasts

-----------------------------------------------------------------------------
(* The arithmetic the timing assumption is used for. *)
LEMMA FullReserve ==
  ASSUME Timely,
         NEW b \in 0 .. RenewEvery + MaxLag
  PROVE  /\ b + MaxLag + (MaxMisses - 0) * RenewEvery < Ttl
         /\ MaxLag < Ttl
<1>1. (MaxMisses + 1) * RenewEvery = MaxMisses * RenewEvery + RenewEvery
  BY LockAssumption
<1>2. MaxMisses * RenewEvery \in Nat
  BY LockAssumption
<1>3. QED
  BY <1>1, <1>2, LockAssumption DEF Timely

(* One miss more costs one period. *)
LEMMA OnePeriod ==
  ASSUME NEW m \in 0 .. MaxMisses
  PROVE  /\ (MaxMisses - m) * RenewEvery = RenewEvery + (MaxMisses - m - 1) * RenewEvery
         /\ (MaxMisses - m) * RenewEvery \in Nat
         /\ m < MaxMisses => (MaxMisses - m - 1) * RenewEvery \in Nat
BY LockAssumption

THEOREM LockTypeCorrect == LockSpec => []LockTypeOK
<1>1. LockInit => LockTypeOK
  BY LockAssumption DEF LockInit, LockTypeOK, NoLease
<1>2. LockTypeOK /\ [LockNext]_lockVars => LockTypeOK'
  <2> SUFFICES ASSUME LockTypeOK, [LockNext]_lockVars PROVE LockTypeOK'
    OBVIOUS
  <2> USE LockAssumption DEF LockTypeOK
  <2>1. ASSUME NEW r \in Runs, Acquire(r) PROVE LockTypeOK'
    BY <2>1 DEF Acquire, FullLease
  <2>2. ASSUME NEW r \in Runs, Beat(r) PROVE LockTypeOK'
    BY <2>2 DEF Beat
  <2>3. ASSUME NEW r \in Runs, Renew(r) PROVE LockTypeOK'
    BY <2>3 DEF Renew, FullLease
  <2>4. ASSUME NEW r \in Runs, RenewFails(r) PROVE LockTypeOK'
    BY <2>4 DEF RenewFails
  <2>5. ASSUME NEW r \in Runs, Finish(r) PROVE LockTypeOK'
    BY <2>5 DEF Finish
  <2>6. ASSUME NEW r \in Runs, Release(r) PROVE LockTypeOK'
    BY <2>6 DEF Release, Removed, NoLease
  <2>7. ASSUME NEW r \in Runs, Killed(r) PROVE LockTypeOK'
    BY <2>7 DEF Killed
  <2>8. ASSUME NEW r \in Runs, Recycle(r) PROVE LockTypeOK'
    BY <2>8 DEF Recycle
  <2>9. CASE Tick
    BY <2>9 DEF Tick, Less
  <2>10. CASE UNCHANGED lockVars
    BY <2>10 DEF lockVars
  <2>11. QED
    BY <2>1, <2>2, <2>3, <2>4, <2>5, <2>6, <2>7, <2>8, <2>9, <2>10 DEF LockNext, RunStep
<1>3. QED
  BY <1>1, <1>2, PTL DEF LockSpec

(* The type invariant is a proved fact from here on: what remains is that  *)
(* the other parts are preserved by a typed step.                          *)
LEMMA LeaseStep ==
  ASSUME Timely, IInv, LockTypeOK', [LockNext]_lockVars
  PROVE  IInv'
<1> USE LockAssumption DEF IInv, LockTypeOK, IdleIsClean, AnsweredInTime, LeaseOutlasts
<1>1. ASSUME NEW r \in Runs, Acquire(r) PROVE IInv'
  <2>1. /\ \A s \in Runs : pc[s] # "running"
        /\ flight[r] = 0
    BY <1>1 DEF Acquire, Free, Reserve
  <2>2. beat'[r] + MaxLag + (MaxMisses - 0) * RenewEvery < Ttl
    BY <1>1, FullReserve DEF Acquire
  <2>3. QED
    BY <1>1, <2>1, <2>2 DEF Acquire, FullLease, Reserve
<1>2. ASSUME NEW r \in Runs, Beat(r) PROVE IInv'
  BY <1>2, OnePeriod DEF Beat, Reserve
<1>3. ASSUME NEW r \in Runs, Renew(r) PROVE IInv'
  <2>1. CASE lease.holder = r
    <3>1. /\ \A s \in Runs : pc[s] = "running" => s = r
          /\ beat[r] + MaxLag + (MaxMisses - 0) * RenewEvery < Ttl
      BY <2>1, FullReserve
    <3>2. pc'[r] = "running" => Reserve(r)' < lease'.left
      BY <1>3, <2>1, <3>1 DEF Renew, FullLease, Reserve
    <3>3. QED
      BY <1>3, <2>1, <3>1, <3>2 DEF Renew, FullLease
  <2>2. CASE lease.holder # r
    BY <1>3, <2>2 DEF Renew, Reserve
  <2>3. QED
    BY <2>1, <2>2
<1>4. ASSUME NEW r \in Runs, RenewFails(r) PROVE IInv'
  BY <1>4, OnePeriod DEF RenewFails, Reserve
<1>5. ASSUME NEW r \in Runs, Finish(r) PROVE IInv'
  BY <1>5 DEF Finish, Reserve
<1>6. ASSUME NEW r \in Runs, Release(r) PROVE IInv'
  BY <1>6 DEF Release, Removed, NoLease, Reserve
<1>7. ASSUME NEW r \in Runs, Killed(r) PROVE IInv'
  BY <1>7 DEF Killed, Reserve
<1>8. ASSUME NEW r \in Runs, Recycle(r) PROVE IInv'
  BY <1>8 DEF Recycle, Reserve
<1>9. CASE Tick
  BY <1>9 DEF Tick, Less, Reserve
<1>10. CASE UNCHANGED lockVars
  BY <1>10 DEF lockVars, Reserve
<1>11. QED
  BY <1>1, <1>2, <1>3, <1>4, <1>5, <1>6, <1>7, <1>8, <1>9, <1>10 DEF LockNext, RunStep
LEMMA LeaseInvariant == ASSUME Timely PROVE LockSpec => []IInv
<1>1. LockInit => IInv
  BY LockAssumption
  DEF LockInit, LockTypeOK, NoLease, IInv, IdleIsClean, AnsweredInTime, LeaseOutlasts
<1>2. IInv /\ LockTypeOK' /\ [LockNext]_lockVars => IInv'
  BY LeaseStep
<1>3. QED
  BY <1>1, <1>2, LockTypeCorrect, PTL DEF LockSpec

LEMMA LeaseKeepsOthersOut ==
  ASSUME IInv
  PROVE  WorkerHoldsLease /\ OneAtATime
<1>1. ASSUME NEW r \in Runs, pc[r] = "running"
      PROVE  lease.holder = r /\ lease.left > 0
  <2>1. /\ lease.holder = r
        /\ Reserve(r) < lease.left
        /\ lease.left \in Int
    BY <1>1, LockAssumption DEF IInv, LockTypeOK, LeaseOutlasts
  <2>2. Reserve(r) >= 0
    <3>1. /\ flight[r] \in Nat /\ beat[r] \in Nat /\ misses[r] \in 0 .. MaxMisses
      BY LockAssumption DEF IInv, LockTypeOK
    <3>2. /\ (MaxMisses - misses[r]) * RenewEvery \in Nat
          /\ misses[r] < MaxMisses => (MaxMisses - misses[r] - 1) * RenewEvery \in Nat
      BY <3>1, OnePeriod
    <3>3. CASE flight[r] > 0 /\ misses[r] = MaxMisses
      BY <3>1, <3>3 DEF Reserve
    <3>4. CASE flight[r] > 0 /\ misses[r] # MaxMisses
      <4>1. (MaxMisses - misses[r] - 1) * RenewEvery \in Nat
        BY <3>1, <3>2, <3>4, LockAssumption
      <4>2. Reserve(r) = beat[r] + MaxLag + (MaxMisses - misses[r] - 1) * RenewEvery
        BY <3>4 DEF Reserve
      <4>3. QED
        BY <3>1, <4>1, <4>2, LockAssumption
    <3>5. CASE ~ (flight[r] > 0)
      BY <3>1, <3>2, <3>5, LockAssumption DEF Reserve
    <3>6. QED
      BY <3>3, <3>4, <3>5
  <2>3. Reserve(r) \in Int
    BY LockAssumption DEF IInv, LockTypeOK, Reserve
  <2>4. QED
    BY <2>1, <2>2, <2>3
<1>2. QED
  BY <1>1 DEF WorkerHoldsLease, OneAtATime, Working

(* A run at work holds an unexpired lease, so no instance can take the job *)
(* over halfway through, as withLock.ts promises of a long job.            *)
THEOREM WorkerHolds == ASSUME Timely PROVE LockSpec => []WorkerHoldsLease
BY LeaseInvariant, LeaseKeepsOthersOut, PTL

(* withJobLock lets exactly one instance win. *)
THEOREM MutualExclusion == ASSUME Timely PROVE LockSpec => []OneAtATime
BY LeaseInvariant, LeaseKeepsOthersOut, PTL

(* A run that lost its lease neither frees nor extends the one another run *)
(* has since taken, however late its heartbeat or release arrives and      *)
(* whatever the timing.                                                    *)
THEOREM OnlyHolder == LockSpec => OnlyHolderTouchesLease
<1>1. ASSUME NEW r \in Runs, lease.holder # r, RunStep(r), ~ Acquire(r)
      PROVE  UNCHANGED lease
  <2>1. CASE Renew(r)
    BY <1>1, <2>1 DEF Renew
  <2>2. CASE Release(r)
    BY <1>1, <2>2 DEF Release, Removed
  <2>3. QED
    BY <1>1, <2>1, <2>2 DEF RunStep, Beat, RenewFails, Finish, Killed, Recycle
<1>2. [LockNext]_lockVars =>
        [\A r \in Runs : lease.holder # r /\ RunStep(r) /\ ~ Acquire(r) => UNCHANGED lease]_lockVars
  BY <1>1
<1>3. QED
  BY <1>2, PTL DEF LockSpec, OnlyHolderTouchesLease

(* The lease is an implementation of the mutual exclusion the schedulers   *)
(* rely on: every step is a run entering an empty room, leaving it, or     *)
(* nothing seen from outside.                                              *)
THEOREM Refinement == ASSUME Timely PROVE LockSpec => ImplementsSingleRunner
<1>1. LockInit => Runner!Init
  BY DEF LockInit, Runner!Init, Working
<1>2. ASSUME IInv, [LockNext]_lockVars PROVE [Runner!Next]_Working
  <2> USE LockAssumption DEF Working, Runner!Next, Runner!Enter, Runner!Leave
  <2>1. LockTypeOK /\ WorkerHoldsLease
    BY <1>2, LeaseKeepsOthersOut DEF IInv
  <2>2. ASSUME NEW r \in Runs, Acquire(r) PROVE Runner!Enter(r)
    BY <2>1, <2>2 DEF Acquire, Free, WorkerHoldsLease, LockTypeOK
  <2>3. ASSUME NEW r \in Runs, Finish(r) PROVE Runner!Leave(r)
    BY <2>1, <2>3 DEF Finish, LockTypeOK
  <2>4. ASSUME NEW r \in Runs, Killed(r) PROVE Runner!Leave(r) \/ UNCHANGED Working
    BY <2>1, <2>4 DEF Killed, LockTypeOK
  <2>5. ASSUME NEW r \in Runs,
               Beat(r) \/ Renew(r) \/ RenewFails(r) \/ Release(r) \/ Recycle(r)
        PROVE  UNCHANGED Working
    BY <2>1, <2>5 DEF Beat, Renew, RenewFails, Release, Recycle, LockTypeOK
  <2>6. CASE Tick \/ UNCHANGED lockVars
    BY <2>6 DEF Tick, lockVars
  <2>7. QED
    BY <1>2, <2>2, <2>3, <2>4, <2>5, <2>6 DEF LockNext, RunStep
<1>3. QED
  BY <1>1, <1>2, LeaseInvariant, PTL DEF LockSpec, Runner!Spec, ImplementsSingleRunner
=============================================================================
