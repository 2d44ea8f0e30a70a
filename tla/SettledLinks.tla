---------------------------- MODULE SettledLinks ----------------------------
(***************************************************************************)
(* What a client can rely on who sends payment links: the row of a link    *)
(* says paid only of a link that was paid and then says so for good, says  *)
(* that a link is closed only of one that is or whose time is up, and what *)
(* follows a payment follows it once.                                      *)
(***************************************************************************)
EXTENDS Naturals

CONSTANTS
  Links,
  Effects   \* what follows a payment

VARIABLES
  link,     \* the links at Razorpay
  row,      \* what the client is shown
  over,     \* the links whose time is up
  done      \* how often each effect followed the payment of each link

linkVars == <<link, row, over, done>>

LinksInit ==
  /\ link = [l \in Links |-> "none"]
  /\ row = [l \in Links |-> "none"]
  /\ over = {}
  /\ done = [l \in Links |-> [e \in Effects |-> 0]]

Issue(l) ==
  /\ link[l] = "none"
  /\ link' = [link EXCEPT ![l] = "open"]
  /\ UNCHANGED <<row, over, done>>

Record(l) ==
  /\ link[l] # "none" /\ row[l] = "none"
  /\ row' = [row EXCEPT ![l] = "PENDING"]
  /\ UNCHANGED <<link, over, done>>

TimeIsUp(l) ==
  /\ over' = over \cup {l}
  /\ UNCHANGED <<link, row, done>>

End(l) ==
  /\ link[l] = "open"
  /\ \E end \in {"paid", "expired", "cancelled"} :
       /\ end = "expired" => l \in over
       /\ link' = [link EXCEPT ![l] = end]
  /\ UNCHANGED <<row, over, done>>

Paid(l) ==
  /\ row[l] \notin {"none", "PAID"} /\ link[l] = "paid"
  /\ row' = [row EXCEPT ![l] = "PAID"]
  /\ UNCHANGED <<link, over, done>>

Closed(l) ==
  /\ row[l] = "PENDING"
  /\ \/ link[l] = "expired" /\ row' = [row EXCEPT ![l] = "EXPIRED"]
     \/ link[l] = "cancelled" /\ row' = [row EXCEPT ![l] = "CANCELLED"]
  /\ UNCHANGED <<link, over, done>>

(* Links whose time is up may all be closed together, unasked.             *)
Lapse ==
  /\ row' = [l \in Links |-> IF row[l] = "PENDING" /\ l \in over THEN "EXPIRED" ELSE row[l]]
  /\ UNCHANGED <<link, over, done>>

Follow(l, e) ==
  /\ row[l] = "PAID" /\ done[l][e] = 0
  /\ done' = [done EXCEPT ![l][e] = 1]
  /\ UNCHANGED <<link, row, over>>

LinksNext ==
  \/ \E l \in Links :
       \/ Issue(l) \/ Record(l) \/ TimeIsUp(l) \/ End(l) \/ Paid(l) \/ Closed(l)
       \/ \E e \in Effects : Follow(l, e)
  \/ Lapse

LinksSpec == LinksInit /\ [][LinksNext]_linkVars
=============================================================================
