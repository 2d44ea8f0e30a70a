--------------------------- MODULE TriggeredRuns ---------------------------
(***************************************************************************)
(* What a customer can rely on when automations are delayed, answered and  *)
(* timed out: a trigger starts one run, a run goes on in one place at a    *)
(* time, at most one run of an automation waits for its contact, and a run *)
(* that is over never goes on.                                             *)
(***************************************************************************)
EXTENDS Naturals

CONSTANTS
  Runs,    \* one for each trigger
  NoRun

VARIABLES
  going,   \* the runs whose steps are being done
  parked,  \* the run that waits for a delay or for an answer
  over     \* the runs that will do no more steps

tVars == <<going, parked, over>>

RunsInit == going = {} /\ parked = NoRun /\ over = {}

(* Who was waiting and is not any more, if nobody took its steps up.       *)
Given(up) == over' = over \cup up

Waiting == IF parked = NoRun THEN {} ELSE {parked}

Begin(r) ==
  /\ r \notin going \cup over \cup Waiting
  /\ going' = going \cup {r}
  /\ UNCHANGED <<parked, over>>

Park(r) ==
  /\ r \in going
  /\ going' = going \ {r}
  /\ parked' = r
  /\ Given(Waiting)

Resume ==
  /\ parked # NoRun
  /\ parked \notin going
  /\ going' = going \cup {parked}
  /\ parked' = NoRun
  /\ UNCHANGED over

(* An answer, a timeout, an agent or a newer run puts an end to the wait.  *)
StopWaiting ==
  /\ parked # NoRun
  /\ parked' = NoRun
  /\ Given(Waiting)
  /\ UNCHANGED going

End(r) ==
  /\ r \in going
  /\ going' = going \ {r}
  /\ \/ UNCHANGED parked /\ Given({r})
     \/ parked' = NoRun /\ Given({r} \cup Waiting)

RunsNext ==
  \/ \E r \in Runs : Begin(r) \/ Park(r) \/ End(r)
  \/ Resume
  \/ StopWaiting

RunsSpec == RunsInit /\ [][RunsNext]_tVars
=============================================================================
