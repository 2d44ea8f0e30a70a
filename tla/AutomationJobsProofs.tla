------------------------ MODULE AutomationJobsProofs ------------------------
(***************************************************************************)
(* Theorems about delayed and answered automations, for any number of      *)
(* triggers, answers, workers, jobs and steps.                             *)
(***************************************************************************)
EXTENDS AutomationJobs, TLAPS

USE AutomationAssumption DEF Procs

(* The steps by what they do to a run.                                     *)
Around == Toggle \/ TakeOver \/ OptInOut \/ HoldBack \/ LetGo

LEMMA StepForms ==
  ASSUME [Next]_vars
  PROVE  \/ \E p \in Procs : RunStep(p) \/ PauseFails(p) \/ Die(p)
         \/ \E p \in Triggers : Trigger(p)
         \/ \E p \in Replies : StopFollowUps(p) \/ AnswerStep(p)
         \/ \E w \in Workers : Claim(w) \/ WorkerStep(w) \/ JobFails(w)
         \/ \E j \in Jobs : TimePasses(j)
         \/ Around
         \/ UNCHANGED vars
  BY DEF Next, Around
-----------------------------------------------------------------------------
(* Types.  A process that parks a run is at one of the steps, and a worker *)
(* that deals with a job has one in hand.                                  *)
Job == [type : JobTypes,
        status : {"none", "PENDING", "RUNNING", "DONE", "CANCELLED", "FAILED"},
        from : 1 .. Len(Steps) + 1, ripe : BOOLEAN, attempts : Int]

RowOK == /\ status \in Statuses /\ current \in 0 .. Len(Steps)
         /\ waitAt \in 0 .. Len(Steps) /\ who \in Triggers \cup {NoRun}
QueueOK == job \in [Jobs -> Job] /\ made \in 0 .. MaxJobs
WorldOK == /\ contact \in {"ACTIVE", "UNSUBSCRIBED"}
           /\ active \in BOOLEAN /\ paused \in BOOLEAN /\ hold \in BOOLEAN
           /\ upsets \in 0 .. MaxUpsets
PlaceOK == /\ at \in [Procs -> Places]
           /\ run \in [Procs -> Triggers \cup {NoRun}]
           /\ pos \in [Procs -> 1 .. Len(Steps) + 1]
           /\ seen \in [Procs -> Snapshot]
           /\ hand \in [Procs -> Jobs \cup {0}]
           /\ batch \in [Workers -> SUBSET Jobs]
PastOK == reached \in [Triggers -> 0 .. Len(Steps)] /\ fired \in [Jobs -> Nat]

Placed(p) ==
  /\ at[p] \in {"delay", "park", "wait", "alarm"} => pos[p] \in Index
  /\ at[p] \in Working \ {"pick"} => p \in Workers /\ hand[p] \in Jobs
  /\ at[p] \in Answering => p \in Replies
  /\ at[p] = "pick" => p \in Workers

Good == TypeOK /\ \A p \in Procs : Placed(p)

LEMMA TypeParts == TypeOK <=> RowOK /\ QueueOK /\ WorldOK /\ PlaceOK /\ PastOK
  BY DEF TypeOK, RowOK, QueueOK, WorldOK, PlaceOK, PastOK, Job

LEMMA StepsKnown == Len(Steps) \in Nat /\ Len(Steps) >= 1
  OBVIOUS

LEMMA Ways ==
  /\ Going = {"contact", "cancel", "restart", "next", "delay", "park", "wait"}
  /\ Answering = {"scan", "unqueue", "replied", "find", "take", "untime"}
  /\ Working = {"pick", "check", "stop", "drop", "defer", "timeout", "close", "flip", "finish"}
  /\ Places = {"new", "done", "idle", "alarm"} \cup Going \cup Answering \cup Working
  BY DEF Going, Answering, Working, Places

LEMMA WorldStep ==
  ASSUME WorldOK, [Next]_vars
  PROVE  WorldOK'
<1>1. CASE UNCHANGED <<world, upsets>>
  BY <1>1 DEF WorldOK, world
<1>2. CASE Upset /\ UNCHANGED world
  BY <1>2 DEF WorldOK, world, Upset
<1>3. CASE Around
  <2>1. Upset \/ UNCHANGED upsets
    BY <1>3 DEF Around, Toggle, TakeOver, OptInOut, HoldBack, LetGo
  <2>2. upsets' \in 0 .. MaxUpsets
    BY <2>1 DEF WorldOK, Upset
  <2>3. contact' \in {"ACTIVE", "UNSUBSCRIBED"}
    BY <1>3 DEF Around, Toggle, TakeOver, OptInOut, HoldBack, LetGo, WorldOK
  <2>4. active' \in BOOLEAN
    BY <1>3 DEF Around, Toggle, TakeOver, OptInOut, HoldBack, LetGo, WorldOK
  <2>5. paused' \in BOOLEAN
    BY <1>3 DEF Around, Toggle, TakeOver, OptInOut, HoldBack, LetGo, WorldOK
  <2>6. hold' \in BOOLEAN
    BY <1>3 DEF Around, Toggle, TakeOver, OptInOut, HoldBack, LetGo, WorldOK
  <2> QED
    BY <2>2, <2>3, <2>4, <2>5, <2>6 DEF WorldOK
<1>4. ASSUME NEW p \in Procs, RunStep(p) \/ PauseFails(p) \/ Die(p)
      PROVE  UNCHANGED <<world, upsets>> \/ (Upset /\ UNCHANGED world)
  BY <1>4 DEF RunStep, CheckContact, OptedOut, CancelOld, Restart, BeginStep, AddJob,
     ParkScheduled, ParkWaiting, AddTimeout, Complete, PauseFails, Die
<1>5. ASSUME NEW p \in Replies, StopFollowUps(p) \/ AnswerStep(p)
      PROVE  UNCHANGED <<world, upsets>>
  BY <1>5 DEF StopFollowUps, AnswerStep, Unqueue, MarkReplied, FindWait, NoMatch,
     AnswerWait, TooLate, CancelTimeout
<1>6. ASSUME NEW w \in Workers, Claim(w) \/ WorkerStep(w) \/ JobFails(w)
      PROVE  UNCHANGED <<world, upsets>> \/ (Upset /\ UNCHANGED world)
  BY <1>6 DEF Claim, WorkerStep, BatchDone, ReadRow, CheckChat, StopSequence,
     FinishUnrun, DeferJob, Flip, FinishJob, JobFails
<1> QED
  BY StepForms, <1>1, <1>2, <1>3, <1>4, <1>5, <1>6 DEF Trigger, TimePasses, vars

LEMMA RowStep ==
  ASSUME Good, [Next]_vars
  PROVE  RowOK'
<1>0. RowOK /\ PlaceOK
  BY TypeParts DEF Good
<1>1. CASE UNCHANGED row
  BY <1>0, <1>1 DEF RowOK, row
<1>2. ASSUME NEW s \in Statuses, SetStatus(s) PROVE RowOK'
  BY <1>0, <1>2 DEF RowOK, SetStatus, Row
<1>3. ASSUME NEW p \in Procs, RunStep(p) PROVE RowOK'
  <2>1. CASE OptedOut(p) \/ Complete(p)
    BY <1>0, <1>2, <2>1 DEF OptedOut, Complete, Statuses, RowOK
  <2>2. CASE Restart(p)
    BY <1>0, <2>2, StepsKnown DEF Restart, Row, RowOK, Statuses
  <2>3. CASE BeginStep(p)
    BY <1>0, <2>3 DEF BeginStep, Row, RowOK, Index
  <2>4. CASE ParkScheduled(p) \/ ParkWaiting(p)
    <3>1. pos[p] \in Index
      BY <2>4 DEF Good, Placed, ParkScheduled, ParkWaiting
    <3>2. run[p] \in Triggers \cup {NoRun}
      BY <1>0 DEF PlaceOK
    <3> QED
      BY <1>0, <2>4, <3>1, <3>2 DEF ParkScheduled, ParkWaiting, Row, RowOK, Statuses, Index
  <2> QED
    BY <1>1, <1>3, <2>1, <2>2, <2>3, <2>4 DEF RunStep, CheckContact, CancelOld, AddJob, AddTimeout
<1>4. ASSUME NEW p \in Replies, AnswerStep(p) PROVE RowOK'
  <2>1. NextStatus(p) \in Statuses
    BY DEF NextStatus, Statuses
  <2>2. CASE AnswerWait(p) \/ MarkReplied(p)
    BY <1>0, <1>2, <2>1, <2>2 DEF AnswerWait, MarkReplied, TakeUp, Statuses, RowOK
  <2> QED
    BY <1>1, <1>4, <2>2 DEF AnswerStep, Unqueue, FindWait, NoMatch, TooLate, CancelTimeout
<1>5. ASSUME NEW w \in Workers, Claim(w) \/ WorkerStep(w) \/ JobFails(w) PROVE RowOK'
  <2>1. CASE StopSequence(w)
    BY <1>0, <1>2, <2>1 DEF StopSequence, Statuses, RowOK
  <2>2. CASE Flip(w)
    BY <1>0, <1>1, <1>2, <2>2 DEF Flip, TakeUp, Statuses, RowOK
  <2> QED
    BY <1>1, <1>5, <2>1, <2>2 DEF Claim, WorkerStep, BatchDone, ReadRow, CheckChat,
       FinishUnrun, DeferJob, FinishJob, JobFails
<1>6. ASSUME NEW p \in Procs, PauseFails(p) \/ Die(p) PROVE RowOK'
  BY <1>1, <1>2, <1>6 DEF PauseFails, Die, Statuses
<1>7. CASE Around \/ \E p \in Replies : StopFollowUps(p)
  BY <1>1, <1>7 DEF Around, Toggle, TakeOver, OptInOut, HoldBack, LetGo, StopFollowUps
<1> QED
  BY StepForms, <1>1, <1>3, <1>4, <1>5, <1>6, <1>7 DEF Trigger, TimePasses, vars

LEMMA QueueStep ==
  ASSUME Good, [Next]_vars
  PROVE  QueueOK'
<1>0. QueueOK
  BY TypeParts DEF Good
<1>1. CASE UNCHANGED queue
  BY <1>0, <1>1 DEF QueueOK, queue
<1>2. ASSUME NEW types, job' = Cancelled(types), UNCHANGED made PROVE QueueOK'
  BY <1>0, <1>2 DEF QueueOK, Cancelled, Job
<1>3. ASSUME NEW type \in JobTypes, NEW from \in 1 .. Len(Steps) + 1, ScheduleJob(type, from)
      PROVE  QueueOK'
  <2>1. NewJob(type, from) \in Job
    BY DEF NewJob, Job
  <2>2. made' \in 0 .. MaxJobs
    BY <1>0, <1>3 DEF ScheduleJob, QueueOK
  <2>3. job' \in [Jobs -> Job]
    BY <1>0, <1>3, <2>1 DEF ScheduleJob, QueueOK
  <2> QED
    BY <2>2, <2>3 DEF QueueOK
<1>4. ASSUME NEW j \in Jobs, NEW s \in {"PENDING", "DONE", "CANCELLED", "FAILED"},
             NEW r \in BOOLEAN, NEW n \in Int,
             \/ job' = [job EXCEPT ![j].status = s]
             \/ job' = [job EXCEPT ![j].status = s, ![j].ripe = r]
             \/ job' = [job EXCEPT ![j].status = s, ![j].ripe = r, ![j].attempts = n],
             UNCHANGED made
      PROVE  QueueOK'
  <2>1. job[j] \in Job
    BY <1>0 DEF QueueOK
  <2>2. job' \in [Jobs -> Job]
    <3>1. CASE job' = [job EXCEPT ![j].status = s]
      BY <1>0, <2>1, <3>1 DEF QueueOK, Job
    <3>2. CASE job' = [job EXCEPT ![j].status = s, ![j].ripe = r]
      BY <1>0, <2>1, <3>2 DEF QueueOK, Job
    <3>3. CASE job' = [job EXCEPT ![j].status = s, ![j].ripe = r, ![j].attempts = n]
      BY <1>0, <2>1, <3>3 DEF QueueOK, Job
    <3> QED
      BY <1>4, <3>1, <3>2, <3>3
  <2> QED
    BY <1>0, <1>4, <2>2 DEF QueueOK
<1>5. ASSUME NEW p \in Procs, RunStep(p) PROVE QueueOK'
  <2>1. CASE CancelOld(p)
    BY <1>2, <2>1 DEF CancelOld
  <2>2. CASE AddJob(p) \/ AddTimeout(p)
    <3>1. pos[p] + 1 \in 1 .. Len(Steps) + 1
      BY <2>2, StepsKnown DEF Good, Placed, AddJob, AddTimeout, Index
    <3> QED
      BY <1>3, <2>2, <3>1 DEF AddJob, AddTimeout, JobTypes
  <2> QED
    BY <1>1, <1>5, <2>1, <2>2 DEF RunStep, CheckContact, OptedOut, Restart, BeginStep,
       ParkScheduled, ParkWaiting, Complete
<1>6. ASSUME NEW p \in Replies, StopFollowUps(p) \/ AnswerStep(p) PROVE QueueOK'
  BY <1>1, <1>2, <1>6 DEF StopFollowUps, AnswerStep, Unqueue, MarkReplied, FindWait,
     NoMatch, AnswerWait, TooLate, CancelTimeout
<1>7. ASSUME NEW w \in Workers, WorkerStep(w) \/ JobFails(w) PROVE QueueOK'
  <2>1. CASE at[w] \in Working \ {"pick"}
    <3>1. hand[w] \in Jobs /\ job[hand[w]].attempts - 1 \in Int
      BY <1>0, <2>1 DEF Good, Placed, QueueOK, Job
    <3>2. CASE FinishUnrun(w) \/ FinishJob(w)
      BY <1>4, <3>1, <3>2 DEF FinishUnrun, FinishJob, SetJob
    <3>3. CASE DeferJob(w)
      BY <1>4, <3>1, <3>3 DEF DeferJob
    <3>4. CASE JobFails(w)
      BY <1>4, <3>1, <3>4 DEF JobFails, SetJob
    <3> QED
      BY <1>1, <1>7, <3>2, <3>3, <3>4 DEF WorkerStep, BatchDone, ReadRow, CheckChat,
         StopSequence, Flip
  <2>2. CASE at[w] = "pick"
    BY <1>1, <1>7, <2>2 DEF WorkerStep, BatchDone, ReadRow, CheckChat, StopSequence,
       FinishUnrun, DeferJob, Flip, FinishJob, JobFails
  <2>3. at[w] \in Working
    BY <1>7, Ways DEF WorkerStep, BatchDone, ReadRow, CheckChat, StopSequence,
       FinishUnrun, DeferJob, Flip, FinishJob, JobFails
  <2> QED
    BY <2>1, <2>2, <2>3
<1>8. ASSUME NEW w \in Workers, Claim(w) PROVE QueueOK'
  <2>1. PICK chosen \in SUBSET Claimable :
          job' = [j \in Jobs |->
                    IF j \in chosen
                    THEN [job[j] EXCEPT !.status = "RUNNING", !.ripe = FALSE,
                                        !.attempts = @ + 1]
                    ELSE job[j]]
    BY <1>8 DEF Claim
  <2>2. ASSUME NEW j \in Jobs
        PROVE  [job[j] EXCEPT !.status = "RUNNING", !.ripe = FALSE, !.attempts = @ + 1] \in Job
    <3> DEFINE n == job[j].attempts + 1
    <3>1. job[j] \in Job /\ n \in Int
      BY <1>0 DEF QueueOK, Job
    <3> HIDE DEF n
    <3>2. [job[j] EXCEPT !.status = "RUNNING", !.ripe = FALSE, !.attempts = n] \in Job
      BY <3>1 DEF Job
    <3> QED
      BY <3>2 DEF n
  <2>3. job' \in [Jobs -> Job]
    BY <1>0, <2>1, <2>2 DEF QueueOK
  <2>4. made' = made
    BY <1>8 DEF Claim
  <2> QED
    BY <1>0, <2>3, <2>4 DEF QueueOK
<1>9. ASSUME NEW j \in Jobs, TimePasses(j) PROVE QueueOK'
  <2>1. job' = [job EXCEPT ![j].ripe = TRUE] /\ UNCHANGED made
    BY <1>9 DEF TimePasses
  <2>2. job[j] \in Job
    BY <1>0 DEF QueueOK
  <2>3. job' \in [Jobs -> Job]
    BY <1>0, <2>1, <2>2 DEF QueueOK, Job
  <2> QED
    BY <1>0, <2>1, <2>3 DEF QueueOK
<1>10. CASE Around
  BY <1>1, <1>10 DEF Around, Toggle, TakeOver, OptInOut, HoldBack, LetGo
<1>11. ASSUME NEW p \in Procs, PauseFails(p) \/ Die(p) PROVE QueueOK'
  BY <1>1, <1>11 DEF PauseFails, Die
<1> QED
  BY StepForms, <1>1, <1>5, <1>6, <1>7, <1>8, <1>9, <1>10, <1>11 DEF Trigger, vars

LEMMA PastStep ==
  ASSUME Good, [Next]_vars
  PROVE  PastOK'
<1>0. PastOK
  BY TypeParts DEF Good
<1>1. CASE UNCHANGED past
  BY <1>0, <1>1 DEF PastOK, past
<1>2. ASSUME NEW p \in Procs, BeginStep(p) PROVE PastOK'
  <2>1. /\ pos[p] \in 0 .. Len(Steps)
        /\ reached' = [reached EXCEPT ![run[p]] = IF pos[p] > @ THEN pos[p] ELSE @]
        /\ UNCHANGED fired
    BY <1>2, StepsKnown DEF BeginStep, Index
  <2>2. reached' \in [Triggers -> 0 .. Len(Steps)]
    BY <1>0, <2>1 DEF PastOK
  <2> QED
    BY <1>0, <2>1, <2>2 DEF PastOK
<1>3. ASSUME NEW w \in Workers, FinishJob(w) PROVE PastOK'
  <2>1. fired' = [fired EXCEPT ![hand[w]] = @ + 1] /\ UNCHANGED reached
    BY <1>3 DEF FinishJob
  <2>2. hand[w] \in Jobs
    BY <1>3, Ways DEF FinishJob, Good, Placed
  <2>3. fired' \in [Jobs -> Nat]
    BY <1>0, <2>1, <2>2 DEF PastOK
  <2> QED
    BY <1>0, <2>1, <2>3 DEF PastOK
<1>4. ASSUME NEW p \in Procs, RunStep(p) \/ PauseFails(p) \/ Die(p) PROVE PastOK'
  BY <1>1, <1>2, <1>4 DEF RunStep, CheckContact, OptedOut, CancelOld, Restart, AddJob,
     ParkScheduled, ParkWaiting, AddTimeout, Complete, PauseFails, Die
<1>5. ASSUME NEW p \in Replies, StopFollowUps(p) \/ AnswerStep(p) PROVE PastOK'
  BY <1>1, <1>5 DEF StopFollowUps, AnswerStep, Unqueue, MarkReplied, FindWait,
     NoMatch, AnswerWait, TooLate, CancelTimeout
<1>6. ASSUME NEW w \in Workers, Claim(w) \/ WorkerStep(w) \/ JobFails(w) PROVE PastOK'
  BY <1>1, <1>3, <1>6 DEF Claim, WorkerStep, BatchDone, ReadRow, CheckChat,
     StopSequence, FinishUnrun, DeferJob, Flip, JobFails
<1>7. CASE Around
  BY <1>1, <1>7 DEF Around, Toggle, TakeOver, OptInOut, HoldBack, LetGo
<1> QED
  BY StepForms, <1>1, <1>4, <1>5, <1>6, <1>7 DEF Trigger, TimePasses, vars

LEMMA Alone ==
  ASSUME Good, NEW p \in Procs, NEW place \in Places, Goto(p, place),
         NEW i \in 1 .. Len(Steps) + 1, pos' = [pos EXCEPT ![p] = i],
         NEW j \in Jobs \cup {0}, hand' = [hand EXCEPT ![p] = j],
         run' \in [Procs -> Triggers \cup {NoRun}], seen' \in [Procs -> Snapshot],
         batch' \in [Workers -> SUBSET Jobs],
         place \in {"delay", "park", "wait", "alarm"} => i \in Index,
         place \in Working \ {"pick"} => p \in Workers /\ j \in Jobs,
         place \in Answering => p \in Replies,
         place = "pick" => p \in Workers
  PROVE  PlaceOK' /\ \A q \in Procs : Placed(q)'
<1>0. PlaceOK
  BY TypeParts DEF Good
<1>1. PlaceOK'
  BY <1>0 DEF PlaceOK, Goto
<1>2. Placed(p)'
  BY <1>0 DEF PlaceOK, Goto, Placed
<1>3. ASSUME NEW q \in Procs, q # p PROVE Placed(q)'
  <2>1. at'[q] = at[q] /\ pos'[q] = pos[q] /\ hand'[q] = hand[q]
    BY <1>0, <1>3 DEF PlaceOK, Goto
  <2> QED
    BY <2>1 DEF Good, Placed
<1> QED
  BY <1>1, <1>2, <1>3

(* A process that goes somewhere with what it has.                         *)
LEMMA GoesTo ==
  ASSUME Good, NEW p \in Procs, NEW place \in Places, Goto(p, place),
         UNCHANGED <<pos, hand, batch>>,
         run' \in [Procs -> Triggers \cup {NoRun}], seen' \in [Procs -> Snapshot],
         place \in {"delay", "park", "wait", "alarm"} => pos[p] \in Index,
         place \in Working \ {"pick"} => p \in Workers /\ hand[p] \in Jobs,
         place \in Answering => p \in Replies,
         place = "pick" => p \in Workers
  PROVE  PlaceOK' /\ \A q \in Procs : Placed(q)'
<1>0. PlaceOK
  BY TypeParts DEF Good
<1>1. pos' = [pos EXCEPT ![p] = pos[p]] /\ hand' = [hand EXCEPT ![p] = hand[p]]
  BY <1>0 DEF PlaceOK
<1>2. pos[p] \in 1 .. Len(Steps) + 1 /\ hand[p] \in Jobs \cup {0} /\ batch' \in [Workers -> SUBSET Jobs]
  BY <1>0 DEF PlaceOK
<1> QED
  BY <1>1, <1>2, Alone

LEMMA Leaves ==
  ASSUME Good, NEW p \in Procs, NEW place, Leave(p, place),
         place \in {"done", "idle"} \/ (place = "pick" /\ p \in Workers),
         batch' \in [Workers -> SUBSET Jobs]
  PROVE  PlaceOK' /\ \A q \in Procs : Placed(q)'
<1>0. PlaceOK
  BY TypeParts DEF Good
<1>1. run' \in [Procs -> Triggers \cup {NoRun}]
  BY <1>0 DEF PlaceOK, Leave
<1>2. NoSnapshot \in Snapshot
  BY StepsKnown DEF NoSnapshot, Snapshot
<1>3. seen' \in [Procs -> Snapshot]
  BY <1>0, <1>2 DEF PlaceOK, Leave
<1>4. 1 \in 1 .. Len(Steps) + 1 /\ 0 \in Jobs \cup {0} /\ place \in Places
  BY StepsKnown, Ways
<1>5. place \notin {"delay", "park", "wait", "alarm"} /\ place \notin Answering /\ place \notin Working \ {"pick"}
  BY Ways
<1>6. Goto(p, place) /\ pos' = [pos EXCEPT ![p] = 1] /\ hand' = [hand EXCEPT ![p] = 0]
  BY DEF Leave
<1> QED
  BY <1>1, <1>3, <1>4, <1>5, <1>6, Alone

LEMMA GoesOn ==
  ASSUME Good, NEW p \in Procs, GoOn(p), UNCHANGED batch
  PROVE  PlaceOK' /\ \A q \in Procs : Placed(q)'
<1>1. batch' \in [Workers -> SUBSET Jobs]
  BY TypeParts DEF Good, PlaceOK
<1> QED
  BY <1>1, Leaves DEF GoOn

LEMMA PlacesStep ==
  ASSUME Good, [Next]_vars
  PROVE  PlaceOK' /\ \A q \in Procs : Placed(q)'
<1>0. PlaceOK
  BY TypeParts DEF Good
<1>k. /\ run \in [Procs -> Triggers \cup {NoRun}]
      /\ pos \in [Procs -> 1 .. Len(Steps) + 1]
      /\ seen \in [Procs -> Snapshot]
      /\ hand \in [Procs -> Jobs \cup {0}]
      /\ batch \in [Workers -> SUBSET Jobs]
  BY <1>0 DEF PlaceOK
<1>l. Look \in Snapshot
  BY TypeParts DEF Good, RowOK, WorldOK, Look, Snapshot
<1>1. CASE UNCHANGED <<at, run, pos, seen, hand, batch>>
  BY <1>0, <1>1 DEF PlaceOK, Good, Placed
<1>2. ASSUME NEW p \in Procs, RunStep(p) PROVE PlaceOK' /\ \A q \in Procs : Placed(q)'
  <2>1. CASE CheckContact(p) \/ CancelOld(p) \/ Restart(p)
    <3>1. PICK place \in {"cancel", "next", "restart"} : Goto(p, place)
      BY <2>1 DEF CheckContact, CancelOld, Restart
    <3>2. UNCHANGED <<run, pos, seen, hand, batch>>
      BY <2>1 DEF CheckContact, CancelOld, Restart
    <3> QED
      BY <1>k, <3>1, <3>2, Ways, GoesTo
  <2>2. CASE OptedOut(p) \/ ParkScheduled(p) \/ AddTimeout(p) \/ Complete(p)
    BY <2>2, GoesOn DEF OptedOut, ParkScheduled, AddTimeout, Complete
  <2>3. CASE BeginStep(p)
    <3>1. Place(pos[p]) \in {"wait", "delay", "next"} /\ pos[p] \in Index
      BY <2>3 DEF BeginStep, Place
    <3> DEFINE i == IF Place(pos[p]) = "next" THEN pos[p] + 1 ELSE pos[p]
    <3>2. i \in 1 .. Len(Steps) + 1
      BY <3>1, StepsKnown DEF Index
    <3>3. pos' = [pos EXCEPT ![p] = i] /\ hand' = [hand EXCEPT ![p] = hand[p]]
          /\ Goto(p, Place(pos[p])) /\ UNCHANGED <<run, seen, batch>>
      BY <1>k, <2>3 DEF BeginStep
    <3>4. Place(pos[p]) # "next" => i \in Index
      BY <3>1
    <3> HIDE DEF i
    <3>5. /\ Place(pos[p]) \in Places /\ hand[p] \in Jobs \cup {0}
          /\ Place(pos[p]) \in {"delay", "park", "wait", "alarm"} => i \in Index
          /\ Place(pos[p]) \notin Answering /\ Place(pos[p]) \notin Working
          /\ Place(pos[p]) # "pick"
      BY <1>k, <3>1, <3>4, Ways
    <3>6. /\ run' \in [Procs -> Triggers \cup {NoRun}] /\ seen' \in [Procs -> Snapshot]
          /\ batch' \in [Workers -> SUBSET Jobs]
      BY <1>k, <3>3
    <3> QED
      BY <3>2, <3>3, <3>5, <3>6, Alone
  <2>4. CASE AddJob(p)
    <3>1. pos[p] \in Index
      BY <2>4 DEF AddJob, Good, Placed
    <3> QED
      BY <1>k, <2>4, <3>1, Ways, GoesTo DEF AddJob
  <2>5. CASE ParkWaiting(p)
    <3>1. pos[p] \in Index
      BY <2>5 DEF ParkWaiting, Good, Placed
    <3>2. CASE GoOn(p)
      BY <2>5, <3>2, GoesOn DEF ParkWaiting
    <3>3. CASE Goto(p, "alarm") /\ UNCHANGED <<run, pos, seen, hand>>
      BY <1>k, <2>5, <3>1, <3>3, Ways, GoesTo DEF ParkWaiting
    <3> QED
      BY <2>5, <3>2, <3>3 DEF ParkWaiting
  <2> QED
    BY <1>2, <2>1, <2>2, <2>3, <2>4, <2>5 DEF RunStep
<1>3. ASSUME NEW p \in Procs, PauseFails(p) \/ Die(p) PROVE PlaceOK' /\ \A q \in Procs : Placed(q)'
  <2>1. CASE PauseFails(p)
    BY <2>1, GoesOn DEF PauseFails
  <2>2. CASE Die(p)
    <3>1. batch' \in [Workers -> SUBSET Jobs]
      BY <1>k, <2>2 DEF Die
    <3>2. PICK place \in {"idle", "done"} : Leave(p, place)
      BY <2>2 DEF Die
    <3> QED
      BY <3>1, <3>2, Leaves
  <2> QED
    BY <1>3, <2>1, <2>2
<1>4. ASSUME NEW p \in Triggers, Trigger(p) PROVE PlaceOK' /\ \A q \in Procs : Placed(q)'
  BY <1>4, <1>k, Ways, GoesTo DEF Trigger
<1>5. ASSUME NEW p \in Replies, StopFollowUps(p) \/ AnswerStep(p)
      PROVE  PlaceOK' /\ \A q \in Procs : Placed(q)'
  <2>1. CASE StopFollowUps(p) \/ Unqueue(p) \/ MarkReplied(p)
    <3>1. PICK place \in {"unqueue", "find", "replied"} : Goto(p, place)
      BY <2>1 DEF StopFollowUps, Unqueue, MarkReplied
    <3>2. UNCHANGED <<run, pos, seen, hand, batch>>
      BY <2>1 DEF StopFollowUps, Unqueue, MarkReplied
    <3> QED
      BY <1>k, <3>1, <3>2, Ways, GoesTo
  <2>2. CASE FindWait(p)
    <3>1. seen' \in [Procs -> Snapshot]
      BY <1>k, <1>l, <2>2 DEF FindWait
    <3> QED
      BY <1>k, <2>2, <3>1, Ways, GoesTo DEF FindWait
  <2>3. CASE NoMatch(p) \/ TooLate(p)
    BY <2>3, GoesOn DEF NoMatch, TooLate
  <2>4. CASE AnswerWait(p)
    <3>1. run' \in [Procs -> Triggers \cup {NoRun}]
      BY <1>k, <2>4, TypeParts DEF AnswerWait, TakeUp, Good, RowOK
    <3> QED
      BY <1>k, <2>4, <3>1, Ways, GoesTo DEF AnswerWait
  <2>5. CASE CancelTimeout(p)
    <3>1. CASE run[p] = NoRun
      BY <2>5, <3>1, GoesOn DEF CancelTimeout
    <3>2. CASE run[p] # NoRun
      <4>1. seen[p].step + 1 \in 1 .. Len(Steps) + 1
        BY <1>k, StepsKnown DEF Snapshot
      <4>2. /\ Goto(p, "contact") /\ pos' = [pos EXCEPT ![p] = seen[p].step + 1]
            /\ hand' = [hand EXCEPT ![p] = hand[p]] /\ UNCHANGED <<run, seen, batch>>
        BY <1>k, <2>5, <3>2 DEF CancelTimeout
      <4>3. /\ "contact" \in Places /\ "contact" \notin Working \cup Answering
            /\ hand[p] \in Jobs \cup {0} /\ run' \in [Procs -> Triggers \cup {NoRun}]
            /\ seen' \in [Procs -> Snapshot] /\ batch' \in [Workers -> SUBSET Jobs]
        BY <1>k, <4>2, Ways
      <4> QED
        BY <4>1, <4>2, <4>3, Alone
    <3> QED
      BY <3>1, <3>2
  <2> QED
    BY <1>5, <2>1, <2>2, <2>3, <2>4, <2>5 DEF AnswerStep
<1>6. ASSUME NEW w \in Workers, Claim(w) PROVE PlaceOK' /\ \A q \in Procs : Placed(q)'
  <2>1. PICK chosen \in SUBSET Jobs : batch' = [batch EXCEPT ![w] = chosen]
    BY <1>6 DEF Claim, Claimable
  <2>2. /\ Goto(w, "pick") /\ pos' = [pos EXCEPT ![w] = pos[w]]
        /\ hand' = [hand EXCEPT ![w] = hand[w]] /\ UNCHANGED <<run, seen>>
    BY <1>6, <1>k DEF Claim
  <2>3. batch' \in [Workers -> SUBSET Jobs]
    BY <1>k, <2>1
  <2>4. /\ "pick" \in Places /\ "pick" \notin Answering
        /\ hand[w] \in Jobs \cup {0} /\ pos[w] \in 1 .. Len(Steps) + 1
        /\ run' \in [Procs -> Triggers \cup {NoRun}] /\ seen' \in [Procs -> Snapshot]
    BY <1>k, <2>2, Ways
  <2> QED
    BY <2>2, <2>3, <2>4, Alone
<1>7. ASSUME NEW w \in Workers, WorkerStep(w) \/ JobFails(w)
      PROVE  PlaceOK' /\ \A q \in Procs : Placed(q)'
  <2>1. CASE BatchDone(w)
    BY <1>k, <2>1, Ways, GoesTo DEF BatchDone
  <2>2. CASE ReadRow(w)
    <3>1. PICK j \in batch[w], place \in {"drop", "stop", "check"} :
            /\ hand' = [hand EXCEPT ![w] = j]
            /\ batch' = [batch EXCEPT ![w] = @ \ {j}]
            /\ Goto(w, place)
      BY <2>2 DEF ReadRow
    <3>2. j \in Jobs /\ batch' \in [Workers -> SUBSET Jobs]
      BY <1>k, <3>1
    <3>3. /\ pos' = [pos EXCEPT ![w] = pos[w]] /\ UNCHANGED run
          /\ seen' \in [Procs -> Snapshot]
      BY <1>k, <1>l, <2>2 DEF ReadRow
    <3> QED
      BY <1>k, <3>1, <3>2, <3>3, Ways, Alone
  <2>3. CASE CheckChat(w) \/ StopSequence(w)
    <3>1. hand[w] \in Jobs
      BY <2>3, Ways DEF CheckChat, StopSequence, Good, Placed
    <3>2. PICK place \in {"stop", "defer", "timeout", "flip", "drop", "close"} : Goto(w, place)
      BY <2>3 DEF CheckChat, StopSequence
    <3>3. UNCHANGED <<run, pos, seen, hand, batch>>
      BY <2>3 DEF CheckChat, StopSequence
    <3> QED
      BY <1>k, <3>1, <3>2, <3>3, Ways, GoesTo
  <2>4. CASE FinishUnrun(w) \/ DeferJob(w) \/ JobFails(w)
    BY <2>4, GoesOn DEF FinishUnrun, DeferJob, JobFails
  <2>5. CASE Flip(w)
    <3>1. hand[w] \in Jobs
      BY <2>5, Ways DEF Flip, Good, Placed
    <3>2. run' \in [Procs -> Triggers \cup {NoRun}]
      BY <1>k, <2>5, TypeParts DEF Flip, TakeUp, Good, RowOK
    <3>3. PICK place \in {"finish", "drop"} : Goto(w, place)
      BY <2>5 DEF Flip
    <3> QED
      BY <1>k, <2>5, <3>1, <3>2, <3>3, Ways, GoesTo DEF Flip
  <2>6. CASE FinishJob(w)
    <3>1. hand[w] \in Jobs
      BY <2>6, Ways DEF FinishJob, Good, Placed
    <3>2. job[hand[w]].from \in 1 .. Len(Steps) + 1
      BY <3>1, TypeParts DEF Good, QueueOK, Job
    <3>3. /\ Goto(w, "contact") /\ pos' = [pos EXCEPT ![w] = job[hand[w]].from]
          /\ hand' = [hand EXCEPT ![w] = hand[w]] /\ UNCHANGED <<run, seen, batch>>
      BY <1>k, <2>6 DEF FinishJob, InHand
    <3>4. /\ "contact" \in Places /\ "contact" \notin Working \cup Answering
          /\ hand[w] \in Jobs \cup {0} /\ run' \in [Procs -> Triggers \cup {NoRun}]
          /\ seen' \in [Procs -> Snapshot] /\ batch' \in [Workers -> SUBSET Jobs]
      BY <1>k, <3>3, Ways
    <3> QED
      BY <3>1, <3>2, <3>3, <3>4, Alone
  <2> QED
    BY <1>7, <2>1, <2>2, <2>3, <2>4, <2>5, <2>6 DEF WorkerStep
<1>8. CASE Around \/ \E j \in Jobs : TimePasses(j)
  BY <1>1, <1>8 DEF Around, Toggle, TakeOver, OptInOut, HoldBack, LetGo, TimePasses
<1> QED
  BY StepForms, <1>1, <1>2, <1>3, <1>4, <1>5, <1>6, <1>7, <1>8 DEF vars

LEMMA GoodStep == Good /\ [Next]_vars => Good'
  BY TypeParts, RowStep, QueueStep, WorldStep, PlacesStep, PastStep
     DEF Good, TypeOK, RowOK, QueueOK, WorldOK, PlaceOK, PastOK, Job

LEMMA GoodInit == Init => Good
<1> SUFFICES ASSUME Init PROVE Good
  OBVIOUS
<1>1. RowOK /\ WorldOK
  <2>1. RowOK
    BY StepsKnown DEF Init, RowOK, Statuses
  <2>2. active \in BOOLEAN /\ paused \in BOOLEAN /\ hold \in BOOLEAN
    BY DEF Init
  <2>3. upsets \in 0 .. MaxUpsets /\ contact \in {"ACTIVE", "UNSUBSCRIBED"}
    BY DEF Init
  <2> QED
    BY <2>1, <2>2, <2>3 DEF WorldOK
<1>2. NoJob \in Job
  BY StepsKnown DEF NoJob, Job, JobTypes
<1>3. QueueOK
  BY <1>2 DEF Init, QueueOK
<1>4. PastOK
  BY StepsKnown DEF Init, PastOK
<1>5. NoSnapshot \in Snapshot
  BY StepsKnown DEF NoSnapshot, Snapshot
<1>6. PlaceOK
  <2>1. at \in [Procs -> Places]
    BY Ways DEF Init
  <2>2. run \in [Procs -> Triggers \cup {NoRun}]
    BY DEF Init
  <2>3. pos \in [Procs -> 1 .. Len(Steps) + 1]
    BY StepsKnown DEF Init
  <2>4. seen \in [Procs -> Snapshot] /\ hand \in [Procs -> Jobs \cup {0}]
        /\ batch \in [Workers -> SUBSET Jobs]
    BY <1>5 DEF Init
  <2> QED
    BY <2>1, <2>2, <2>3, <2>4 DEF PlaceOK
<1>7. \A p \in Procs : Placed(p)
  BY Ways DEF Init, Placed
<1> QED
  BY <1>1, <1>3, <1>4, <1>6, <1>7, TypeParts DEF Good

LEMMA AlwaysGood == Spec => []Good
  BY GoodInit, GoodStep, PTL DEF Spec

(* The row, the job table and the processes keep their types.              *)
THEOREM TypeCorrect == Spec => []TypeOK
<1>1. Good => TypeOK
  BY DEF Good
<1> QED
  BY <1>1, AlwaysGood, PTL

-----------------------------------------------------------------------------
(* A job makes its run go on once.  While workers exclude each other, what *)
(* a worker holds is RUNNING and has not fired, and what has fired is DONE.*)
OneWorker == \A v, w \in Workers : at[v] # "idle" /\ at[w] # "idle" => v = w

Held(w) ==
  /\ at[w] = "idle" => batch[w] = {}
  /\ \A j \in batch[w] : job[j].status = "RUNNING"
  /\ at[w] \in Working \ {"pick"} =>
       job[hand[w]].status = "RUNNING" /\ hand[w] \notin batch[w]

Counted(j) ==
  /\ fired[j] = 0 \/ (fired[j] = 1 /\ job[j].status = "DONE")
  /\ j > made => job[j].status = "none"

Once ==
  /\ OneWorker
  /\ \A w \in Workers : Held(w)
  /\ \A j \in Jobs : Counted(j)

LEMMA OnceKept ==
  ASSUME Good, Once, NEW p \in Procs, UNCHANGED fired,
         \A j \in Jobs : job[j].status \in {"RUNNING", "DONE"} => job'[j].status = job[j].status,
         \A j \in Jobs : j > made' => job'[j].status = "none",
         \A q \in Procs : q # p => at'[q] = at[q] /\ hand'[q] = hand[q],
         \A w \in Workers : w # p => batch'[w] = batch[w],
         p \in Workers => Held(p)' /\ (at[p] = "idle" => at'[p] = "idle")
  PROVE  Once'
<1>0. PlaceOK
  BY TypeParts DEF Good
<1>1. OneWorker'
  BY DEF Once, OneWorker
<1>2. ASSUME NEW w \in Workers PROVE Held(w)'
  <2>1. CASE w # p
    <3>1. batch[w] \subseteq Jobs /\ (at[w] \in Working \ {"pick"} => hand[w] \in Jobs)
      BY <1>0 DEF PlaceOK, Good, Placed
    <3> QED
      BY <2>1, <3>1 DEF Once, Held
  <2> QED
    BY <2>1
<1>3. \A j \in Jobs : Counted(j)'
  BY DEF Once, Counted
<1> QED
  BY <1>1, <1>2, <1>3 DEF Once

(* p moves, and jobs at most leave PENDING.                                *)
LEMMA OnceMoves ==
  ASSUME Good, Once, NEW p \in Procs, UNCHANGED <<fired, batch>>,
         \A j \in Jobs : job[j].status \in {"RUNNING", "DONE"} => job'[j].status = job[j].status,
         \A j \in Jobs : j > made' => job'[j].status = "none",
         NEW place, Goto(p, place), place # "idle", at[p] # "idle",
         \A q \in Procs : q # p => hand'[q] = hand[q],
         place \in Working \ {"pick"} =>
            at[p] \in Working \ {"pick"} /\ hand' = hand
  PROVE  Once'
<1>0. PlaceOK
  BY TypeParts DEF Good
<1>1. \A q \in Procs : q # p => at'[q] = at[q]
  BY <1>0 DEF PlaceOK, Goto
<1>2. ASSUME p \in Workers PROVE Held(p)'
  <2>1. at'[p] = place /\ batch[p] \subseteq Jobs
    BY <1>0, <1>2 DEF PlaceOK, Goto
  <2>2. at[p] \in Working \ {"pick"} => hand[p] \in Jobs
    BY DEF Good, Placed
  <2> QED
    BY <1>2, <2>1, <2>2 DEF Once, Held
<1> QED
  BY <1>1, <1>2, OnceKept

LEMMA OnceLeaves ==
  ASSUME Good, Once, NEW p \in Procs, UNCHANGED <<fired, batch>>, at[p] # "idle", GoOn(p),
         \A j \in Jobs : job[j].status \in {"RUNNING", "DONE"} => job'[j].status = job[j].status,
         \A j \in Jobs : j > made' => job'[j].status = "none"
  PROVE  Once'
<1>0. PlaceOK
  BY TypeParts DEF Good
<1>1. \A q \in Procs : q # p => hand'[q] = hand[q]
  BY <1>0 DEF PlaceOK, GoOn, Leave
<1>2. PICK place \in {"pick", "done"} : Goto(p, place)
  BY DEF GoOn, Leave
<1>3. place \notin Working \ {"pick"}
  BY <1>2, Ways
<1> QED
  BY <1>1, <1>2, <1>3, OnceMoves

(* The worker is done with the job it has in hand.                         *)
LEMMA OnceFinishes ==
  ASSUME Good, Once, NEW w \in Workers, at[w] \in Working \ {"pick"}, UNCHANGED <<batch, made>>,
         \A j \in Jobs : j # hand[w] => job'[j].status = job[j].status /\ fired'[j] = fired[j],
         \/ fired' = fired
         \/ fired'[hand[w]] = fired[hand[w]] + 1 /\ job'[hand[w]].status = "DONE",
         NEW place, Goto(w, place), place # "idle", place \notin Working \ {"pick"},
         \A q \in Procs : q # w => hand'[q] = hand[q]
  PROVE  Once'
<1>0. PlaceOK /\ hand[w] \in Jobs /\ at[w] # "idle"
  BY TypeParts, Ways DEF Good, Placed
<1>1. \A q \in Procs : q # w => at'[q] = at[q]
  BY <1>0 DEF PlaceOK, Goto
<1>2. \A v \in Workers : v # w => at[v] = "idle" /\ batch[v] = {}
  BY <1>0 DEF Once, OneWorker, Held
<1>3. OneWorker'
  BY <1>1, <1>2 DEF OneWorker
<1>4. ASSUME NEW v \in Workers PROVE Held(v)'
  <2>1. CASE v = w
    <3>1. at'[w] = place
      BY <1>0 DEF PlaceOK, Goto
    <3>2. batch[w] \subseteq Jobs /\ hand[w] \notin batch[w]
      BY <1>0 DEF PlaceOK, Once, Held
    <3> QED
      BY <2>1, <3>1, <3>2 DEF Once, Held
  <2>2. CASE v # w
    BY <1>1, <1>2, <2>2, Ways DEF Held
  <2> QED
    BY <2>1, <2>2
<1>5. ASSUME NEW j \in Jobs PROVE Counted(j)'
  <2>1. job[hand[w]].status = "RUNNING"
    BY DEF Once, Held
  <2>2. fired[hand[w]] = 0 /\ ~(hand[w] > made)
    BY <1>0, <2>1 DEF Once, Counted
  <2> QED
    BY <2>2 DEF Once, Counted
<1> QED
  BY <1>3, <1>4, <1>5 DEF Once

LEMMA OnceClaims ==
  ASSUME Good, Once, Locked = TRUE, NEW w \in Workers, Claim(w)
  PROVE  Once'
<1>0. PlaceOK
  BY TypeParts DEF Good
<1>1. PICK chosen \in SUBSET Claimable :
        /\ batch' = [batch EXCEPT ![w] = chosen]
        /\ job' = [j \in Jobs |->
                     IF j \in chosen
                     THEN [job[j] EXCEPT !.status = "RUNNING", !.ripe = FALSE,
                                         !.attempts = @ + 1]
                     ELSE job[j]]
  BY DEF Claim
<1>2. /\ \A v \in Workers : at[v] = "idle"
      /\ Goto(w, "pick") /\ UNCHANGED <<fired, made, hand>>
  BY DEF Claim, past
<1>3. /\ at'[w] = "pick" /\ \A q \in Procs : q # w => at'[q] = at[q]
      /\ batch'[w] = chosen /\ \A v \in Workers : v # w => batch'[v] = batch[v]
  BY <1>0, <1>1, <1>2 DEF PlaceOK, Goto
<1>4. \A j \in Jobs : j \in chosen => job[j].status \in {"PENDING", "RUNNING"}
  BY DEF Claimable
<1>5. \A j \in Jobs : job'[j].status = IF j \in chosen THEN "RUNNING" ELSE job[j].status
  <2>1. \A j \in Jobs : job[j] \in Job
    BY TypeParts DEF Good, QueueOK
  <2>2. ASSUME NEW j \in Jobs PROVE job'[j].status = IF j \in chosen THEN "RUNNING" ELSE job[j].status
    <3> DEFINE n == job[j].attempts + 1
    <3>1. job'[j] = IF j \in chosen
                    THEN [job[j] EXCEPT !.status = "RUNNING", !.ripe = FALSE, !.attempts = n]
                    ELSE job[j]
      BY <1>1
    <3> HIDE DEF n
    <3> QED
      BY <2>1, <3>1 DEF Job
  <2> QED
    BY <2>2
<1>6. OneWorker'
  BY <1>2, <1>3 DEF OneWorker
<1>7. ASSUME NEW v \in Workers PROVE Held(v)'
  <2>1. CASE v = w
    BY <1>3, <1>5, <2>1, Ways DEF Held, Claimable
  <2>2. CASE v # w
    BY <1>2, <1>3, <2>2, Ways DEF Once, Held
  <2> QED
    BY <2>1, <2>2
<1>8. \A j \in Jobs : Counted(j)'
  BY <1>2, <1>4, <1>5 DEF Once, Counted
<1> QED
  BY <1>6, <1>7, <1>8 DEF Once

LEMMA OnceStep ==
  ASSUME Good, Once, Locked = TRUE, [Next]_vars
  PROVE  Once'
<1>0. PlaceOK /\ QueueOK
  BY TypeParts DEF Good
<1>h. hand \in [Procs -> Jobs \cup {0}] /\ job \in [Jobs -> Job]
  BY <1>0 DEF PlaceOK, QueueOK
<1>n. \A j \in Jobs : j > made => job[j].status = "none"
  BY DEF Once, Counted
<1>1. CASE UNCHANGED <<queue, at, hand, batch, fired>>
  BY <1>1 DEF Once, OneWorker, Held, Counted, queue
<1>2. ASSUME NEW p \in Procs, NEW place, Goto(p, place), place # "idle", at[p] # "idle",
             place \notin Working \ {"pick"} \/ at[p] \in Working \ {"pick"},
             UNCHANGED <<queue, hand, batch, fired>>
      PROVE  Once'
  BY <1>2, <1>n, OnceMoves DEF queue
<1>3. ASSUME NEW p \in Procs, GoOn(p), at[p] # "idle", UNCHANGED <<queue, batch, fired>>
      PROVE  Once'
  BY <1>3, <1>n, OnceLeaves DEF queue
<1>4. ASSUME NEW types, job' = Cancelled(types), UNCHANGED made
      PROVE  /\ \A j \in Jobs : job[j].status \in {"RUNNING", "DONE"} => job'[j].status = job[j].status
             /\ \A j \in Jobs : j > made' => job'[j].status = "none"
  BY <1>4, <1>n DEF Cancelled
<1>5. ASSUME NEW type, NEW from, ScheduleJob(type, from)
      PROVE  /\ \A j \in Jobs : job[j].status \in {"RUNNING", "DONE"} => job'[j].status = job[j].status
             /\ \A j \in Jobs : j > made' => job'[j].status = "none"
  <2>1. made \in Nat /\ made' = made + 1 /\ job' = [job EXCEPT ![made + 1] = NewJob(type, from)]
        /\ made + 1 \in Jobs
    BY <1>0, <1>5 DEF ScheduleJob, QueueOK, Jobs
  <2>2. job[made + 1].status = "none"
    BY <1>n, <2>1 DEF Jobs
  <2>3. \A j \in Jobs : j # made + 1 => job'[j] = job[j]
    BY <1>h, <2>1
  <2> QED
    BY <1>n, <2>1, <2>2, <2>3 DEF Jobs
<1>6. ASSUME NEW p \in Procs, RunStep(p) PROVE Once'
  <2>1. CASE CheckContact(p) \/ Restart(p) \/ BeginStep(p)
    <3>1. PICK place \in {"cancel", "next", "wait", "delay"} : Goto(p, place)
      BY <2>1 DEF CheckContact, Restart, BeginStep, Place
    <3> QED
      BY <1>2, <2>1, <3>1, Ways DEF CheckContact, Restart, BeginStep, past
  <2>2. CASE OptedOut(p) \/ ParkScheduled(p) \/ Complete(p)
    BY <1>3, <2>2 DEF OptedOut, ParkScheduled, Complete, past
  <2>3. CASE CancelOld(p)
    BY <1>4, <2>3, OnceMoves, Ways DEF CancelOld, past
  <2>4. CASE AddJob(p)
    BY <1>5, <2>4, OnceMoves, Ways DEF AddJob, past
  <2>5. CASE AddTimeout(p)
    BY <1>5, <2>5, OnceLeaves DEF AddTimeout, past
  <2>6. CASE ParkWaiting(p)
    <3>1. at[p] # "idle" /\ UNCHANGED <<queue, batch, fired>>
      BY <2>6 DEF ParkWaiting, past
    <3>2. CASE GoOn(p)
      BY <1>3, <3>1, <3>2
    <3>3. CASE Goto(p, "alarm") /\ UNCHANGED <<run, pos, seen, hand>>
      BY <1>2, <3>1, <3>3, Ways
    <3> QED
      BY <2>6, <3>2, <3>3 DEF ParkWaiting
  <2> QED
    BY <1>6, <2>1, <2>2, <2>3, <2>4, <2>5, <2>6 DEF RunStep
<1>7. ASSUME NEW p \in Procs, PauseFails(p) PROVE Once'
  BY <1>3, <1>7 DEF PauseFails, past
<1>8. ASSUME NEW p \in Procs, Die(p) PROVE Once'
  <2> DEFINE place == IF p \in Workers THEN "idle" ELSE "done"
  <2>1. /\ Goto(p, place) /\ hand' = [hand EXCEPT ![p] = 0]
        /\ UNCHANGED <<queue, fired>>
        /\ batch' = [w \in Workers |-> IF w = p THEN {} ELSE batch[w]]
    BY <1>8 DEF Die, Leave, past
  <2>2. /\ \A q \in Procs : q # p => at'[q] = at[q] /\ hand'[q] = hand[q]
        /\ at'[p] = place
        /\ \A w \in Workers : w # p => batch'[w] = batch[w]
        /\ p \in Workers => batch'[p] = {}
    BY <1>0, <2>1 DEF PlaceOK, Goto
  <2>3. p \in Workers => Held(p)' /\ (at[p] = "idle" => at'[p] = "idle")
    BY <2>2, Ways DEF Held
  <2> HIDE DEF place
  <2> QED
    BY <1>n, <2>1, <2>2, <2>3, OnceKept DEF queue
<1>9. ASSUME NEW p \in Triggers, Trigger(p) PROVE Once'
  BY <1>2, <1>9, Ways DEF Trigger, past
<1>10. ASSUME NEW p \in Replies, StopFollowUps(p) \/ AnswerStep(p) PROVE Once'
  <2>1. CASE StopFollowUps(p) \/ MarkReplied(p) \/ FindWait(p) \/ AnswerWait(p)
    <3>1. PICK place \in {"unqueue", "find", "take", "untime"} : Goto(p, place)
      BY <2>1 DEF StopFollowUps, MarkReplied, FindWait, AnswerWait
    <3> QED
      BY <1>2, <2>1, <3>1, Ways DEF StopFollowUps, MarkReplied, FindWait, AnswerWait, past
  <2>2. CASE NoMatch(p) \/ TooLate(p)
    BY <1>3, <2>2 DEF NoMatch, TooLate, past
  <2>3. CASE Unqueue(p)
    BY <1>4, <2>3, OnceMoves, Ways DEF Unqueue, past
  <2>4. CASE CancelTimeout(p)
    <3>1. at[p] # "idle" /\ UNCHANGED <<batch, fired, made>> /\ job' = Cancelled({"WAIT_TIMEOUT"})
      BY <2>4 DEF CancelTimeout, past
    <3>2. CASE GoOn(p)
      BY <1>4, <3>1, <3>2, OnceLeaves
    <3>3. CASE Goto(p, "contact") /\ UNCHANGED hand
      BY <1>4, <3>1, <3>3, OnceMoves, Ways
    <3> QED
      BY <2>4, <3>2, <3>3 DEF CancelTimeout
  <2> QED
    BY <1>10, <2>1, <2>2, <2>3, <2>4 DEF AnswerStep
<1>11. ASSUME NEW w \in Workers, WorkerStep(w) \/ JobFails(w) PROVE Once'
  <2>1. CASE BatchDone(w)
    <3>1. /\ at'[w] = "idle" /\ UNCHANGED <<queue, fired, hand, batch>> /\ batch[w] = {}
          /\ \A q \in Procs : q # w => at'[q] = at[q]
      BY <1>0, <2>1 DEF BatchDone, PlaceOK, Goto, past
    <3>2. Held(w)'
      BY <3>1, Ways DEF Held
    <3> QED
      BY <1>n, <3>1, <3>2, OnceKept DEF queue
  <2>2. CASE ReadRow(w)
    <3>1. PICK j \in batch[w], place \in {"drop", "stop", "check"} :
            /\ hand' = [hand EXCEPT ![w] = j]
            /\ batch' = [batch EXCEPT ![w] = @ \ {j}]
            /\ Goto(w, place)
      BY <2>2 DEF ReadRow
    <3>2. /\ at[w] # "idle" /\ UNCHANGED <<queue, fired>>
      BY <2>2 DEF ReadRow, past
    <3>3. /\ at'[w] = place /\ hand'[w] = j /\ batch'[w] = batch[w] \ {j}
          /\ \A q \in Procs : q # w => at'[q] = at[q] /\ hand'[q] = hand[q]
          /\ \A v \in Workers : v # w => batch'[v] = batch[v]
      BY <1>0, <3>1 DEF PlaceOK, Goto
    <3>4. Held(w)'
      BY <3>1, <3>2, <3>3 DEF Held, Once, queue
    <3> QED
      BY <1>n, <3>2, <3>3, <3>4, OnceKept DEF queue
  <2>3. CASE CheckChat(w) \/ StopSequence(w) \/ Flip(w)
    <3>1. PICK place \in {"stop", "defer", "timeout", "flip", "drop", "close", "finish"} : Goto(w, place)
      BY <2>3 DEF CheckChat, StopSequence, Flip
    <3>2. UNCHANGED <<queue, hand, batch, fired>> /\ at[w] \in Working \ {"pick"}
      BY <2>3, Ways DEF CheckChat, StopSequence, Flip, past
    <3> QED
      BY <1>2, <3>1, <3>2, Ways
  <2>4. CASE FinishUnrun(w) \/ DeferJob(w) \/ JobFails(w)
    <3>1. /\ at[w] \in Working \ {"pick"} /\ UNCHANGED <<batch, made, fired>> /\ GoOn(w)
      BY <2>4, Ways DEF FinishUnrun, DeferJob, JobFails, past
    <3>2. \A j \in Jobs : j # hand[w] => job'[j].status = job[j].status
      BY <1>h, <2>4 DEF FinishUnrun, DeferJob, JobFails, SetJob
    <3>3. Goto(w, "pick") /\ \A q \in Procs : q # w => hand'[q] = hand[q]
      BY <1>h, <3>1 DEF GoOn, Leave
    <3> QED
      BY <3>1, <3>2, <3>3, OnceFinishes
  <2>5. CASE FinishJob(w)
    <3>1. /\ at[w] \in Working \ {"pick"} /\ UNCHANGED <<batch, made, hand>> /\ Goto(w, "contact")
          /\ fired' = [fired EXCEPT ![hand[w]] = @ + 1]
          /\ job' = [job EXCEPT ![hand[w]].status = "DONE"]
      BY <2>5, Ways DEF FinishJob, SetJob
    <3>2. hand[w] \in Jobs /\ fired \in [Jobs -> Nat] /\ job[hand[w]] \in Job
      BY <1>h, <3>1, TypeParts DEF Good, Placed, PastOK
    <3>3. /\ \A j \in Jobs : j # hand[w] => job'[j].status = job[j].status /\ fired'[j] = fired[j]
          /\ fired'[hand[w]] = fired[hand[w]] + 1 /\ job'[hand[w]].status = "DONE"
      BY <1>h, <3>1, <3>2 DEF Job
    <3>4. "contact" \notin Working \ {"pick"}
      BY Ways
    <3> QED
      BY <3>1, <3>3, <3>4, OnceFinishes
  <2> QED
    BY <1>11, <2>1, <2>2, <2>3, <2>4, <2>5 DEF WorkerStep
<1>12. ASSUME NEW j \in Jobs, TimePasses(j) PROVE Once'
  <2>1. /\ job' = [job EXCEPT ![j].ripe = TRUE]
        /\ UNCHANGED <<made, at, hand, batch, fired>>
    BY <1>12 DEF TimePasses, past
  <2>2. \A i \in Jobs : job'[i].status = job[i].status
    BY <1>h, <2>1 DEF Job
  <2>3. \A w \in Workers : Held(w)'
    <3>1. \A w \in Workers : batch[w] \subseteq Jobs /\ (at[w] \in Working \ {"pick"} => hand[w] \in Jobs)
      BY <1>0 DEF PlaceOK, Good, Placed
    <3> QED
      BY <2>1, <2>2, <3>1 DEF Once, Held
  <2>4. OneWorker' /\ \A i \in Jobs : Counted(i)'
    BY <2>1, <2>2 DEF Once, OneWorker, Counted
  <2> QED
    BY <2>3, <2>4 DEF Once
<1>13. CASE Around
  BY <1>1, <1>13 DEF Around, Toggle, TakeOver, OptInOut, HoldBack, LetGo, queue, past
<1> QED
  BY StepForms, <1>1, <1>6, <1>7, <1>8, <1>9, <1>10, <1>11, <1>12, <1>13, OnceClaims
     DEF vars, queue, past

(* A delayed job makes its run go on at most once, however often it is     *)
(* retried, deferred or taken over from a worker that died, as long as one *)
(* instance at a time works on the table.                                  *)
THEOREM JobsRunOnce ==
  ASSUME Locked = TRUE
  PROVE  Spec => []JobOnce
<1>1. Init => Once
  BY Ways DEF Init, Once, OneWorker, Held, Counted, NoJob
<1>2. Good /\ Once /\ [Next]_vars => Once'
  BY OnceStep
<1>3. Once => JobOnce
  BY DEF Once, Counted, JobOnce
<1> QED
  BY <1>1, <1>2, <1>3, AlwaysGood, PTL DEF Spec

-----------------------------------------------------------------------------
(* Who has a run, and what becomes of the run in a step.                   *)
Go == Going \cup {"untime", "finish"}

Own(p) ==
  /\ p \in Triggers => run[p] = p
  /\ p \notin Triggers /\ run[p] # NoRun => at[p] \in Go \cup {"alarm"}
  /\ at[p] \in Going \cup {"finish", "alarm"} => run[p] # NoRun

Fresh(t) == at[t] = "new" => who # t /\ \A q \in Procs : q # t => run[q] # t

Owned ==
  /\ \A p \in Procs : Own(p)
  /\ \A t \in Triggers : Fresh(t)
  /\ status \in ParkedIn => who # NoRun

Calm == who' = who /\ (status' = status \/ status' \notin ParkedIn)

(* Nobody but p takes up or gives up a run.                                *)
Only(p) ==
  /\ Started' = Started
  /\ \A q \in Procs : q # p => (Doing(q)' <=> Doing(q)) /\ run'[q] = run[q]

Stays == /\ Started' = Started
         /\ \A q \in Procs : (Doing(q)' <=> Doing(q)) /\ (Doing(q) => run'[q] = run[q])
         /\ ParkedRun' \in {ParkedRun, NoRun}
Ends(p) == Only(p) /\ Doing(p) /\ ~Doing(p)' /\ ParkedRun' \in {ParkedRun, NoRun}
Parks(p) == Only(p) /\ Doing(p) /\ ~Doing(p)' /\ ParkedRun' = run[p]
Takes(p) == /\ Only(p) /\ ~Doing(p) /\ Doing(p)'
            /\ ParkedRun # NoRun /\ run'[p] = ParkedRun /\ ParkedRun' = NoRun
Begins(p) == /\ p \in Triggers /\ at[p] = "new" /\ Started' = Started \cup {p}
             /\ \A q \in Procs : q # p => (Doing(q)' <=> Doing(q)) /\ run'[q] = run[q]
             /\ ~Doing(p) /\ Doing(p)' /\ run'[p] = p /\ ParkedRun' = ParkedRun
Happens == Stays \/ \E p \in Procs : Ends(p) \/ Parks(p) \/ Takes(p) \/ Begins(p)

LEMMA Calms == Calm => ParkedRun' \in {ParkedRun, NoRun}
  BY DEF Calm, ParkedRun

LEMMA Moved ==
  ASSUME Good, Owned, NEW p \in Procs, NEW place, Goto(p, place), place # "new",
         NEW r \in {run[p], NoRun, who}, run' = [run EXCEPT ![p] = r],
         who' = who \/ (who' = run[p] /\ at[p] # "new"),
         status' \in ParkedIn => who' # NoRun,
         Own(p)'
  PROVE  /\ Owned'
         /\ (p \in Triggers => at[p] # "new") => Only(p)
         /\ at'[p] = place /\ run'[p] = r
<1>0. PlaceOK
  BY TypeParts DEF Good
<1>1. /\ at'[p] = place /\ run'[p] = r
      /\ \A q \in Procs : q # p => at'[q] = at[q] /\ run'[q] = run[q]
  BY <1>0 DEF PlaceOK, Goto
<1>2. \A q \in Procs : Own(q)'
  BY <1>1 DEF Owned, Own
<1>3. ASSUME NEW t \in Triggers, at'[t] = "new"
      PROVE  who' # t /\ \A q \in Procs : q # t => run'[q] # t
  <2>1. t # p /\ at[t] = "new"
    BY <1>1, <1>3
  <2>2. who # t /\ \A q \in Procs : q # t => run[q] # t
    BY <2>1 DEF Owned, Fresh
  <2> QED
    BY <1>1, <2>1, <2>2
<1>4. (p \in Triggers => at[p] # "new") => Only(p)
  BY <1>1 DEF Only, Started, Doing
<1> QED
  BY <1>1, <1>2, <1>3, <1>4 DEF Owned, Fresh

LEMMA Left ==
  ASSUME Good, Owned, NEW p \in Procs, at[p] # "new", Calm,
         NEW place \in {"idle", "done", "pick"}, Leave(p, place)
  PROVE  Owned' /\ Happens
<1>0. PlaceOK
  BY TypeParts DEF Good
<1> DEFINE r == IF p \in Triggers THEN p ELSE NoRun
<1>1. r \in {run[p], NoRun, who} /\ run' = [run EXCEPT ![p] = r] /\ Goto(p, place)
  BY DEF Leave, Owned, Own
<1>2. at'[p] = place /\ run'[p] = r
  BY <1>0, <1>1 DEF PlaceOK, Goto
<1>3. Own(p)' /\ ~Doing(p)'
  BY <1>2, Ways DEF Own, Doing, Go
<1>4. Owned' /\ Only(p)
  BY <1>1, <1>3, Moved DEF Calm, Owned
<1>5. CASE Doing(p)
  BY <1>3, <1>4, <1>5, Calms DEF Ends, Happens
<1>6. CASE ~Doing(p)
  BY <1>3, <1>4, <1>6, Calms DEF Stays, Only, Happens
<1> QED
  BY <1>4, <1>5, <1>6

LEMMA WentOn ==
  ASSUME Good, Owned, NEW p \in Procs, at[p] # "new", Calm, GoOn(p)
  PROVE  Owned' /\ Happens
  BY Left DEF GoOn

LEMMA Went ==
  ASSUME Good, Owned, NEW p \in Procs, p \in Triggers => at[p] # "new", Calm,
         NEW place, place # "new", Goto(p, place), UNCHANGED run,
         \/ at[p] \in Go /\ place \in Go /\ run[p] # NoRun
         \/ /\ at[p] \notin Go \cup {"alarm"}
            /\ place \notin Going \cup {"finish", "alarm"}
            /\ p \in Triggers => place # "untime"
  PROVE  Owned' /\ Happens
<1>0. PlaceOK
  BY TypeParts DEF Good
<1>1. run[p] \in {run[p], NoRun, who} /\ run' = [run EXCEPT ![p] = run[p]]
  BY <1>0 DEF PlaceOK
<1>2. at'[p] = place /\ run'[p] = run[p]
  BY <1>0 DEF PlaceOK, Goto
<1>3. Own(p)
  BY DEF Owned
<1>4. CASE at[p] \in Go /\ place \in Go /\ run[p] # NoRun
  <2>1. Own(p)' /\ (Doing(p)' <=> Doing(p))
    BY <1>2, <1>3, <1>4 DEF Own, Doing, Go
  <2>2. Owned' /\ Only(p)
    BY <1>1, <2>1, Moved DEF Calm, Owned
  <2> QED
    BY <1>2, <2>1, <2>2, Calms DEF Stays, Only, Happens
<1>5. CASE /\ at[p] \notin Go \cup {"alarm"}
           /\ place \notin Going \cup {"finish", "alarm"}
           /\ p \in Triggers => place # "untime"
  <2>1. p \notin Triggers => run[p] = NoRun
    BY <1>3, <1>5 DEF Own
  <2>2. Own(p)' /\ ~Doing(p)' /\ ~Doing(p)
    BY <1>2, <1>3, <1>5, <2>1 DEF Own, Doing, Go
  <2>3. Owned' /\ Only(p)
    BY <1>1, <2>2, Moved DEF Calm, Owned
  <2> QED
    BY <2>2, <2>3, Calms DEF Stays, Only, Happens
<1> QED
  BY <1>4, <1>5

LEMMA HappensRun ==
  ASSUME Good, Owned, NEW p \in Procs, RunStep(p)
  PROVE  Owned' /\ Happens
<1>0. PlaceOK /\ Own(p)
  BY TypeParts DEF Good, Owned
<1>1. CASE CheckContact(p) \/ CancelOld(p) \/ Restart(p) \/ BeginStep(p) \/ AddJob(p)
  <2>1. PICK place \in {"cancel", "next", "restart", "wait", "delay", "park"} : Goto(p, place)
    BY <1>1 DEF CheckContact, CancelOld, Restart, BeginStep, AddJob, Place
  <2>2. at[p] \in Going /\ UNCHANGED run
    BY <1>1, Ways DEF CheckContact, CancelOld, Restart, BeginStep, AddJob
  <2>3. run[p] # NoRun
    BY <1>0, <2>2 DEF Own
  <2>4. Calm
    BY <1>1 DEF CheckContact, CancelOld, Restart, BeginStep, AddJob, Row, Calm, row, ParkedIn
  <2>5. place # "new" /\ place \in Go /\ at[p] \in Go /\ at[p] # "new"
    BY <2>1, <2>2, Ways DEF Go
  <2> QED
    BY <2>1, <2>2, <2>3, <2>4, <2>5, Went
<1>2. CASE OptedOut(p) \/ Complete(p) \/ AddTimeout(p)
  <2>1. at[p] # "new" /\ GoOn(p) /\ Calm
    BY <1>2 DEF OptedOut, Complete, AddTimeout, SetStatus, Row, Calm, row, ParkedIn
  <2> QED
    BY <2>1, WentOn
<1>3. CASE ParkScheduled(p) \/ ParkWaiting(p)
  <2>1. /\ at[p] \in {"park", "wait"} /\ status' \in ParkedIn /\ who' = run[p]
    BY <1>3 DEF ParkScheduled, ParkWaiting, Row, ParkedIn
  <2>2. run[p] # NoRun /\ Doing(p)
    BY <1>0, <2>1, Ways DEF Own, Doing
  <2>3. PICK place \in {"done", "pick", "alarm"}, r \in {run[p], NoRun} :
          /\ Goto(p, place) /\ run' = [run EXCEPT ![p] = r]
          /\ place = "alarm" => r = run[p]
          /\ place # "alarm" => r = IF p \in Triggers THEN p ELSE NoRun
    <3>1. CASE GoOn(p)
      <4>1. PICK place \in {"done", "pick"} : Leave(p, place)
        BY <3>1 DEF GoOn
      <4>2. (IF p \in Triggers THEN p ELSE NoRun) \in {run[p], NoRun}
        BY <1>0 DEF Own
      <4> QED
        BY <4>1, <4>2 DEF Leave
    <3>2. CASE Goto(p, "alarm") /\ UNCHANGED run
      BY <1>0, <3>2 DEF PlaceOK
    <3> QED
      BY <1>3, <3>1, <3>2 DEF ParkScheduled, ParkWaiting
  <2>4. at'[p] = place /\ run'[p] = r
    BY <1>0, <2>3 DEF PlaceOK, Goto
  <2>5. Own(p)' /\ ~Doing(p)'
    BY <1>0, <2>2, <2>3, <2>4, Ways DEF Own, Doing, Go
  <2>6. place # "new" /\ at[p] # "new" /\ who' # NoRun
    BY <2>1, <2>2, <2>3
  <2>7. Owned' /\ Only(p)
    BY <2>1, <2>3, <2>5, <2>6, Moved
  <2>8. ParkedRun' = run[p]
    BY <2>1 DEF ParkedRun
  <2> QED
    BY <2>2, <2>5, <2>7, <2>8 DEF Happens, Parks
<1> QED
  BY <1>1, <1>2, <1>3 DEF RunStep

(* p takes up what is parked.                                              *)
LEMMA TookUp ==
  ASSUME Good, Owned, NEW p \in Procs, p \notin Triggers, at[p] \notin Go \cup {"alarm", "new"},
         status \in ParkedIn, status' = "ACTIVE", who' = who,
         run' = [run EXCEPT ![p] = who],
         NEW place \in {"untime", "finish"}, Goto(p, place)
  PROVE  Owned' /\ Happens
<1>0. PlaceOK
  BY TypeParts DEF Good
<1>1. at'[p] = place /\ run'[p] = who /\ who # NoRun
  BY <1>0 DEF PlaceOK, Goto, Owned
<1>2. ~Doing(p) /\ Doing(p)' /\ Own(p)'
  BY <1>1 DEF Doing, Own, Go
<1>3. ParkedRun = who /\ ParkedRun' = NoRun /\ status' \notin ParkedIn
  BY DEF ParkedRun, ParkedIn
<1>4. Owned' /\ Only(p)
  BY <1>2, <1>3, Moved
<1> QED
  BY <1>1, <1>2, <1>3, <1>4 DEF Happens, Takes

LEMMA HappensAnswer ==
  ASSUME Good, Owned, NEW p \in Replies, StopFollowUps(p) \/ AnswerStep(p)
  PROVE  Owned' /\ Happens
<1>0. PlaceOK /\ Own(p) /\ p \in Procs /\ p \notin Triggers
  BY TypeParts DEF Good, Owned
<1>1. CASE StopFollowUps(p) \/ Unqueue(p) \/ MarkReplied(p) \/ FindWait(p)
  <2>1. PICK place \in {"unqueue", "find", "replied", "take"} : Goto(p, place)
    BY <1>1 DEF StopFollowUps, Unqueue, MarkReplied, FindWait
  <2>2. at[p] \in {"new", "unqueue", "replied", "find"} /\ UNCHANGED run
    BY <1>1 DEF StopFollowUps, Unqueue, MarkReplied, FindWait
  <2>3. Calm
    BY <1>1 DEF StopFollowUps, Unqueue, MarkReplied, FindWait, SetStatus, Row, Calm, row, ParkedIn
  <2> QED
    BY <1>0, <2>1, <2>2, <2>3, Went, Ways DEF Go
<1>2. CASE NoMatch(p) \/ TooLate(p)
  BY <1>0, <1>2, WentOn DEF NoMatch, TooLate, Calm, row
<1>3. CASE AnswerWait(p)
  <2>1. /\ at[p] = "take" /\ status \in ParkedIn /\ Goto(p, "untime")
        /\ status' = NextStatus(p) /\ who' = who
        /\ run' = [run EXCEPT ![p] = IF NextStatus(p) = "ACTIVE" THEN who ELSE NoRun]
    BY <1>3 DEF AnswerWait, ParkedIn, TakeUp, SetStatus, Row
  <2>2. at[p] \notin Go \cup {"alarm", "new"}
    BY <2>1, Ways DEF Go
  <2>3. CASE NextStatus(p) = "ACTIVE"
    BY <1>0, <2>1, <2>2, <2>3, TookUp
  <2>4. CASE NextStatus(p) # "ACTIVE"
    <3>1. status' \notin ParkedIn
      BY <2>1 DEF NextStatus, ParkedIn
    <3>2. run[p] = NoRun
      BY <1>0, <2>2 DEF Own
    <3>3. run' = run
      BY <1>0, <2>1, <2>4, <3>2 DEF PlaceOK
    <3>4. "untime" \notin Going \cup {"finish", "alarm"}
      BY Ways
    <3> QED
      BY <1>0, <2>1, <2>2, <3>1, <3>3, <3>4, Went DEF Calm
  <2> QED
    BY <2>3, <2>4
<1>4. CASE CancelTimeout(p)
  <2>1. at[p] = "untime" /\ Calm
    BY <1>4 DEF CancelTimeout, Calm, row
  <2>2. CASE GoOn(p)
    BY <1>0, <2>1, <2>2, WentOn
  <2>3. CASE run[p] # NoRun /\ Goto(p, "contact") /\ UNCHANGED run
    BY <1>0, <2>1, <2>3, Went, Ways DEF Go
  <2> QED
    BY <1>4, <2>2, <2>3 DEF CancelTimeout
<1> QED
  BY <1>1, <1>2, <1>3, <1>4 DEF AnswerStep

LEMMA HappensWork ==
  ASSUME Good, Owned, NEW w \in Workers, Claim(w) \/ WorkerStep(w) \/ JobFails(w)
  PROVE  Owned' /\ Happens
<1>0. PlaceOK /\ Own(w) /\ w \in Procs /\ w \notin Triggers
  BY TypeParts DEF Good, Owned
<1>1. CASE Claim(w) \/ BatchDone(w) \/ ReadRow(w) \/ CheckChat(w) \/ StopSequence(w)
  <2>1. PICK place \in {"pick", "idle", "drop", "stop", "check", "defer", "timeout", "flip", "close"} :
          Goto(w, place)
    BY <1>1 DEF Claim, BatchDone, ReadRow, CheckChat, StopSequence
  <2>2. at[w] \in {"idle", "pick", "check", "stop", "timeout"} /\ UNCHANGED run
    BY <1>1 DEF Claim, BatchDone, ReadRow, CheckChat, StopSequence
  <2>3. Calm
    BY <1>1 DEF Claim, BatchDone, ReadRow, CheckChat, StopSequence, SetStatus, Row, Calm, row, ParkedIn
  <2> QED
    BY <1>0, <2>1, <2>2, <2>3, Went, Ways DEF Go
<1>2. CASE FinishUnrun(w) \/ DeferJob(w) \/ JobFails(w)
  <2>1. at[w] # "new" /\ Calm /\ GoOn(w)
    BY <1>2, Ways DEF FinishUnrun, DeferJob, JobFails, Calm, row
  <2> QED
    BY <1>0, <2>1, WentOn
<1>3. CASE Flip(w)
  <2>1. at[w] = "flip" /\ at[w] \notin Go \cup {"alarm", "new"}
    BY <1>3, Ways DEF Flip, Go
  <2>2. CASE status = Expected(hand[w])
    <3>1. status \in ParkedIn
      BY <2>2 DEF Expected, ParkedIn
    <3>2. /\ status' = "ACTIVE" /\ who' = who /\ Goto(w, "finish")
          /\ run' = [run EXCEPT ![w] = who]
      BY <1>3, <2>2 DEF Flip, TakeUp, SetStatus, Row
    <3> QED
      BY <1>0, <2>1, <3>1, <3>2, TookUp
  <2>3. CASE status # Expected(hand[w])
    <3>1. Goto(w, "drop") /\ UNCHANGED run /\ Calm
      BY <1>3, <2>3 DEF Flip, Calm, row
    <3> QED
      BY <1>0, <2>1, <3>1, Went, Ways
  <2> QED
    BY <2>2, <2>3
<1>4. CASE FinishJob(w)
  <2>1. at[w] = "finish" /\ Goto(w, "contact") /\ UNCHANGED run /\ Calm
    BY <1>4 DEF FinishJob, Calm, row
  <2>2. run[w] # NoRun
    BY <1>0, <2>1 DEF Own
  <2> QED
    BY <1>0, <2>1, <2>2, Went, Ways DEF Go
<1> QED
  BY <1>1, <1>2, <1>3, <1>4 DEF WorkerStep

LEMMA HappensNext ==
  ASSUME Good, Owned, [Next]_vars
  PROVE  Owned' /\ Happens
<1>1. CASE UNCHANGED <<at, run, status, who>>
  BY <1>1 DEF Owned, Own, Fresh, Happens, Stays, Started, Doing, ParkedRun
<1>2. ASSUME NEW p \in Procs, PauseFails(p) PROVE Owned' /\ Happens
  <2>1. at[p] # "new" /\ Calm /\ GoOn(p)
    BY <1>2 DEF PauseFails, SetStatus, Row, Calm, ParkedIn
  <2> QED
    BY <2>1, WentOn
<1>3. ASSUME NEW p \in Procs, Die(p) PROVE Owned' /\ Happens
  <2>1. at[p] # "new" /\ Calm
    BY <1>3 DEF Die, Calm, row
  <2>2. PICK place \in {"idle", "done"} : Leave(p, place)
    BY <1>3 DEF Die
  <2> QED
    BY <2>1, <2>2, Left
<1>4. ASSUME NEW p \in Triggers, Trigger(p) PROVE Owned' /\ Happens
  <2>0. PlaceOK /\ Own(p)
    BY TypeParts DEF Good, Owned
  <2>1. /\ at[p] = "new" /\ Goto(p, "contact") /\ UNCHANGED <<run, status, who>> /\ run[p] = p
    BY <1>4, <2>0 DEF Trigger, row, Own
  <2>2. /\ at'[p] = "contact" /\ run'[p] = p
        /\ \A q \in Procs : q # p => at'[q] = at[q] /\ run'[q] = run[q]
    BY <2>0, <2>1 DEF PlaceOK, Goto
  <2>3. Own(p)'
    BY <2>2, Ways DEF Own, Go
  <2>4. run' = [run EXCEPT ![p] = run[p]]
    BY <2>0, <2>1 DEF PlaceOK
  <2>5. Owned'
    BY <2>1, <2>3, <2>4, Moved DEF Owned
  <2>6. Started' = Started \cup {p}
    BY <2>2 DEF Started
  <2>7. ~Doing(p) /\ Doing(p)' /\ ParkedRun' = ParkedRun
    BY <2>1, <2>2, Ways DEF Doing, ParkedRun
  <2>8. \A q \in Procs : q # p => (Doing(q)' <=> Doing(q)) /\ run'[q] = run[q]
    BY <2>2 DEF Doing
  <2> QED
    BY <2>1, <2>2, <2>5, <2>6, <2>7, <2>8 DEF Happens, Begins
<1>5. CASE Around \/ \E j \in Jobs : TimePasses(j)
  BY <1>1, <1>5 DEF Around, Toggle, TakeOver, OptInOut, HoldBack, LetGo, TimePasses, row
<1> QED
  BY StepForms, <1>1, <1>2, <1>3, <1>4, <1>5, HappensRun, HappensAnswer, HappensWork
     DEF vars, row

-----------------------------------------------------------------------------
(* No two do the same run, and nobody does the one that is parked.         *)
Unique ==
  \A p \in Procs : Doing(p) =>
    /\ run[p] # ParkedRun
    /\ \A q \in Procs : q # p /\ Doing(q) => run[q] # run[p]

Sound == Good /\ Owned /\ Unique

LEMMA Parking ==
  ASSUME Good, Owned
  PROVE  /\ ParkedRun \in Started \cup {NoRun}
         /\ \A p \in Procs : Doing(p) => run[p] \in Started
         /\ NoRun \notin Started
<1>1. who \in Triggers \cup {NoRun} /\ \A p \in Procs : run[p] \in Triggers \cup {NoRun}
  BY TypeParts DEF Good, RowOK, PlaceOK
<1>2. status \in ParkedIn => who \in Started
  BY <1>1 DEF Owned, Fresh, Started
<1>3. ASSUME NEW p \in Procs, Doing(p) PROVE run[p] \in Started
  <2>1. run[p] \in Triggers /\ at[p] # "new"
    BY <1>1, <1>3, Ways DEF Doing
  <2> QED
    BY <2>1 DEF Owned, Fresh, Started
<1> QED
  BY <1>2, <1>3 DEF ParkedRun, Started

LEMMA UniqueStep ==
  ASSUME Sound, Happens
  PROVE  Unique'
<1>1. CASE Stays
  <2>1. \A p \in Procs : Doing(p) => run[p] # NoRun
    BY DEF Doing
  <2> QED
    BY <1>1, <2>1 DEF Stays, Sound, Unique
<1>2. ASSUME NEW p \in Procs, Ends(p) PROVE Unique'
  <2>1. \A q \in Procs : Doing(q) => run[q] # NoRun
    BY DEF Doing
  <2>2. \A q \in Procs : Doing(q)' => q # p /\ Doing(q) /\ run'[q] = run[q]
    BY <1>2 DEF Ends, Only
  <2> QED
    BY <1>2, <2>1, <2>2 DEF Ends, Sound, Unique
<1>3. ASSUME NEW p \in Procs, Parks(p) PROVE Unique'
  <2>1. \A q \in Procs : Doing(q)' => q # p /\ Doing(q) /\ run'[q] = run[q]
    BY <1>3 DEF Parks, Only
  <2> QED
    BY <1>3, <2>1 DEF Parks, Sound, Unique
<1>4. ASSUME NEW p \in Procs, Takes(p) PROVE Unique'
  <2>1. \A q \in Procs : q # p => (Doing(q)' <=> Doing(q)) /\ run'[q] = run[q]
    BY <1>4 DEF Takes, Only
  <2>2. /\ \A q \in Procs : Doing(q)' => run'[q] # NoRun
        /\ \A q \in Procs : Doing(q) => run[q] # ParkedRun
    BY DEF Doing, Sound, Unique
  <2>3. run'[p] = ParkedRun /\ ParkedRun' = NoRun
    BY <1>4 DEF Takes
  <2> QED
    BY <2>1, <2>2, <2>3 DEF Sound, Unique
<1>5. ASSUME NEW p \in Procs, Begins(p) PROVE Unique'
  <2>1. \A q \in Procs : q # p => (Doing(q)' <=> Doing(q)) /\ run'[q] = run[q] /\ run[q] # p
    BY <1>5 DEF Begins, Sound, Owned, Fresh
  <2>2. ParkedRun # p /\ run'[p] = p /\ ParkedRun' = ParkedRun
    BY <1>5 DEF Begins, Sound, Owned, Fresh, ParkedRun
  <2> QED
    BY <2>1, <2>2 DEF Sound, Unique
<1> QED
  BY <1>1, <1>2, <1>3, <1>4, <1>5 DEF Happens

LEMMA SoundStep == Sound /\ [Next]_vars => Sound' /\ Happens
  BY GoodStep, HappensNext, UniqueStep DEF Sound

LEMMA SoundInit == Init => Sound
<1>1. Init => Owned /\ Unique
  BY Ways DEF Init, Owned, Own, Fresh, Unique, Doing, ParkedIn, Go
<1> QED
  BY <1>1, GoodInit DEF Sound

LEMMA AlwaysSound == Spec => []Sound
  BY SoundInit, SoundStep, PTL DEF Spec

(* A run goes on in one place at a time and not while it is parked: for    *)
(* any number of triggers, answers and workers, also when workers do not   *)
(* exclude each other.                                                     *)
THEOREM RunsGoOnAlone == Spec => []OneRunnerEach
<1>1. Sound => OneRunnerEach
  BY DEF Sound, Unique, OneRunnerEach, ParkedRun
<1> QED
  BY <1>1, AlwaysSound, PTL
-----------------------------------------------------------------------------
LEMMA GoingOnIs == \A x : x \in GoingOn <=> \E q \in Procs : Doing(q) /\ x = run[q]
  BY DEF GoingOn

LEMMA GoingOnNext == \A x : x \in GoingOn' <=> \E q \in Procs : Doing(q)' /\ x = run'[q]
  BY DEF GoingOn

Over == Started \ (GoingOn \cup {ParkedRun})

LEMMA StepIsAbstract ==
  ASSUME Sound, Happens
  PROVE  [Runs!RunsNext]_<<GoingOn, ParkedRun, Over>>
<1>0. /\ ParkedRun \in Started \cup {NoRun}
      /\ \A p \in Procs : Doing(p) => run[p] \in Started
      /\ NoRun \notin Started
  BY Parking DEF Sound
<1>1. ParkedRun \notin GoingOn /\ GoingOn \subseteq Started /\ Started \subseteq Triggers
  BY <1>0, GoingOnIs DEF Sound, Unique, Started
<1>2. CASE Stays
  <2>1. GoingOn' = GoingOn /\ Started' = Started
    BY <1>2, GoingOnIs, GoingOnNext DEF Stays
  <2>2. CASE ParkedRun' = ParkedRun
    BY <2>1, <2>2 DEF Over
  <2>3. CASE ParkedRun # NoRun /\ ParkedRun' = NoRun
    <3>1. Over' = Over \cup {ParkedRun}
      BY <1>0, <1>1, <2>1, <2>3 DEF Over
    <3>2. Runs!StopWaiting
      BY <2>1, <2>3, <3>1 DEF Runs!StopWaiting, Runs!Given, Runs!Waiting, Over
    <3> QED
      BY <3>2 DEF Runs!RunsNext
  <2> QED
    BY <1>2, <2>2, <2>3 DEF Stays
<1>3. ASSUME NEW p \in Procs, Ends(p) PROVE Runs!RunsNext
  <2>1. Started' = Started /\ run[p] \in GoingOn /\ run[p] \in Triggers
    BY <1>0, <1>1, <1>3, GoingOnIs DEF Ends, Only
  <2>2. GoingOn' = GoingOn \ {run[p]}
    BY <1>3, GoingOnIs, GoingOnNext DEF Ends, Only, Sound, Unique
  <2>3. CASE ParkedRun' = ParkedRun
    <3>1. Over' = Over \cup {run[p]}
      BY <1>0, <1>1, <2>1, <2>2, <2>3 DEF Over
    <3>2. Runs!End(run[p])
      BY <2>1, <2>2, <2>3, <3>1 DEF Runs!End, Runs!Given, Over
    <3> QED
      BY <2>1, <3>2 DEF Runs!RunsNext
  <2>4. CASE ParkedRun # NoRun /\ ParkedRun' = NoRun
    <3>1. Over' = Over \cup {run[p], ParkedRun}
      BY <1>0, <1>1, <2>1, <2>2, <2>4 DEF Over
    <3>2. Runs!End(run[p])
      BY <2>1, <2>2, <2>4, <3>1 DEF Runs!End, Runs!Given, Runs!Waiting, Over
    <3> QED
      BY <2>1, <3>2 DEF Runs!RunsNext
  <2> QED
    BY <1>3, <2>3, <2>4 DEF Ends
<1>4. ASSUME NEW p \in Procs, Parks(p) PROVE Runs!RunsNext
  <2>1. Started' = Started /\ run[p] \in GoingOn /\ run[p] \in Triggers /\ ParkedRun' = run[p]
    BY <1>0, <1>1, <1>4, GoingOnIs DEF Parks, Only
  <2>2. GoingOn' = GoingOn \ {run[p]}
    BY <1>4, GoingOnIs, GoingOnNext DEF Parks, Only, Sound, Unique
  <2>3. Over' = Over \cup (IF ParkedRun = NoRun THEN {} ELSE {ParkedRun})
    BY <1>0, <1>1, <2>1, <2>2 DEF Over
  <2>4. Runs!Park(run[p])
    BY <2>1, <2>2, <2>3 DEF Runs!Park, Runs!Given, Runs!Waiting, Over
  <2> QED
    BY <2>1, <2>4 DEF Runs!RunsNext
<1>5. ASSUME NEW p \in Procs, Takes(p) PROVE Runs!RunsNext
  <2>1. Started' = Started /\ ParkedRun # NoRun /\ ParkedRun' = NoRun
    BY <1>5 DEF Takes, Only
  <2>2. GoingOn' = GoingOn \cup {ParkedRun}
    BY <1>5, GoingOnIs, GoingOnNext DEF Takes, Only
  <2>3. Over' = Over
    BY <1>0, <1>1, <2>1, <2>2 DEF Over
  <2>4. Runs!Resume
    BY <1>1, <2>1, <2>2, <2>3 DEF Runs!Resume, Over
  <2> QED
    BY <2>4 DEF Runs!RunsNext
<1>6. ASSUME NEW p \in Procs, Begins(p) PROVE Runs!RunsNext
  <2>1. /\ p \in Triggers /\ p \notin Started /\ Started' = Started \cup {p}
        /\ ParkedRun' = ParkedRun
    BY <1>6 DEF Begins, Started
  <2>2. GoingOn' = GoingOn \cup {p}
    BY <1>6, GoingOnIs, GoingOnNext DEF Begins
  <2>3. p \notin GoingOn /\ p # ParkedRun /\ p \notin Over
    BY <1>0, <1>1, <2>1 DEF Over
  <2>4. Over' = Over
    BY <2>1, <2>2, <2>3 DEF Over
  <2>5. Runs!Begin(p)
    BY <2>1, <2>2, <2>3, <2>4 DEF Runs!Begin, Runs!Waiting, Over
  <2> QED
    BY <2>1, <2>5 DEF Runs!RunsNext
<1> QED
  BY <1>2, <1>3, <1>4, <1>5, <1>6 DEF Happens

(* The engine is an implementation of TriggeredRuns: every step begins,    *)
(* parks, takes up or ends one run, or is not seen from outside.           *)
THEOREM Refinement == Spec => ImplementsRuns
<1>1. Init => Runs!RunsInit
  <2> SUFFICES ASSUME Init PROVE Runs!RunsInit
    OBVIOUS
  <2>1. \A q \in Procs : ~Doing(q)
    BY Ways DEF Init, Doing
  <2>2. GoingOn = {}
    BY <2>1, GoingOnIs
  <2>3. ParkedRun = NoRun /\ Started = {}
    BY DEF Init, ParkedRun, ParkedIn, Started
  <2> QED
    BY <2>2, <2>3 DEF Runs!RunsInit
<1>2. Sound /\ [Next]_vars => [Runs!RunsNext]_(Runs!tVars)
  <2>1. Runs!tVars = <<GoingOn, ParkedRun, Over>>
    BY DEF Runs!tVars, Over
  <2> QED
    BY <2>1, SoundStep, StepIsAbstract DEF Runs!tVars, Over
<1> QED
  BY <1>1, <1>2, AlwaysSound, PTL DEF Spec, ImplementsRuns, Runs!RunsSpec
=============================================================================
