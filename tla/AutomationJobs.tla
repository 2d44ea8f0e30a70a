--------------------------- MODULE AutomationJobs ---------------------------
(***************************************************************************)
(* modules/automation: one automation and one contact.  A trigger starts a *)
(* run of the automation's steps; a long delay or a wait for an answer     *)
(* parks it in the AutomationSequence row and leaves a job in the          *)
(* AutomationJob table; the answer or the due job takes it up again.       *)
(* Several triggers, answers and workers are under way at once, and the    *)
(* row is shared by all of them.                                           *)
(***************************************************************************)
EXTENDS Integers, FiniteSets, Sequences

CONSTANTS
  Triggers,     \* messages, events and timers that start the automation
  Replies,      \* messages that answer it
  Workers,      \* instances that fire the job scheduler
  NoRun,        \* the run of a row that has none
  Steps,        \* the automation's actions, in order
  StopOnReply,  \* triggerConfig.stopOnReply
  Locked,       \* workers exclude each other (JobLock)
  Batch,        \* how many jobs a worker claims together (25)
  MaxAttempts,  \* MAX_ATTEMPTS
  MaxJobs,      \* bound: rows of the job table
  MaxUpsets     \* bound: errors, deaths and changes made from outside

Send == [kind |-> "send"]
Delay == [kind |-> "delay"]
WaitFor(reply, timeout) ==
  [kind |-> "wait", onReply |-> reply, onTimeout |-> timeout]

Waits == {WaitFor(r, t) : r \in {"continue", "stop"},
                          t \in {"none", "continue", "stop"}}

ASSUME AutomationAssumption ==
  /\ Triggers \cap Replies = {}
  /\ Triggers \cap Workers = {}
  /\ Replies \cap Workers = {}
  /\ NoRun \notin Triggers
  /\ Steps \in Seq({Send, Delay} \cup Waits)
  /\ Steps # << >>
  /\ StopOnReply \in BOOLEAN
  /\ Locked \in BOOLEAN
  /\ Batch \in Nat \ {0}
  /\ MaxAttempts \in Nat \ {0}
  /\ MaxJobs \in Nat
  /\ MaxUpsets \in Nat

VARIABLES
  status,   \* the AutomationSequence row: its status,
  current,  \* currentStep,
  waitAt,   \* the step its metadata was written by,
  who,      \* and the run that parked in it last
  job,      \* the AutomationJob table
  made,     \* how many rows it has
  contact,  \* Contact.status
  active,   \* Automation.isActive
  paused,   \* Conversation.automationPaused
  hold,     \* quiet hours, or an organisation that may not send
  upsets,   \* errors, deaths and changes so far
  at,       \* where each trigger, answer and worker is
  run,      \* the run it works on
  pos,      \* the step it is about to do
  seen,     \* the row as it last read it
  hand,     \* the job a worker is dealing with
  batch,    \* the jobs it has claimed and not dealt with
  reached,  \* the last step each run has begun
  fired     \* how often each job made its run go on

row == <<status, current, waitAt, who>>
queue == <<job, made>>
world == <<contact, active, paused, hold>>
past == <<reached, fired>>
vars == <<row, queue, world, upsets, at, run, pos, seen, hand, batch, past>>

Procs == Triggers \cup Replies \cup Workers
Jobs == 1 .. MaxJobs
Index == 1 .. Len(Steps)

(* Where a process can be.  In the Going stages it does the steps of a run.*)
Going == {"contact", "cancel", "restart", "next", "delay", "park", "wait"}
Answering == {"scan", "unqueue", "replied", "find", "take", "untime"}
Working == {"pick", "check", "stop", "drop", "defer", "timeout",
            "close", "flip", "finish"}
Places == {"new", "done", "idle", "alarm"} \cup Going \cup Answering \cup Working

Statuses == {"none", "ACTIVE", "SCHEDULED", "WAITING", "COMPLETED", "STOPPED",
             "REPLIED", "TIMED_OUT", "FAILED"}
ParkedIn == {"SCHEDULED", "WAITING"}
Snapshot == [step : 0 .. Len(Steps), wait : 0 .. Len(Steps), active : BOOLEAN]
NoSnapshot == [step |-> 0, wait |-> 0, active |-> FALSE]

(* A job is ripe when it is PENDING and due, or RUNNING for ten minutes.    *)
JobTypes == {"RESUME_SEQUENCE", "WAIT_TIMEOUT"}
NoJob == [type |-> "RESUME_SEQUENCE", status |-> "none", from |-> 1,
          ripe |-> FALSE, attempts |-> 0]

TypeOK ==
  /\ status \in Statuses
  /\ current \in 0 .. Len(Steps)
  /\ waitAt \in 0 .. Len(Steps)
  /\ who \in Triggers \cup {NoRun}
  /\ job \in [Jobs -> [type : JobTypes,
                       status : {"none", "PENDING", "RUNNING", "DONE",
                                 "CANCELLED", "FAILED"},
                       from : 1 .. Len(Steps) + 1,
                       ripe : BOOLEAN, attempts : Int]]
  /\ made \in 0 .. MaxJobs
  /\ contact \in {"ACTIVE", "UNSUBSCRIBED"}
  /\ active \in BOOLEAN /\ paused \in BOOLEAN /\ hold \in BOOLEAN
  /\ upsets \in 0 .. MaxUpsets
  /\ at \in [Procs -> Places]
  /\ run \in [Procs -> Triggers \cup {NoRun}]
  /\ pos \in [Procs -> 1 .. Len(Steps) + 1]
  /\ seen \in [Procs -> Snapshot]
  /\ hand \in [Procs -> Jobs \cup {0}]
  /\ batch \in [Workers -> SUBSET Jobs]
  /\ reached \in [Triggers -> 0 .. Len(Steps)]
  /\ fired \in [Jobs -> Nat]

Init ==
  /\ status = "none" /\ current = 0 /\ waitAt = 0 /\ who = NoRun
  /\ job = [j \in Jobs |-> NoJob]
  /\ made = 0
  /\ contact = "ACTIVE" /\ active = TRUE /\ paused = FALSE /\ hold = FALSE
  /\ upsets = 0
  /\ at = [p \in Procs |-> IF p \in Workers THEN "idle" ELSE "new"]
  /\ run = [p \in Procs |-> IF p \in Triggers THEN p ELSE NoRun]
  /\ pos = [p \in Procs |-> 1]
  /\ seen = [p \in Procs |-> NoSnapshot]
  /\ hand = [p \in Procs |-> 0]
  /\ batch = [w \in Workers |-> {}]
  /\ reached = [r \in Triggers |-> 0]
  /\ fired = [j \in Jobs |-> 0]

-----------------------------------------------------------------------------
Goto(p, place) == at' = [at EXCEPT ![p] = place]

(* A worker goes on with its batch, everybody else has finished; what they *)
(* knew is forgotten.                                                      *)
Leave(p, place) ==
  /\ Goto(p, place)
  /\ run' = [run EXCEPT ![p] = IF p \in Triggers THEN p ELSE NoRun]
  /\ pos' = [pos EXCEPT ![p] = 1]
  /\ seen' = [seen EXCEPT ![p] = NoSnapshot]
  /\ hand' = [hand EXCEPT ![p] = 0]

GoOn(p) == Leave(p, IF p \in Workers THEN "pick" ELSE "done")

Row(s, c, w, r) == status' = s /\ current' = c /\ waitAt' = w /\ who' = r

SetStatus(s) == Row(s, current, waitAt, who)

SetJob(j, s) == job' = [job EXCEPT ![j].status = s]

(* cancelPendingJobs takes what is PENDING, whatever run it belongs to.    *)
Cancelled(types) ==
  [j \in Jobs |-> IF job[j].status = "PENDING" /\ job[j].type \in types
                  THEN [job[j] EXCEPT !.status = "CANCELLED"]
                  ELSE job[j]]

NewJob(type, from) ==
  [type |-> type, status |-> "PENDING", from |-> from,
   ripe |-> FALSE, attempts |-> 0]

ScheduleJob(type, from) ==
  /\ made < MaxJobs
  /\ made' = made + 1
  /\ job' = [job EXCEPT ![made + 1] = NewJob(type, from)]

Upset == upsets < MaxUpsets /\ upsets' = upsets + 1

-----------------------------------------------------------------------------
(* runSteps: from the first step for a trigger, from pos[p] for a run that *)
(* is taken up again.                                                      *)
Trigger(p) ==
  /\ p \in Triggers
  /\ at[p] = "new"
  /\ active
  /\ Goto(p, "contact")
  /\ UNCHANGED <<row, queue, world, upsets, run, pos, seen, hand, batch, past>>

CheckContact(p) ==
  /\ at[p] = "contact"
  /\ contact = "ACTIVE"
  /\ Goto(p, IF p \in Triggers THEN "cancel" ELSE "next")
  /\ UNCHANGED <<row, queue, world, upsets, run, pos, seen, hand, batch, past>>

OptedOut(p) ==
  /\ at[p] = "contact"
  /\ contact # "ACTIVE"
  /\ SetStatus(IF status \in {"ACTIVE"} \cup ParkedIn THEN "STOPPED" ELSE status)
  /\ GoOn(p)
  /\ UNCHANGED <<queue, world, upsets, batch, past>>

CancelOld(p) ==
  /\ at[p] = "cancel"
  /\ job' = Cancelled(JobTypes)
  /\ Goto(p, "restart")
  /\ UNCHANGED <<row, made, world, upsets, run, pos, seen, hand, batch, past>>

Restart(p) ==
  /\ at[p] = "restart"
  /\ Row("ACTIVE", 0, waitAt, who)
  /\ Goto(p, "next")
  /\ UNCHANGED <<queue, world, upsets, run, pos, seen, hand, batch, past>>

(* currentStep is written first, then the step is done.  A delay that is   *)
(* the last step is none; any other action is done on the spot, and the    *)
(* run goes on whether it succeeds or not.                                 *)
Place(i) ==
  CASE Steps[i].kind = "wait" -> "wait"
    [] Steps[i].kind = "delay" /\ i < Len(Steps) -> "delay"
    [] OTHER -> "next"

BeginStep(p) ==
  /\ at[p] = "next"
  /\ pos[p] \in Index
  /\ Row(status, pos[p], waitAt, who)
  /\ Goto(p, Place(pos[p]))
  /\ pos' = [pos EXCEPT ![p] = IF Place(@) = "next" THEN @ + 1 ELSE @]
  /\ reached' = [reached EXCEPT ![run[p]] = IF pos[p] > @ THEN pos[p] ELSE @]
  /\ UNCHANGED <<queue, world, upsets, run, seen, hand, batch, fired>>

AddJob(p) ==
  /\ at[p] = "delay"
  /\ ScheduleJob("RESUME_SEQUENCE", pos[p] + 1)
  /\ Goto(p, "park")
  /\ UNCHANGED <<row, world, upsets, run, pos, seen, hand, batch, past>>

ParkScheduled(p) ==
  /\ at[p] = "park"
  /\ Row("SCHEDULED", pos[p], waitAt, run[p])
  /\ GoOn(p)
  /\ UNCHANGED <<queue, world, upsets, batch, past>>

ParkWaiting(p) ==
  /\ at[p] = "wait"
  /\ Row("WAITING", pos[p], pos[p], run[p])
  /\ IF Steps[pos[p]].onTimeout = "none"
     THEN GoOn(p)
     ELSE Goto(p, "alarm") /\ UNCHANGED <<run, pos, seen, hand>>
  /\ UNCHANGED <<queue, world, upsets, batch, past>>

AddTimeout(p) ==
  /\ at[p] = "alarm"
  /\ ScheduleJob("WAIT_TIMEOUT", pos[p] + 1)
  /\ GoOn(p)
  /\ UNCHANGED <<row, world, upsets, batch, past>>

(* A delay or a wait that cannot be written down ends the run.             *)
PauseFails(p) ==
  /\ at[p] \in {"delay", "park", "wait", "alarm"}
  /\ Upset
  /\ SetStatus("FAILED")
  /\ GoOn(p)
  /\ UNCHANGED <<queue, world, batch, past>>

Complete(p) ==
  /\ at[p] = "next"
  /\ pos[p] \notin Index
  /\ SetStatus("COMPLETED")
  /\ GoOn(p)
  /\ UNCHANGED <<queue, world, upsets, batch, past>>

-----------------------------------------------------------------------------
(* onInboundMessage: first the follow-ups that an answer stops, then the   *)
(* wait that it answers.                                                   *)
StopFollowUps(p) ==
  /\ p \in Replies
  /\ at[p] = "new"
  /\ Goto(p, IF status = "SCHEDULED" /\ StopOnReply THEN "unqueue" ELSE "find")
  /\ UNCHANGED <<row, queue, world, upsets, run, pos, seen, hand, batch, past>>

Unqueue(p) ==
  /\ at[p] = "unqueue"
  /\ job' = Cancelled({"RESUME_SEQUENCE"})
  /\ Goto(p, "replied")
  /\ UNCHANGED <<row, made, world, upsets, run, pos, seen, hand, batch, past>>

MarkReplied(p) ==
  /\ at[p] = "replied"
  /\ SetStatus(IF status = "SCHEDULED" THEN "REPLIED" ELSE status)
  /\ Goto(p, "find")
  /\ UNCHANGED <<queue, world, upsets, run, pos, seen, hand, batch, past>>

Look == [step |-> current, wait |-> waitAt, active |-> active]

FindWait(p) ==
  /\ at[p] = "find"
  /\ status = "WAITING"
  /\ seen' = [seen EXCEPT ![p] = Look]
  /\ Goto(p, "take")
  /\ UNCHANGED <<row, queue, world, upsets, run, pos, hand, batch, past>>

(* Nothing waits, or it waits for another word, or the chatbot owns it.    *)
NoMatch(p) ==
  /\ at[p] = "find"
  /\ GoOn(p)
  /\ UNCHANGED <<row, queue, world, upsets, batch, past>>

NextStatus(p) ==
  CASE ~seen[p].active -> "STOPPED"
    [] seen[p].active /\ Steps[seen[p].wait].onReply = "stop" -> "REPLIED"
    [] OTHER -> "ACTIVE"

TakeUp(p, s) ==
  /\ SetStatus(s)
  /\ run' = [run EXCEPT ![p] = IF s = "ACTIVE" THEN who ELSE NoRun]

AnswerAnyway(p) ==
  /\ at[p] = "take"
  /\ TakeUp(p, NextStatus(p))
  /\ Goto(p, "untime")
  /\ UNCHANGED <<queue, world, upsets, pos, seen, hand, batch, past>>

AnswerWait(p) ==
  /\ at[p] = "take"
  /\ status = "WAITING"
  /\ TakeUp(p, NextStatus(p))
  /\ Goto(p, "untime")
  /\ UNCHANGED <<queue, world, upsets, pos, seen, hand, batch, past>>

TooLate(p) ==
  /\ at[p] = "take"
  /\ status # "WAITING"
  /\ GoOn(p)
  /\ UNCHANGED <<row, queue, world, upsets, batch, past>>

CancelTimeout(p) ==
  /\ at[p] = "untime"
  /\ job' = Cancelled({"WAIT_TIMEOUT"})
  /\ IF run[p] = NoRun
     THEN GoOn(p)
     ELSE /\ Goto(p, "contact")
          /\ pos' = [pos EXCEPT ![p] = seen[p].step + 1]
          /\ UNCHANGED <<run, seen, hand>>
  /\ UNCHANGED <<row, made, world, upsets, batch, past>>

-----------------------------------------------------------------------------
(* runDueJobs: claim a batch, deal with its jobs one by one, claim again.  *)
Claimable == {j \in Jobs : job[j].ripe /\ job[j].status \in {"PENDING", "RUNNING"}}

Claim(w) ==
  /\ w \in Workers
  /\ at[w] = "idle"
  /\ Locked => \A v \in Workers : at[v] = "idle"
  /\ \E chosen \in SUBSET Claimable :
       /\ chosen # {}
       /\ Cardinality(chosen) = Batch \/ chosen = Claimable
       /\ Cardinality(chosen) <= Batch
       /\ batch' = [batch EXCEPT ![w] = chosen]
       /\ job' = [j \in Jobs |->
                    IF j \in chosen
                    THEN [job[j] EXCEPT !.status = "RUNNING", !.ripe = FALSE,
                                        !.attempts = @ + 1]
                    ELSE job[j]]
  /\ Goto(w, "pick")
  /\ UNCHANGED <<row, made, world, upsets, run, pos, seen, hand, past>>

BatchDone(w) ==
  /\ at[w] = "pick"
  /\ batch[w] = {}
  /\ Goto(w, "idle")
  /\ UNCHANGED <<row, queue, world, upsets, run, pos, seen, hand, batch, past>>

InHand(w) == job[hand[w]]

Expected(j) == IF job[j].type = "WAIT_TIMEOUT" THEN "WAITING" ELSE "SCHEDULED"

(* Automation, sequence and contact are read together, the rest later.     *)
ReadRow(w) ==
  /\ at[w] = "pick"
  /\ \E j \in batch[w] :
       /\ hand' = [hand EXCEPT ![w] = j]
       /\ batch' = [batch EXCEPT ![w] = @ \ {j}]
       /\ Goto(w, CASE ~active \/ status # Expected(j) -> "drop"
                    [] active /\ status = Expected(j) /\ contact # "ACTIVE" -> "stop"
                    [] OTHER -> "check")
  /\ seen' = [seen EXCEPT ![w] = Look]
  /\ UNCHANGED <<row, queue, world, upsets, run, pos, past>>

CheckChat(w) ==
  /\ at[w] = "check"
  /\ Goto(w, CASE paused -> "stop"
               [] ~paused /\ hold -> "defer"
               [] ~paused /\ ~hold /\ InHand(w).type = "WAIT_TIMEOUT"
                    /\ Steps[seen[w].wait].onTimeout # "continue" -> "timeout"
               [] OTHER -> "flip")
  /\ UNCHANGED <<row, queue, world, upsets, run, pos, seen, hand, batch, past>>

(* stopSequence: only what is still parked.                                *)
StopSequence(w) ==
  /\ at[w] \in {"stop", "timeout"}
  /\ SetStatus(IF status \notin ParkedIn THEN status
               ELSE IF at[w] = "stop" THEN "STOPPED" ELSE "TIMED_OUT")
  /\ Goto(w, IF at[w] = "stop" THEN "drop" ELSE "close")
  /\ UNCHANGED <<queue, world, upsets, run, pos, seen, hand, batch, past>>

FinishUnrun(w) ==
  /\ at[w] \in {"drop", "close"}
  /\ SetJob(hand[w], IF at[w] = "drop" THEN "CANCELLED" ELSE "DONE")
  /\ GoOn(w)
  /\ UNCHANGED <<row, made, world, upsets, batch, past>>

DeferJob(w) ==
  /\ at[w] = "defer"
  /\ job' = [job EXCEPT ![hand[w]].status = "PENDING", ![hand[w]].ripe = FALSE,
                        ![hand[w]].attempts = @ - 1]
  /\ GoOn(w)
  /\ UNCHANGED <<row, made, world, upsets, batch, past>>

FlipAnyway(w) ==
  /\ at[w] = "flip"
  /\ TakeUp(w, "ACTIVE")
  /\ Goto(w, "finish")
  /\ UNCHANGED <<queue, world, upsets, pos, seen, hand, batch, past>>

Flip(w) ==
  /\ at[w] = "flip"
  /\ IF status = Expected(hand[w])
     THEN TakeUp(w, "ACTIVE") /\ Goto(w, "finish")
     ELSE Goto(w, "drop") /\ UNCHANGED <<row, run>>
  /\ UNCHANGED <<queue, world, upsets, pos, seen, hand, batch, past>>

LeaveRunning(w) ==
  /\ at[w] = "finish"
  /\ fired' = [fired EXCEPT ![hand[w]] = @ + 1]
  /\ pos' = [pos EXCEPT ![w] = InHand(w).from]
  /\ Goto(w, "contact")
  /\ UNCHANGED <<row, queue, world, upsets, run, seen, hand, batch, reached>>

(* DONE is written before the steps are done.                              *)
FinishJob(w) ==
  /\ at[w] = "finish"
  /\ SetJob(hand[w], "DONE")
  /\ fired' = [fired EXCEPT ![hand[w]] = @ + 1]
  /\ pos' = [pos EXCEPT ![w] = InHand(w).from]
  /\ Goto(w, "contact")
  /\ UNCHANGED <<row, made, world, upsets, run, seen, hand, batch, reached>>

(* An error before the steps: retryOrFailJob.                              *)
JobFails(w) ==
  /\ w \in Workers
  /\ at[w] \in Working \ {"pick"}
  /\ Upset
  /\ IF InHand(w).attempts >= MaxAttempts
     THEN SetJob(hand[w], "FAILED")
     ELSE job' = [job EXCEPT ![hand[w]].status = "PENDING",
                             ![hand[w]].ripe = FALSE]
  /\ GoOn(w)
  /\ UNCHANGED <<row, made, world, batch, past>>

-----------------------------------------------------------------------------
(* What happens around them.                                               *)
Toggle ==
  /\ Upset
  /\ active' = ~active
  /\ UNCHANGED <<row, queue, contact, paused, hold, at, run, pos, seen,
                 hand, batch, past>>

TakeOver ==
  /\ Upset
  /\ paused' = ~paused
  /\ UNCHANGED <<row, queue, contact, active, hold, at, run, pos, seen,
                 hand, batch, past>>

OptInOut ==
  /\ Upset
  /\ contact' = IF contact = "ACTIVE" THEN "UNSUBSCRIBED" ELSE "ACTIVE"
  /\ UNCHANGED <<row, queue, active, paused, hold, at, run, pos, seen,
                 hand, batch, past>>

HoldBack ==
  /\ ~hold
  /\ Upset
  /\ hold' = TRUE
  /\ UNCHANGED <<row, queue, contact, active, paused, at, run, pos,
                 seen, hand, batch, past>>

LetGo ==
  /\ hold
  /\ hold' = FALSE
  /\ UNCHANGED <<row, queue, contact, active, paused, upsets, at, run,
                 pos, seen, hand, batch, past>>

(* A job falls due, or has been RUNNING for ten minutes.                   *)
TimePasses(j) ==
  /\ job[j].status \in {"PENDING", "RUNNING"}
  /\ ~job[j].ripe
  /\ job' = [job EXCEPT ![j].ripe = TRUE]
  /\ UNCHANGED <<row, made, world, upsets, at, run, pos, seen, hand, batch, past>>

(* The process dies with whatever it had in hand.                          *)
Die(p) ==
  /\ at[p] \notin {"new", "done", "idle"}
  /\ Upset
  /\ Leave(p, IF p \in Workers THEN "idle" ELSE "done")
  /\ batch' = [w \in Workers |-> IF w = p THEN {} ELSE batch[w]]
  /\ UNCHANGED <<row, queue, world, past>>

-----------------------------------------------------------------------------
RunStep(p) ==
  \/ CheckContact(p) \/ OptedOut(p) \/ CancelOld(p) \/ Restart(p)
  \/ BeginStep(p) \/ AddJob(p) \/ ParkScheduled(p) \/ ParkWaiting(p)
  \/ AddTimeout(p) \/ Complete(p)

AnswerStep(p) ==
  \/ Unqueue(p) \/ MarkReplied(p) \/ FindWait(p) \/ NoMatch(p)
  \/ AnswerWait(p) \/ TooLate(p) \/ CancelTimeout(p)

WorkerStep(w) ==
  \/ BatchDone(w) \/ ReadRow(w) \/ CheckChat(w) \/ StopSequence(w)
  \/ FinishUnrun(w) \/ DeferJob(w) \/ Flip(w) \/ FinishJob(w)

Next ==
  \/ \E p \in Procs : RunStep(p) \/ PauseFails(p) \/ Die(p)
  \/ \E p \in Triggers : Trigger(p)
  \/ \E p \in Replies : StopFollowUps(p) \/ AnswerStep(p)
  \/ \E w \in Workers : Claim(w) \/ WorkerStep(w) \/ JobFails(w)
  \/ \E j \in Jobs : TimePasses(j)
  \/ Toggle \/ TakeOver \/ OptInOut \/ HoldBack \/ LetGo

Spec == Init /\ [][Next]_vars

-----------------------------------------------------------------------------
(* Whoever works on a run, or has just taken it up.                        *)
Doing(p) == run[p] # NoRun /\ at[p] \in Going \cup {"untime", "finish"}

(* A run goes on in one place at a time, and not while it is parked: the   *)
(* answer, the timeout and a second worker never take it up together.      *)
OneRunnerEach ==
  \A p \in Procs : Doing(p) =>
    /\ \A q \in Procs \ {p} : Doing(q) => run[q] # run[p]
    /\ status \in ParkedIn => who # run[p]

(* A job makes a run go on at most once, whatever is retried or taken over.*)
JobOnce == \A j \in Jobs : fired[j] <= 1

(* What the rows promise: TriggeredRuns.                                   *)
GoingOn == {run[p] : p \in {q \in Procs : Doing(q)}}
ParkedRun == IF status \in ParkedIn THEN who ELSE NoRun
Started == {r \in Triggers : at[r] # "new"}
Runs == INSTANCE TriggeredRuns
          WITH Runs <- Triggers, going <- GoingOn, parked <- ParkedRun,
               over <- Started \ (GoingOn \cup {ParkedRun})
ImplementsRuns == Runs!RunsSpec
=============================================================================
