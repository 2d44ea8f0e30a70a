---------------------------- MODULE CampaignSend ----------------------------
(***************************************************************************)
(* Sending one campaign (campaigns.service.ts, campaigns.claim.ts,         *)
(* campaigns.recovery.service.ts, the scheduled start in server.ts).       *)
(*                                                                         *)
(* A loop is one run of processCampaignContacts on a server instance: it   *)
(* claims batches of contacts, sends to them with several workers and      *)
(* writes the outcomes of the sends back in groups.  Users and the         *)
(* scheduler start, pause, resume, cancel and retry the campaign through   *)
(* any instance; each of these reads the campaign and acts on what it read *)
(* after the next await.  Instances die and recover.                       *)
(***************************************************************************)
EXTENDS Integers, FiniteSets, FiniteSetsExt

CONSTANTS
  Contact,       \* the recipients of the campaign
  Server,        \* server instances
  Loop,          \* names for runs of processCampaignContacts, used again
  Batch,         \* contacts claimed at a time (500)
  Workers,       \* requests in flight at a time (5 to 20)
  Ops,           \* which operations are called
  MaxOps,        \* how many of them
  Faults,        \* what goes wrong
  MaxFaults,     \* how much of it
  None           \* no server, no operation

ASSUME CampaignAssumption ==
  /\ Contact # {} /\ IsFiniteSet(Contact) /\ IsFiniteSet(Loop)
  /\ Batch \in Nat \ {0} /\ Workers \in Nat \ {0}
  /\ Ops \subseteq {"start", "pause", "resume", "cancel", "retry"}
  /\ Faults \subseteq {"refuse", "autopause", "throw", "old", "crash"}
  /\ MaxOps \in Nat /\ MaxFaults \in Nat
  /\ None \notin Server
  /\ None \notin {"start", "pause", "resume", "cancel", "retry", "rerun"}

VARIABLES
  \* the database
  status,        \* Campaign.status
  row,           \* CampaignContact.status of every contact
  old,           \* QUEUED rows that were updated more than five minutes ago
  \* the memory of the instances
  up,            \* "up", or how far the boot of an instance has come
  busy,          \* instances with the campaign in processingCampaigns
  halted,        \* instances with it in pausedCampaigns or cancelledCampaigns
  op,            \* the operation an instance is carrying out
  \* the loops
  pc, home,      \* where each loop is, and on which instance
  todo,          \* contacts it has claimed and not yet sent to
  flying,        \* requests at Meta
  sent, failed,  \* outcomes it has not yet written
  count,         \* messages it has sent (totalSentCount)
  verdict,       \* what its final count made of the campaign
  \* what happened
  messages,      \* messages each contact was sent
  requeued,      \* times a contact was made claimable again
  charged,       \* messages charged to the wallet
  calls,         \* how often each operation was called
  faults         \* what has gone wrong

db == <<status, row, old>>
memory == <<up, busy, halted, op>>
buffers == <<sent, failed>>
work == <<todo, flying>>
history == <<messages, requeued, charged, calls, faults>>
vars == <<db, memory, pc, home, work, buffers, count, verdict, history>>

-----------------------------------------------------------------------------
Stages ==
  {"free", "called", "loading", "ready", "claim", "claiming", "sending", "pausing",
   "exiting", "halting", "orphan", "flush", "counting", "counted", "completing",
   "leaving"}

TypeOK ==
  /\ status \in {"SCHEDULED", "RUNNING", "PAUSED", "COMPLETED", "FAILED", "CANCELLED"}
  /\ row \in [Contact -> {"PENDING", "QUEUED", "SENT", "FAILED"}]
  /\ old \subseteq {c \in Contact : row[c] = "QUEUED"}
  /\ up \in [Server -> {"up", "down", "recovering", "closing"}]
  /\ busy \subseteq Server /\ halted \subseteq Server
  /\ op \in [Server -> Ops \cup {None, "rerun"}]
  /\ pc \in [Loop -> Stages]
  /\ home \in [Loop -> Server \cup {None}]
  /\ todo \in [Loop -> SUBSET Contact] /\ flying \in [Loop -> SUBSET Contact]
  /\ sent \in [Loop -> SUBSET Contact] /\ failed \in [Loop -> SUBSET Contact]
  /\ count \in [Loop -> Nat]
  /\ verdict \in [Loop -> {"open", "COMPLETED", "FAILED"}]
  /\ messages \in [Contact -> Nat] /\ requeued \in [Contact -> Nat]
  /\ charged \in Nat
  /\ calls \in [Ops -> Nat] /\ faults \subseteq Faults

(* A campaign that was created with a schedule. *)
Init ==
  /\ status = "SCHEDULED"
  /\ row = [c \in Contact |-> "PENDING"]
  /\ old = {}
  /\ up = [s \in Server |-> "up"]
  /\ busy = {} /\ halted = {}
  /\ op = [s \in Server |-> None]
  /\ pc = [l \in Loop |-> "free"]
  /\ home = [l \in Loop |-> None]
  /\ todo = [l \in Loop |-> {}] /\ flying = [l \in Loop |-> {}]
  /\ sent = [l \in Loop |-> {}] /\ failed = [l \in Loop |-> {}]
  /\ count = [l \in Loop |-> 0]
  /\ verdict = [l \in Loop |-> "open"]
  /\ messages = [c \in Contact |-> 0] /\ requeued = [c \in Contact |-> 0]
  /\ charged = 0
  /\ calls = [kind \in Ops |-> 0] /\ faults = {}

Fault(kind) ==
  /\ kind \in Faults \ faults /\ Cardinality(faults) < MaxFaults
  /\ faults' = faults \cup {kind}

(* A written row is no longer old. *)
StillOld(C) == old
OldBut(C) == old \ C

Goto(l, stage) == pc' = [pc EXCEPT ![l] = stage]

(* The contacts of C are made PENDING, hence claimable, again. *)
Requeue(C) ==
  /\ row' = [c \in Contact |-> IF c \in C THEN "PENDING" ELSE row[c]]
  /\ old' = OldBut(C)
  /\ requeued' = [c \in Contact |-> IF c \in C /\ row[c] # "PENDING"
                                       THEN requeued[c] + 1 ELSE requeued[c]]

QueuedOld == old
Queued == {c \in Contact : row[c] = "QUEUED"}
Unfinished == {c \in Contact : row[c] \in {"PENDING", "QUEUED"}}

-----------------------------------------------------------------------------
(* Entering the loop.                                                      *)

Spawn(l, s) ==
  /\ pc[l] = "free"
  /\ Goto(l, "called")
  /\ home' = [home EXCEPT ![l] = s]

Enter(l) ==
  /\ pc[l] = "called"
  /\ IF home[l] \in busy
       THEN /\ Goto(l, "free") /\ home' = [home EXCEPT ![l] = None]
            /\ UNCHANGED busy
       ELSE /\ Goto(l, "loading") /\ busy' = busy \cup {home[l]}
            /\ UNCHANGED home
  /\ UNCHANGED <<db, up, halted, op, work, buffers, count, verdict, history>>

(* Rows left QUEUED are put back: by whom they were claimed is not asked.  *)
ResetQueued(l) ==
  /\ pc[l] = "loading"
  /\ Requeue(Queued)
  /\ Goto(l, "ready")
  /\ UNCHANGED <<status, memory, home, work, buffers, count, verdict, messages,
                 charged, calls, faults>>

(* The organisation is suspended, the token, number, rating or media is    *)
(* bad, the wallet too low, or (later) the day's allowance is used up.     *)
Refuse(l) ==
  /\ pc[l] \in {"loading", "ready", "claiming"}
  /\ Fault("refuse")
  /\ status' = "PAUSED"
  /\ Goto(l, IF pc[l] = "claiming" THEN "flush" ELSE "leaving")
  /\ UNCHANGED <<row, old, memory, home, work, buffers, count, verdict, messages,
                 requeued, charged, calls>>

-----------------------------------------------------------------------------
(* The send loop.                                                          *)

CheckStatus(l) ==
  /\ pc[l] \in {"ready", "claim"}
  /\ Goto(l, IF status = "RUNNING" THEN "claiming" ELSE "flush")
  /\ UNCHANGED <<db, memory, home, work, buffers, count, verdict, history>>

(* claimContactBatch: PENDING rows, and QUEUED rows that nobody has        *)
(* touched for five minutes, become QUEUED in one statement.               *)
Claimable == {c \in Contact : row[c] = "PENDING"} \cup old

RowsLeftPending(batch) == row
RowsClaimed(batch) == [c \in Contact |-> IF c \in batch THEN "QUEUED" ELSE row[c]]

Claim(l) ==
  /\ pc[l] = "claiming"
  /\ Claimable # {}
  /\ \E batch \in SUBSET Claimable :
       /\ Cardinality(batch) <= Batch
       /\ batch = Claimable \/ Cardinality(batch) = Batch
       /\ row' = RowsClaimed(batch)
       /\ old' = OldBut(batch)
       /\ requeued' = [c \in Contact |-> IF c \in batch \cap old THEN requeued[c] + 1
                                                             ELSE requeued[c]]
       /\ todo' = [todo EXCEPT ![l] = batch]
  /\ Goto(l, "sending")
  /\ UNCHANGED <<status, memory, home, flying, buffers, count, verdict, messages,
                 charged, calls, faults>>

ClaimNothing(l) ==
  /\ pc[l] = "claiming"
  /\ Claimable = {}
  /\ Goto(l, "flush")
  /\ UNCHANGED <<db, memory, home, work, buffers, count, verdict, history>>

(* A worker takes the next contact, unless a pause or cancel signal of its *)
(* own instance stops it; the database is asked only every three seconds.  *)
Begin(l, c) ==
  /\ pc[l] \in {"sending", "pausing", "orphan"}
  /\ c \in todo[l]
  /\ home[l] \notin halted
  /\ Cardinality(flying[l]) < Workers
  /\ todo' = [todo EXCEPT ![l] = @ \ {c}]
  /\ flying' = [flying EXCEPT ![l] = @ \cup {c}]
  /\ UNCHANGED <<db, memory, pc, home, buffers, count, verdict, history>>

Halt(l) ==
  /\ pc[l] = "sending"
  /\ home[l] \in halted \/ status # "RUNNING"
  /\ Goto(l, "halting")
  /\ todo' = [todo EXCEPT ![l] = {}]
  /\ UNCHANGED <<db, memory, home, flying, buffers, count, verdict, history>>

(* Meta answers; a message it accepted is out.  The answer may say that    *)
(* nothing more can be sent (expired token, restricted account): sendOne   *)
(* does not pass that on, so the loop does not learn of it.                *)
TalliedAlways(l, accepted) == [count EXCEPT ![l] = @ + 1]
Tallied(l, accepted) == IF accepted THEN [count EXCEPT ![l] = @ + 1] ELSE count

Arrive(l, c) ==
  /\ c \in flying[l]
  /\ flying' = [flying EXCEPT ![l] = @ \ {c}]
  /\ \E accepted \in BOOLEAN :
       /\ count' = Tallied(l, accepted)
       /\ IF accepted
            THEN /\ messages' = [messages EXCEPT ![c] = @ + 1]
                 /\ sent' = [sent EXCEPT ![l] = @ \cup {c}]
                 /\ UNCHANGED failed
            ELSE /\ failed' = [failed EXCEPT ![l] = @ \cup {c}]
                 /\ UNCHANGED <<messages, sent>>
  /\ UNCHANGED <<db, memory, pc, home, todo, verdict, requeued, charged, calls, faults>>

WrittenUnsent(l) ==
  [c \in Contact |-> IF c \in failed[l] THEN "FAILED"
                     ELSE IF c \in sent[l] \cup flying[l] THEN "SENT" ELSE row[c]]

(* flushBatchResults writes the outcomes by id, whatever the rows hold.    *)
Written(l) ==
  [c \in Contact |-> IF c \in failed[l] THEN "FAILED"
                     ELSE IF c \in sent[l] THEN "SENT" ELSE row[c]]
WriteOutcomes(l) ==
  /\ row' = Written(l)
  /\ old' = OldBut(sent[l] \cup failed[l])
  /\ sent' = [sent EXCEPT ![l] = {}]
  /\ failed' = [failed EXCEPT ![l] = {}]

Flush(l) ==
  /\ pc[l] \in {"sending", "orphan"}
  /\ sent[l] \cup failed[l] # {}
  /\ WriteOutcomes(l)
  /\ UNCHANGED <<status, memory, pc, home, work, count, verdict, history>>

BatchDone(l) ==
  /\ pc[l] = "sending"
  /\ todo[l] = {} /\ flying[l] = {}
  /\ Goto(l, "claim")
  /\ UNCHANGED <<db, memory, home, work, buffers, count, verdict, history>>

HaltedLeaves == "leaving"
AfterHalt == "flush"

HaltDone(l) ==
  /\ pc[l] = "halting"
  /\ flying[l] = {}
  /\ Goto(l, AfterHalt)
  /\ UNCHANGED <<db, memory, home, work, buffers, count, verdict, history>>

(* Ten failures of one kind in a row, or the balance has become too low:   *)
(* the worker pauses the campaign, writes the outcomes known by then, and  *)
(* only then tells the other workers to stop.                              *)
AutoPause(l) ==
  /\ pc[l] = "sending"
  /\ sent[l] \cup failed[l] # {}
  /\ Fault("autopause")
  /\ status' = "PAUSED"
  /\ Goto(l, "pausing")
  /\ UNCHANGED <<row, old, memory, home, work, buffers, count, verdict, messages,
                 requeued, charged, calls>>

AutoPauseFlush(l) ==
  /\ pc[l] = "pausing"
  /\ WriteOutcomes(l)
  /\ todo' = [todo EXCEPT ![l] = {}]
  /\ Goto(l, "exiting")
  /\ UNCHANGED <<status, memory, home, flying, count, verdict, history>>

(* The loop returns as soon as the requests in flight have been answered:  *)
(* their outcomes are not written and nothing is charged.                  *)
Exit(l) ==
  /\ pc[l] = "exiting"
  /\ flying[l] = {}
  /\ sent' = [sent EXCEPT ![l] = {}]
  /\ failed' = [failed EXCEPT ![l] = {}]
  /\ Goto(l, "leaving")
  /\ UNCHANGED <<db, memory, home, work, count, verdict, history>>

-----------------------------------------------------------------------------
(* After the loop.                                                         *)

FinalFlush(l) ==
  /\ pc[l] = "flush"
  /\ WriteOutcomes(l)
  /\ Goto(l, "counting")
  /\ UNCHANGED <<status, memory, home, work, count, verdict, history>>

Tally(s) == Cardinality({c \in Contact : row[c] = s})

VerdictOnPending ==
  IF Tally("PENDING") > 0 THEN "open"
  ELSE IF 5 * Tally("SENT") < Tally("SENT") + Tally("FAILED") THEN "FAILED"
  ELSE "COMPLETED"

(* Under a fifth sent is a failed campaign. *)
Verdict ==
  IF Unfinished # {} THEN "open"
  ELSE IF 5 * Tally("SENT") < Tally("SENT") + Tally("FAILED") THEN "FAILED"
  ELSE "COMPLETED"
(* The counters are synchronised, and what the loop sent is charged, as    *)
(* far as the wallet is active, not flagged and holds enough.              *)
Count(l) ==
  /\ pc[l] = "counting"
  /\ verdict' = [verdict EXCEPT ![l] = Verdict]
  /\ charged' \in charged .. (charged + count[l])
  /\ count' = [count EXCEPT ![l] = 0]
  /\ Goto(l, "counted")
  /\ UNCHANGED <<db, memory, home, work, buffers, messages, requeued, calls,
                 faults>>

ReadLatest(l) ==
  /\ pc[l] = "counted"
  /\ Goto(l, IF status = "RUNNING" /\ verdict[l] # "open" THEN "completing" ELSE "leaving")
  /\ UNCHANGED <<db, memory, home, work, buffers, count, verdict, history>>

Complete(l) ==
  /\ pc[l] = "completing"
  /\ status' = verdict[l]
  /\ Goto(l, "leaving")
  /\ UNCHANGED <<row, old, memory, home, work, buffers, count, verdict, history>>

Freed(l) ==
  /\ Goto(l, "free")
  /\ home' = [home EXCEPT ![l] = None]
  /\ todo' = [todo EXCEPT ![l] = {}] /\ flying' = [flying EXCEPT ![l] = {}]
  /\ sent' = [sent EXCEPT ![l] = {}] /\ failed' = [failed EXCEPT ![l] = {}]
  /\ count' = [count EXCEPT ![l] = 0]
  /\ verdict' = [verdict EXCEPT ![l] = "open"]

(* finally: the instance forgets the campaign, whichever loop it was of.   *)
Leave(l) ==
  /\ pc[l] = "leaving"
  /\ busy' = busy \ {home[l]}
  /\ Freed(l)
  /\ UNCHANGED <<db, up, halted, op, messages, requeued, charged, calls, faults>>

(* An exception: the campaign has failed, and outcomes not yet written are *)
(* lost.  One worker's exception ends the loop, but not the other workers: *)
(* they go on until they notice.                                           *)
Throw(l) ==
  /\ pc[l] \notin {"free", "called", "pausing", "orphan", "leaving"}
  /\ Fault("throw")
  /\ status' = "FAILED"
  /\ IF pc[l] \in {"sending", "halting", "exiting"}
       THEN /\ Goto(l, "orphan") /\ busy' = busy \ {home[l]}
            /\ UNCHANGED <<home, work, buffers, count, verdict>>
       ELSE /\ Goto(l, "leaving")
            /\ UNCHANGED <<busy, home, work, buffers, count, verdict>>
  /\ UNCHANGED <<row, old, up, halted, op, messages, requeued, charged, calls>>

OrphanEnds(l) ==
  /\ pc[l] = "orphan"
  /\ flying[l] = {}
  /\ todo[l] = {} \/ home[l] \in halted \/ status # "RUNNING"
  /\ Freed(l)
  /\ UNCHANGED <<db, memory, messages, requeued, charged, calls, faults>>

LoopStep(l) ==
  \/ Enter(l) \/ ResetQueued(l) \/ CheckStatus(l)
  \/ Claim(l) \/ ClaimNothing(l)
  \/ Halt(l) \/ HaltDone(l) \/ BatchDone(l) \/ Flush(l)
  \/ \E c \in Contact : Begin(l, c) \/ Arrive(l, c)
  \/ AutoPauseFlush(l) \/ Exit(l)
  \/ FinalFlush(l) \/ Count(l) \/ ReadLatest(l) \/ Complete(l)
  \/ Leave(l) \/ OrphanEnds(l)

-----------------------------------------------------------------------------
(* Operations: the campaign is read and checked, then written.  One is in  *)
(* progress on an instance at a time.                                      *)

Allowed(kind) ==
  CASE kind = "start" -> status \notin {"RUNNING", "COMPLETED"}
    [] kind = "pause" -> status = "RUNNING"
    [] kind = "resume" -> status \in {"PAUSED", "FAILED"}
    [] kind = "cancel" -> status # "COMPLETED"
    [] kind = "retry" -> TRUE

Call(s, kind) ==
  /\ up[s] = "up" /\ op[s] = None
  /\ kind \in Ops /\ Allowed(kind)
  /\ MapThenSumSet(LAMBDA k : calls[k], Ops) < MaxOps
  /\ calls' = [calls EXCEPT ![kind] = @ + 1]
  /\ op' = [op EXCEPT ![s] = kind]
  /\ halted' = CASE kind \in {"pause", "cancel"} -> halted \cup {s}
                 [] kind \in {"start", "resume"} -> halted \ {s}
                 [] OTHER -> halted
  /\ busy' = IF kind \in {"pause", "resume", "cancel"} THEN busy \ {s} ELSE busy
  /\ UNCHANGED <<db, up, pc, home, work, buffers, count, verdict, messages, requeued,
                 charged, faults>>

(* A start that is refused has already cleared the signals.                *)
StartRefused(s) ==
  /\ up[s] = "up" /\ op[s] = None
  /\ "start" \in Ops /\ ~Allowed("start")
  /\ s \in halted
  /\ halted' = halted \ {s}
  /\ UNCHANGED <<db, up, busy, op, pc, home, work, buffers, count, verdict, history>>

Answer(s) == op' = [op EXCEPT ![s] = None]

(* start and resume, and the second half of retry. *)
Run(s) ==
  /\ op[s] \in {"start", "resume", "rerun"}
  /\ status' = "RUNNING"
  /\ \E l \in Loop : Spawn(l, s)
  /\ Answer(s)
  /\ UNCHANGED <<row, old, up, busy, halted, work, buffers, count, verdict, history>>

PauseWrite(s) ==
  /\ op[s] \in {"pause", "cancel"}
  /\ status' = IF op[s] = "pause" THEN "PAUSED" ELSE "CANCELLED"
  /\ Answer(s)
  /\ UNCHANGED <<row, old, up, busy, halted, pc, home, work, buffers, count, verdict,
                 history>>

(* retry puts failed contacts back, and takes up pending ones: those asked *)
(* for or all of them.  It leaves the pause and cancel signals in place.   *)
RetryRows(s) ==
  /\ op[s] = "retry"
  /\ \E C \in SUBSET {c \in Contact : row[c] \in {"FAILED", "PENDING"}} :
       IF C = {}
         THEN Answer(s) /\ UNCHANGED <<row, old, requeued>>
         ELSE Requeue(C) /\ op' = [op EXCEPT ![s] = "rerun"]
  /\ UNCHANGED <<status, up, busy, halted, pc, home, work, buffers, count, verdict,
                 messages, charged, calls, faults>>

-----------------------------------------------------------------------------
(* Time, crashes and the recovery at boot.                                 *)

GrowOld(c) ==
  /\ row[c] = "QUEUED" /\ c \notin old
  /\ Fault("old")
  /\ old' = old \cup {c}
  /\ UNCHANGED <<status, row, memory, pc, home, work, buffers, count, verdict, messages,
                 requeued, charged, calls>>

(* A request in flight when its instance dies may have reached its contact.*)
Crash(s) ==
  /\ up[s] = "up"
  /\ Fault("crash")
  /\ up' = [up EXCEPT ![s] = "down"]
  /\ busy' = busy \ {s} /\ halted' = halted \ {s}
  /\ Answer(s)
  /\ \E reached \in SUBSET {d \in Loop \X Contact : home[d[1]] = s /\ d[2] \in flying[d[1]]} :
       messages' = [c \in Contact |->
                      messages[c] + Cardinality({d \in reached : d[2] = c})]
  /\ LET gone == {l \in Loop : home[l] = s}
         Reset(f, v) == [l \in Loop |-> IF l \in gone THEN v ELSE f[l]]
     IN /\ pc' = Reset(pc, "free") /\ home' = Reset(home, None)
        /\ todo' = Reset(todo, {}) /\ flying' = Reset(flying, {})
        /\ sent' = Reset(sent, {}) /\ failed' = Reset(failed, {})
        /\ count' = Reset(count, 0) /\ verdict' = Reset(verdict, "open")
  /\ UNCHANGED <<db, requeued, charged, calls>>

(* resetStuckContacts, under the job lock: a second instance that boots    *)
(* meanwhile leaves the recovery to the first.                             *)
Recover(s) ==
  /\ up[s] = "down"
  /\ IF \E t \in Server : up[t] \in {"recovering", "closing"}
       THEN up' = [up EXCEPT ![s] = "up"] /\ UNCHANGED <<row, old, requeued>>
       ELSE up' = [up EXCEPT ![s] = "recovering"] /\ Requeue(Queued)
  /\ UNCHANGED <<status, busy, halted, op, pc, home, work, buffers, count, verdict,
                 messages, charged, calls, faults>>

(* resumeStuckCampaigns: run what is left, or close what is done.          *)
RecoverRun(s) ==
  /\ up[s] = "recovering"
  /\ \/ /\ status = "RUNNING" /\ Unfinished # {}
        /\ \E l \in Loop : Spawn(l, s)
        /\ up' = [up EXCEPT ![s] = "up"]
     \/ /\ status = "RUNNING" /\ Unfinished = {}
        /\ up' = [up EXCEPT ![s] = "closing"]
        /\ UNCHANGED <<pc, home>>
     \/ /\ status # "RUNNING"
        /\ up' = [up EXCEPT ![s] = "up"]
        /\ UNCHANGED <<pc, home>>
  /\ UNCHANGED <<db, busy, halted, op, work, buffers, count, verdict, history>>

RecoverClose(s) ==
  /\ up[s] = "closing"
  /\ status' = "COMPLETED"
  /\ up' = [up EXCEPT ![s] = "up"]
  /\ UNCHANGED <<row, old, busy, halted, op, pc, home, work, buffers, count, verdict,
                 history>>

ServerStep(s) ==
  Run(s) \/ PauseWrite(s) \/ RetryRows(s) \/ Recover(s) \/ RecoverRun(s) \/ RecoverClose(s)

-----------------------------------------------------------------------------
Next ==
  \/ \E l \in Loop : LoopStep(l) \/ Refuse(l) \/ AutoPause(l) \/ Throw(l)
  \/ \E s \in Server :
       \/ ServerStep(s) \/ Crash(s) \/ StartRefused(s)
       \/ \E kind \in Ops : Call(s, kind)
  \/ \E c \in Contact : GrowOld(c)

Spec == Init /\ [][Next]_vars

(* Node runs what is ready: every loop goes on and every call that was     *)
(* accepted is carried out.  Nobody has to call anything.                  *)
FairSpec ==
  /\ Spec
  /\ \A l \in Loop :
       /\ WF_vars(LoopStep(l))
       /\ \A c \in Contact : WF_vars(Begin(l, c)) /\ WF_vars(Arrive(l, c))
  /\ \A s \in Server : WF_vars(ServerStep(s))

-----------------------------------------------------------------------------
(* What f counts, piece by piece: as many pieces of each x as f[x] says.   *)
Pieces(f) == UNION {{x} \X (1 .. f[x]) : x \in DOMAIN f}

TotalMessages == Cardinality(Pieces(messages))

(* Two loops that race over one campaign never get the same row from the   *)
(* pool: a contact is sent a second message only after its row was made    *)
(* claimable again (by a reset, a retry or the five minutes).              *)
SendsBounded == \A c \in Contact : messages[c] <= 1 + requeued[c]

(* However loops overlap, crash or are paused, the wallet never pays for   *)
(* more messages than were sent.                                           *)
ChargedAtMostSent == charged <= TotalMessages

(* A contact shown as sent to was sent a message.                          *)
SentMeansMessaged == \A c \in Contact : row[c] = "SENT" => messages[c] > 0

Called(kind) == kind \in Ops /\ calls[kind] > 0

(* A completed campaign has nobody waiting, unless failed contacts were put*)
(* back meanwhile: a loop that is about to finish does not look again.     *)
CompletedMeansDone == status = "COMPLETED" => Unfinished = {} \/ Called("retry")

(* When no loop runs, the outcome of every message sent is in its row: not *)
(* one is missed between two flushes.  Crashes, exceptions and automatic   *)
(* pauses do lose outcomes.                                                *)
OutcomesWritten ==
  (\A l \in Loop : pc[l] = "free") /\ faults \cap {"crash", "throw", "autopause"} = {}
    => \A c \in Unfinished : messages[c] = 0 \/ Called("retry")

(* A running campaign does not stay running with nobody sending it.        *)
Finishes == status = "RUNNING" ~> status # "RUNNING"
==============================================================================
