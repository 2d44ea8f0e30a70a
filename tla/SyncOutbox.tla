----------------------------- MODULE SyncOutbox -----------------------------
(***************************************************************************)
(* modules/sync: what changed here is queued in an outbox, one row for     *)
(* each thing that is mirrored, and pushed to TeamOS.                      *)
(*                                                                         *)
(* A scheduled run takes a lease, which is not renewed; a backfill takes   *)
(* none, so that any of them may be under way at once.  A run reads the    *)
(* clients in full, but only the money whose updatedAt is not older than   *)
(* the cursor, looking back OVERLAP_MS beyond it.  A row is stamped with   *)
(* updatedAt before its transaction commits, so it is seen late;           *)
(* OVERLAP_MS is taken to exceed the longest transaction.                  *)
(* Of time only the order is kept: what has been stamped since the cursor, *)
(* and since each run began.  Members are read and sent like clients.      *)
(*                                                                         *)
(* TeamOS handles a request before the sender gives up on it, or never.    *)
(***************************************************************************)
EXTENDS Integers, FiniteSets

CONSTANTS
  Client, Money,        \* things that are mirrored
  ClientOf,             \* the client a ledger entry names
  Value,                \* states of a thing, as the fingerprint tells them apart
  First,                \* the state a thing is created in, whatever it is called
  Scheduled, Backfill,  \* runs
  BatchSize,            \* BATCH_SIZE
  MaxBatches,           \* batches in a run (deliverDue's maxBatches)
  MaxAttempts,          \* MAX_ATTEMPTS
  MaxChanges,           \* changes that are made
  MaxFaults,            \* what goes wrong
  Nothing

Thing == Client \cup Money
Run == Scheduled \cup Backfill

ASSUME SyncAssumption ==
  /\ Client \cap Money = {} /\ ClientOf \in [Money -> Client]
  /\ IsFiniteSet(Thing) /\ Scheduled \cap Backfill = {} /\ Nothing \notin Value \cup Run \cup Thing
  /\ First \in Value
  /\ {BatchSize, MaxBatches, MaxAttempts} \subseteq Nat \ {0}
  /\ MaxChanges \in Nat /\ MaxFaults \in Nat

VARIABLES
  source,        \* the state of each thing in the database
  writing,       \* the state a transaction will give it, already stamped
  changes,       \* how many there were
  cursor,        \* whether it is stored
  fresh,         \* money stamped since the cursor, or in its look-back
  history,       \* money from before the first run, not stamped since
  row,           \* SyncEvent of each thing
  born,          \* the order in which the rows were created (createdAt)
  teamos,        \* the state TeamOS holds of each thing
  lease,         \* the holder of the lease, unless it has expired
  pc,            \* where each run is
  since,         \* money stamped since it began to project, or in the look-back from there
  writes,        \* whether it will write the cursor
  got,           \* payloads it has still to enqueue
  item,          \* the one it found different from its row
  sent, tries,   \* payload and attempts of the events of its batch
  reply,         \* what is to become of them
  batches,       \* batches it has sent
  faults,        \* how much has gone wrong
  replaced,      \* things whose row was written anew between sending and marking it
  behind         \* money whose row was written with what was already out of date and
                 \* the window had passed

database == <<source, writing, changes>>
window == <<cursor, fresh, history>>
outbox == <<row, born>>
reading == <<since, writes, got, item>>
sending == <<sent, tries, reply, batches>>
past == <<replaced, behind>>
vars == <<database, window, outbox, teamos, lease, pc, reading, sending, faults, past>>

-----------------------------------------------------------------------------
State == Value \cup {Nothing}
Row == [status : {"none", "PENDING", "DELIVERED", "DEAD"}, value : State,
        attempts : 0 .. MaxAttempts, due : {"now", "later"}]
Replies == {"none", "sent", "done", "retry", "never", "noted"}
NoRow == [status |-> "none", value |-> Nothing, attempts |-> 0, due |-> "now"]

TypeOK ==
  /\ source \in [Thing -> State] /\ writing \in [Thing -> State]
  /\ changes \in 0 .. MaxChanges
  /\ cursor \in {"unset", "set"} /\ fresh \subseteq Money /\ history \subseteq Money
  /\ row \in [Thing -> Row]
  /\ \A t \in Thing : row[t].status = "none" <=> row[t].value = Nothing
  /\ born \in [Thing -> Nat] /\ \A t \in Thing : row[t].status = "none" <=> born[t] = 0
  /\ teamos \in [Thing -> State]
  /\ lease \in Scheduled \cup {Nothing}
  /\ pc \in [Run -> {"idle", "started", "find", "upsert", "claim", "sent", "answered", "release"}]
  /\ since \in [Run -> SUBSET Money] /\ writes \in [Run -> {"cursor", "nothing"}]
  /\ got \in [Run -> [Thing -> State]] /\ item \in [Run -> Thing \cup {Nothing}]
  /\ sent \in [Run -> [Thing -> State]] /\ tries \in [Run -> [Thing -> 0 .. MaxAttempts - 1]]
  /\ reply \in [Run -> [Thing -> Replies]] /\ batches \in [Run -> 0 .. MaxBatches]
  /\ faults \in 0 .. MaxFaults /\ replaced \subseteq Thing /\ behind \subseteq Money

Each(x) == [t \in Thing |-> x]

Init ==
  /\ source = Each(Nothing) /\ writing = Each(Nothing) /\ changes = 0
  /\ cursor = "unset" /\ fresh = {} /\ history = {}
  /\ row = Each(NoRow) /\ born = Each(0) /\ teamos = Each(Nothing)
  /\ lease = Nothing /\ pc = [r \in Run |-> "idle"]
  /\ since = [r \in Run |-> {}] /\ writes = [r \in Run |-> "nothing"]
  /\ got = [r \in Run |-> Each(Nothing)] /\ item = [r \in Run |-> Nothing]
  /\ sent = [r \in Run |-> Each(Nothing)] /\ tries = [r \in Run |-> Each(0)]
  /\ reply = [r \in Run |-> Each("none")] /\ batches = [r \in Run |-> 0]
  /\ faults = 0 /\ replaced = {} /\ behind = {}

Fault == faults < MaxFaults /\ faults' = faults + 1

Goes(r, from, to) == pc[r] = from /\ pc' = [pc EXCEPT ![r] = to]

-----------------------------------------------------------------------------
(* The database.                                                           *)

Projecting(r) == pc[r] \in {"started", "find", "upsert"}

(* A transaction creates or changes a thing: it is stamped, then committed.*)
Stamp(t, v) ==
  /\ changes < MaxChanges /\ writing[t] = Nothing /\ source[t] # v
  /\ source[t] = Nothing => v = First
  /\ changes' = changes + 1 /\ writing' = [writing EXCEPT ![t] = v]
  /\ IF t \in Money
       THEN /\ fresh' = IF cursor = "set" THEN fresh \cup {t} ELSE fresh
            /\ since' = [r \in Run |-> IF Projecting(r) THEN since[r] \cup {t} ELSE {}]
            /\ history' = history \ {t}
       ELSE UNCHANGED <<fresh, since, history>>
  /\ UNCHANGED <<source, cursor, outbox, teamos, lease, pc, writes, got, item, sending, faults, past>>

Commit(t) ==
  /\ writing[t] # Nothing
  /\ source' = [source EXCEPT ![t] = writing[t]] /\ writing' = [writing EXCEPT ![t] = Nothing]
  /\ UNCHANGED <<changes, window, outbox, teamos, lease, pc, reading, sending, faults, past>>

-----------------------------------------------------------------------------
(* Projecting.                                                             *)

NoLookback == {}
Lookback == {t \in Money : writing[t] # Nothing}

(* A scheduled run begins if it gets the lease. *)
Start(r) ==
  /\ r \in Scheduled /\ Goes(r, "idle", "started")
  /\ lease = Nothing /\ lease' = r
  /\ since' = [since EXCEPT ![r] = Lookback]
  /\ UNCHANGED <<database, window, outbox, teamos, writes, got, item, sending, faults, past>>

Payloads(r, things) ==
  got' = [got EXCEPT ![r] = [t \in Thing |-> IF t \in things THEN source[t] ELSE Nothing]]

(* The first run writes the cursor before it reads anything, so that older *)
(* money is left to the backfill.                                          *)
Project(r) ==
  /\ r \in Scheduled /\ Goes(r, "started", "find")
  /\ IF cursor = "unset"
       THEN /\ cursor' = "set" /\ fresh' = since[r]
            /\ history' = {t \in Money : source[t] # Nothing} \ since[r]
            /\ Payloads(r, Client \cup since[r]) /\ UNCHANGED writes
       ELSE /\ Payloads(r, Client \cup fresh)
            /\ writes' = [writes EXCEPT ![r] = "cursor"] /\ UNCHANGED window
  /\ UNCHANGED <<database, outbox, teamos, lease, since, item, sending, faults, past>>

(* The backfill reads the clients in full, or the money of a chunk.  It    *)
(* takes no lease and has nothing to do with the window: its "since" is    *)
(* only kept for the record.                                               *)
Chunk(r) ==
  /\ r \in Backfill /\ Goes(r, "idle", "find")
  /\ Payloads(r, Client) \/ Payloads(r, Money)
  /\ since' = [since EXCEPT ![r] = Lookback]
  /\ UNCHANGED <<database, window, outbox, teamos, lease, writes, item, sending, faults, past>>

-----------------------------------------------------------------------------
(* Enqueueing.                                                             *)

(* A payload whose fingerprint is that of the row is left alone, whatever  *)
(* has become of the row.                                                  *)
Same(t, v) == row[t].value = v

Find(r, t) ==
  /\ pc[r] = "find" /\ got[r][t] # Nothing
  /\ t \in Client \/ \A c \in Client : got[r][c] = Nothing
  /\ IF Same(t, got[r][t])
       THEN got' = [got EXCEPT ![r][t] = Nothing] /\ UNCHANGED <<pc, item>>
       ELSE /\ pc' = [pc EXCEPT ![r] = "upsert"] /\ item' = [item EXCEPT ![r] = t]
            /\ UNCHANGED got
  /\ UNCHANGED <<database, window, outbox, teamos, lease, since, writes, sending, faults, past>>

QueuedWithStatusKept(t, v) ==
  [status |-> IF row[t].status = "none" THEN "PENDING" ELSE row[t].status,
   value |-> v, attempts |-> 0, due |-> "now"]
Queued(t, v) == [status |-> "PENDING", value |-> v, attempts |-> 0, due |-> "now"]

(* It does not look again.  For the record: another run may have sent what *)
(* the row holds now and not yet marked it, and the payload may have been  *)
(* read before the thing was stamped again, by a run that another run has  *)
(* overtaken with its cursor, or is about to.                              *)
OnItsWay(r, t) == \E q \in Run \ {r} : reply[q][t] \in {"sent", "done"}
OutOfDate(r, t) ==
  /\ t \in since[r] /\ cursor = "set"
  /\ \/ t \notin fresh
     \/ \E q \in Run \ {r} : writes[q] = "cursor" /\ t \notin since[q] /\ got[q][t] = Nothing

Upsert(r) == LET t == item[r] IN
  /\ Goes(r, "upsert", "find")
  /\ row' = [row EXCEPT ![t] = Queued(t, got[r][t])]
  /\ born' = IF born[t] > 0 THEN born
                          ELSE [born EXCEPT ![t] = 1 + Cardinality({u \in Thing : born[u] > 0})]
  /\ got' = [got EXCEPT ![r][t] = Nothing] /\ item' = [item EXCEPT ![r] = Nothing]
  /\ replaced' = IF OnItsWay(r, t) THEN replaced \cup {t} ELSE replaced \ {t}
  /\ behind' = IF OutOfDate(r, t) THEN behind \cup {t} ELSE behind \ {t}
  /\ UNCHANGED <<database, window, teamos, lease, since, writes, sending, faults>>

(* The cursor becomes the time at which the run started. *)
WriteCursor(r) ==
  /\ got[r] = Each(Nothing) /\ Goes(r, "find", "claim")
  /\ fresh' = IF writes[r] = "cursor" THEN since[r] ELSE fresh
  /\ writes' = [writes EXCEPT ![r] = "nothing"] /\ since' = [since EXCEPT ![r] = {}]
  /\ UNCHANGED <<database, cursor, history, outbox, teamos, lease, got, item, sending, faults, past>>

-----------------------------------------------------------------------------
(* Delivering.                                                             *)

Due == {t \in Thing : row[t].status = "PENDING" /\ row[t].due = "now"}
Oldest(D) == {t \in D : Cardinality({u \in D : born[u] < born[t]}) < BatchSize}

(* The oldest events that are due; the run ends when there are none. *)
Claim(r) == LET batch == Oldest(Due) IN
  /\ pc[r] = "claim"
  /\ IF batch = {}
       THEN pc' = [pc EXCEPT ![r] = "release"] /\ UNCHANGED sending
       ELSE /\ pc' = [pc EXCEPT ![r] = "sent"]
            /\ sent' = [sent EXCEPT ![r] = [t \in Thing |-> IF t \in batch THEN row[t].value ELSE Nothing]]
            /\ tries' = [tries EXCEPT ![r] = [t \in Thing |-> IF t \in batch THEN row[t].attempts ELSE 0]]
            /\ reply' = [reply EXCEPT ![r] = [t \in Thing |-> IF t \in batch THEN "sent" ELSE "none"]]
            /\ batches' = [batches EXCEPT ![r] = @ + 1]
  /\ UNCHANGED <<database, window, outbox, teamos, lease, reading, faults, past>>

Batch(r) == {t \in Thing : reply[r][t] # "none"}
AllGet(r, answer) == [t \in Thing |-> IF t \in Batch(r) THEN answer ELSE "none"]

(* TeamOS takes what it is sent, but not money whose client it has never   *)
(* heard of; clients come first in a batch.  The events in "refused" it    *)
(* will never take.                                                        *)
Known(r, refused, t) ==
  t \in Client \/ teamos[ClientOf[t]] # Nothing \/ ClientOf[t] \in Batch(r) \ refused
Taken(r, refused) == {t \in Batch(r) \ refused : Known(r, refused, t)}

Apply(r, refused) ==
  teamos' = [t \in Thing |-> IF t \in Taken(r, refused) THEN sent[r][t] ELSE teamos[t]]
Results(r, refused) ==
  [t \in Thing |-> IF t \notin Batch(r) THEN "none"
                   ELSE IF t \in Taken(r, refused) THEN "done"
                   ELSE IF t \in refused THEN "never" ELSE "retry"]

(* Events the answer does not mention are tried again, and so are all of   *)
(* them when there is no answer, a redirect, or one that cannot be read.   *)
UnreadableIsDone == "done"
Unreadable == "retry"

Answer(r) ==
  /\ Goes(r, "sent", "answered")
  /\ \/ Apply(r, {}) /\ reply' = [reply EXCEPT ![r] = Results(r, {})] /\ UNCHANGED faults
     \/ /\ Fault
        /\ \E t \in Batch(r) : /\ Apply(r, {t})
                               /\ reply' = [reply EXCEPT ![r] = Results(r, {t})]
     \/ /\ Fault
        /\ \E t \in Batch(r) : \E refused \in {{}, {t}} :
             /\ Apply(r, refused)
             /\ reply' = [reply EXCEPT ![r] = [Results(r, refused) EXCEPT ![t] = "retry"]]
     \/ Fault /\ Apply(r, {}) /\ reply' = [reply EXCEPT ![r] = AllGet(r, "retry")]
     \/ /\ Fault /\ UNCHANGED teamos
        /\ reply' = [reply EXCEPT ![r] = AllGet(r, Unreadable)]
     \/ Fault /\ UNCHANGED teamos /\ reply' = [reply EXCEPT ![r] = AllGet(r, "never")]
  /\ sent' = [sent EXCEPT ![r] = Each(Nothing)]
  /\ UNCHANGED <<database, window, outbox, lease, reading, tries, batches, past>>

(* The attempts counted are those the batch was claimed with. *)
Parked(r, t) == reply[r][t] = "never" \/ tries[r][t] + 1 >= MaxAttempts

MarkFailed(r, t) ==
  /\ pc[r] = "answered" /\ reply[r][t] \in {"retry", "never"}
  /\ row' = [row EXCEPT ![t] = [status |-> IF Parked(r, t) THEN "DEAD" ELSE "PENDING",
                                value |-> @.value, attempts |-> tries[r][t] + 1, due |-> "later"]]
  /\ reply' = [reply EXCEPT ![r][t] = "noted"]
  /\ UNCHANGED <<database, window, born, teamos, lease, pc, reading, sent, tries, batches, faults, past>>

(* What was done is marked by the ids of the rows, and the next batch is   *)
(* claimed if this one was full and some of it was done.                   *)
MarkDelivered(r) ==
  LET done == {t \in Thing : reply[r][t] = "done"}
      more == done # {} /\ Cardinality(Batch(r)) = BatchSize /\ batches[r] < MaxBatches IN
  /\ pc[r] = "answered" /\ \A t \in Thing : reply[r][t] \notin {"retry", "never"}
  /\ row' = [t \in Thing |-> IF t \in done THEN [row[t] EXCEPT !.status = "DELIVERED"] ELSE row[t]]
  /\ pc' = [pc EXCEPT ![r] = IF more THEN "claim" ELSE "release"]
  /\ tries' = [tries EXCEPT ![r] = Each(0)] /\ reply' = [reply EXCEPT ![r] = Each("none")]
  /\ UNCHANGED <<database, window, born, teamos, lease, reading, sent, batches, faults, past>>

(* The wait before the next attempt is over. *)
BackOff(t) ==
  /\ row[t].due = "later" /\ row' = [row EXCEPT ![t].due = "now"]
  /\ UNCHANGED <<database, window, born, teamos, lease, pc, reading, sending, faults, past>>

-----------------------------------------------------------------------------
(* The end of a run.                                                       *)

(* A lease somebody else has taken is left alone; a release that fails is  *)
(* only logged.                                                            *)
Released(r) == IF lease = r THEN Nothing ELSE lease

Forget(r) ==
  /\ since' = [since EXCEPT ![r] = {}] /\ writes' = [writes EXCEPT ![r] = "nothing"]
  /\ got' = [got EXCEPT ![r] = Each(Nothing)] /\ item' = [item EXCEPT ![r] = Nothing]
  /\ sent' = [sent EXCEPT ![r] = Each(Nothing)] /\ tries' = [tries EXCEPT ![r] = Each(0)]
  /\ reply' = [reply EXCEPT ![r] = Each("none")] /\ batches' = [batches EXCEPT ![r] = 0]

Release(r) ==
  /\ Goes(r, "release", "idle") /\ lease' \in {lease, Released(r)} /\ Forget(r)
  /\ UNCHANGED <<database, window, outbox, teamos, faults, past>>

(* A statement throws, or the process is killed and releases nothing; the  *)
(* request on its way may still be handled.                                *)
Abort(r) ==
  /\ pc[r] # "idle" /\ Fault /\ pc' = [pc EXCEPT ![r] = "idle"]
  /\ lease' \in {lease, Released(r)} /\ Forget(r)
  /\ UNCHANGED teamos \/ (pc[r] = "sent" /\ Apply(r, {}))
  /\ UNCHANGED <<database, window, outbox, past>>

(* LEASE_MS have passed; a run that is still going on has overrun it. *)
Expire ==
  /\ lease # Nothing /\ lease' = Nothing
  /\ UNCHANGED <<database, window, outbox, teamos, pc, reading, sending, faults, past>>

(* An administrator puts back what was given up. *)
Revive ==
  /\ Fault /\ \E t \in Thing : row[t].status = "DEAD"
  /\ row' = [t \in Thing |-> IF row[t].status = "DEAD" THEN Queued(t, row[t].value) ELSE row[t]]
  /\ UNCHANGED <<database, window, born, teamos, lease, pc, reading, sending, past>>

-----------------------------------------------------------------------------
Step(r) ==
  \/ Project(r) \/ Upsert(r) \/ WriteCursor(r) \/ Claim(r) \/ Answer(r)
  \/ MarkDelivered(r) \/ Release(r)
  \/ \E t \in Thing : Find(r, t) \/ MarkFailed(r, t)

Next ==
  \/ \E t \in Thing : Commit(t) \/ BackOff(t) \/ \E v \in Value : Stamp(t, v)
  \/ \E r \in Run : Start(r) \/ Chunk(r) \/ Step(r) \/ Abort(r)
  \/ Expire \/ Revive

(* Transactions end, time passes, the scheduler comes back every minute,   *)
(* and a process that has begun a run goes on unless it is killed.  Strong *)
(* fairness, for backfills in the way may not keep the scheduler out.      *)
Fairness ==
  /\ \A t \in Thing : WF_vars(Commit(t)) /\ WF_vars(BackOff(t))
  /\ \A r \in Run : WF_vars(Step(r))
  /\ \A r \in Scheduled : SF_vars(Start(r))
  /\ WF_vars(Expire)

Spec == Init /\ [][Next]_vars /\ Fairness

-----------------------------------------------------------------------------
(* A row that is DELIVERED holds the state TeamOS holds (markDelivered,    *)
(* deliverBatch): redirects, unreadable answers and events an answer does  *)
(* not mention are never taken for success.  Except where a run wrote the  *)
(* row anew between another's sending and marking it: what was done is     *)
(* then marked on a row that holds something else, although it is said of  *)
(* a backfill beside the worker that "both upsert the same outbox rows,    *)
(* and the fingerprint makes the loser a no-op" (sync.backfill.ts).        *)
DeliveredIsThere == \A t \in Thing \ replaced :
  row[t].status = "DELIVERED" => teamos[t] = row[t].value

(* Money whose state is not that of its row lies in the window of the next *)
(* run, however the runs under way end (writeCursor, OVERLAP_MS).  Except  *)
(* where a run enqueued what it had read before another took the newer     *)
(* state, or the cursor, past it.                                          *)
NothingMissed ==
  cursor = "set" => \A t \in Money \ behind :
    source[t] # row[t].value => t \in fresh \cup history

(* What has changed ends up in TeamOS as it last was, or its row is given  *)
(* up; money from before the first run is left to the backfill, and the    *)
(* two exceptions are those above.                                         *)
Settles == \A t \in Thing :
  <>[](teamos[t] = source[t] \/ row[t].status = "DEAD" \/ t \in history \cup replaced \cup behind)
=============================================================================
