------------------------------ MODULE JobLock -------------------------------
(***************************************************************************)
(* utils/withLock.ts: withJobLock runs a scheduled job on one of the       *)
(* instances that fire it.  The lock is a lease, a SystemSetting row with  *)
(* the holder's name and the instant it expires.  A heartbeat pushes the   *)
(* expiry forward while the job runs; losing the lease is only logged.     *)
(*                                                                         *)
(* Time is relative: the lease holds the time it has left, a run the time  *)
(* to its next heartbeat, a heartbeat in flight the time within which the  *)
(* database will have answered.                                            *)
(***************************************************************************)
EXTENDS Integers

CONSTANTS
  Runs,          \* holder names; withJobLock draws a fresh one for each run
  NoRun,         \* the holder of a row that does not exist
  Ttl,           \* LOCK_TTL_MS
  RenewEvery,    \* LOCK_RENEW_MS
  MaxLag,        \* the longest the database takes to answer
  MaxMisses      \* the longest series of heartbeats that fail in a row

ASSUME LockAssumption ==
  /\ NoRun \notin Runs
  /\ Ttl \in Nat \ {0}
  /\ RenewEvery \in Nat
  /\ MaxLag \in Nat
  /\ MaxMisses \in Nat
  /\ MaxLag < RenewEvery

VARIABLES
  lease,         \* the row: who holds it and for how long it is still good
  pc,            \* where each run is in withJobLock
  beat,          \* time to the run's next heartbeat
  flight,        \* 0, or 1 + the time in which the heartbeat in flight lands
  misses         \* heartbeats of the run that failed since the last good one

lockVars == <<lease, pc, beat, flight, misses>>

NoLease == [holder |-> NoRun, left |-> 0]

LockTypeOK ==
  /\ lease \in [holder : Runs \cup {NoRun}, left : 0 .. Ttl]
  /\ pc \in [Runs -> {"idle", "running", "releasing", "done", "dead"}]
  /\ beat \in [Runs -> 0 .. RenewEvery + MaxLag]
  /\ flight \in [Runs -> 0 .. MaxLag + 1]
  /\ misses \in [Runs -> 0 .. MaxMisses]

LockInit ==
  /\ lease = NoLease
  /\ pc = [r \in Runs |-> "idle"]
  /\ beat = [r \in Runs |-> 0]
  /\ flight = [r \in Runs |-> 0]
  /\ misses = [r \in Runs |-> 0]

-----------------------------------------------------------------------------
(* What could go wrong in the three statements, and what they really do:   *)
(* the row is taken when there is none or it has expired, pushed forward   *)
(* to a full TTL, and deleted only by its holder.                          *)
FreeAlways == TRUE
FreeOnlyIfDeleted == lease.holder = NoRun
Free == lease.left = 0

LeaseByAppClock(r) == [holder |-> r, left |-> Ttl + MaxLag]
LeaseTillNextBeat(r) == [holder |-> r, left |-> RenewEvery]
FullLease(r) == [holder |-> r, left |-> Ttl]

RemovedByAnyone(r) == NoLease
Removed(r) == IF lease.holder = r THEN NoLease ELSE lease

(* The upsert takes the row if it is free.  The answer takes up to MaxLag, *)
(* and only then the heartbeat timer starts.                               *)
Acquire(r) ==
  /\ pc[r] = "idle"
  /\ Free
  /\ lease' = FullLease(r)
  /\ pc' = [pc EXCEPT ![r] = "running"]
  /\ \E lag \in 0 .. MaxLag : beat' = [beat EXCEPT ![r] = RenewEvery + lag]
  /\ misses' = [misses EXCEPT ![r] = 0]
  /\ UNCHANGED flight

(* The timer fires and sends the renewal. *)
Beat(r) ==
  /\ pc[r] = "running"
  /\ beat[r] = 0
  /\ beat' = [beat EXCEPT ![r] = RenewEvery]
  /\ flight' = [flight EXCEPT ![r] = MaxLag + 1]
  /\ UNCHANGED <<lease, pc, misses>>

(* The renewal is executed: the row is pushed forward if it is still ours, *)
(* even if it had expired; otherwise the loss is logged and the job goes on.*)
Renew(r) ==
  /\ flight[r] > 0
  /\ flight' = [flight EXCEPT ![r] = 0]
  /\ IF lease.holder = r
       THEN /\ lease' = FullLease(r)
            /\ misses' = [misses EXCEPT ![r] = 0]
       ELSE UNCHANGED <<lease, misses>>
  /\ UNCHANGED <<pc, beat>>

(* The renewal is lost or refused: the promise is rejected and logged. *)
RenewFails(r) ==
  /\ flight[r] > 0
  /\ misses[r] < MaxMisses
  /\ flight' = [flight EXCEPT ![r] = 0]
  /\ misses' = [misses EXCEPT ![r] = @ + 1]
  /\ UNCHANGED <<lease, pc, beat>>

(* fn returns or throws; the heartbeat is cleared, a sent one stays sent. *)
Finish(r) ==
  /\ pc[r] = "running"
  /\ pc' = [pc EXCEPT ![r] = "releasing"]
  /\ beat' = [beat EXCEPT ![r] = 0]
  /\ UNCHANGED <<lease, flight, misses>>

(* The row is deleted if it is still ours, or the delete fails and the row *)
(* is left to expire.                                                      *)
Release(r) ==
  /\ pc[r] = "releasing"
  /\ pc' = [pc EXCEPT ![r] = "done"]
  /\ lease' \in {lease, Removed(r)}
  /\ UNCHANGED <<beat, flight, misses>>

(* The process is killed; a renewal it sent may still reach the database. *)
Killed(r) ==
  /\ pc[r] \in {"running", "releasing"}
  /\ pc' = [pc EXCEPT ![r] = "dead"]
  /\ beat' = [beat EXCEPT ![r] = 0]
  /\ UNCHANGED <<lease, flight, misses>>

(* A name no row or message mentions any more stands for a fresh one. *)
Recycle(r) ==
  /\ pc[r] \in {"done", "dead"}
  /\ flight[r] = 0
  /\ lease.holder # r
  /\ pc' = [pc EXCEPT ![r] = "idle"]
  /\ UNCHANGED <<lease, beat, flight, misses>>

(* Time passes, unless a timer is due or an answer is at its deadline. *)
Less(n) == IF n > 0 THEN n - 1 ELSE 0

Tick ==
  /\ \A r \in Runs : pc[r] = "running" => beat[r] > 0
  /\ \A r \in Runs : flight[r] # 1
  /\ lease' = [lease EXCEPT !.left = Less(@)]
  /\ beat' = [r \in Runs |-> Less(beat[r])]
  /\ flight' = [r \in Runs |-> Less(flight[r])]
  /\ UNCHANGED <<pc, misses>>

RunStep(r) ==
  \/ Acquire(r)
  \/ Beat(r)
  \/ Renew(r)
  \/ RenewFails(r)
  \/ Finish(r)
  \/ Release(r)
  \/ Killed(r)
  \/ Recycle(r)

LockNext == Tick \/ \E r \in Runs : RunStep(r)

LockSpec == LockInit /\ [][LockNext]_lockVars

(* The schedulers try again at every tick of their crontab, timers fire,   *)
(* the database answers; nothing obliges a job to end or a process to die. *)
Fairness ==
  /\ WF_lockVars(Tick)
  /\ WF_lockVars(\E r \in Runs : Acquire(r))
  /\ \A r \in Runs : /\ WF_lockVars(Beat(r))
                     /\ WF_lockVars(Renew(r))
                     /\ WF_lockVars(Release(r))
                     /\ WF_lockVars(Recycle(r))

FairLockSpec == LockSpec /\ Fairness

-----------------------------------------------------------------------------
Working == {r \in Runs : pc[r] = "running"}

(* The TTL outlasts the worst series of late and failed heartbeats.        *)
Timely == (MaxMisses + 1) * RenewEvery + 2 * MaxLag < Ttl

(* Two runs of one job are never inside its function together.             *)
OneAtATime == \A r, s \in Working : r = s

(* A run at work holds a lease that has not expired, so nobody can take    *)
(* the job over halfway through.                                           *)
WorkerHoldsLease == \A r \in Working : lease.holder = r /\ lease.left > 0

(* Only the run that holds the row removes it or pushes it forward: a run  *)
(* that lost its lease never frees the one another run has since taken.    *)
OnlyHolderTouchesLease ==
  [][\A r \in Runs :
       lease.holder # r /\ RunStep(r) /\ ~ Acquire(r) => UNCHANGED lease]_lockVars

(* A job whose holder died is picked up again: whenever nobody is at work  *)
(* some run is at work later on.                                           *)
PickedUpAgain == (Working = {}) ~> (Working # {})

Runner == INSTANCE SingleRunner WITH working <- Working

(* Seen from outside, the lease is a mutual exclusion. *)
ImplementsSingleRunner == Runner!Spec
=============================================================================
