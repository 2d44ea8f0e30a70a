-------------------------- MODULE CampaignSendProofs --------------------------
(***************************************************************************)
(* What is true of CampaignSend for all sets of contacts, instances and    *)
(* loops, all bounds and all faults.                                       *)
(***************************************************************************)
EXTENDS CampaignSend, FiniteSetTheorems, TLAPS

(* A loop is on an instance, and holds contacts only where it sends.       *)
Placed == \A l \in Loop :
  /\ pc[l] = "free" => home[l] = None
  /\ pc[l] # "free" => home[l] \in Server

Holds == \A l \in Loop :
  /\ pc[l] \notin {"sending", "pausing", "orphan"} => todo[l] = {}
  /\ pc[l] \notin {"sending", "pausing", "orphan", "exiting", "halting"} => flying[l] = {}
  /\ todo[l] \cap flying[l] = {}

(* What is written at the end was decided, and what is done was called.    *)
Decided == \A l \in Loop : pc[l] = "completing" => verdict[l] # "open"
Asked == \A s \in Server : op[s] = "retry" => Called("retry")

Shape == TypeOK /\ Placed /\ Holds /\ Decided /\ Asked

LEMMA ShapeInit == Init => Shape
BY CampaignAssumption DEF Init, Shape, TypeOK, Stages, Placed, Holds, Decided, Asked

(* The contacts reached by the requests of a dying instance, one by one.   *)
LEMMA Reached ==
  ASSUME Shape, NEW s \in Server, Crash(s)
  PROVE  \E got \in SUBSET (Loop \X Contact) :
           /\ \A d \in got : home[d[1]] = s /\ d[2] \in flying[d[1]]
           /\ \A c \in Contact :
                LET R == {l \in Loop : <<l, c>> \in got} IN
                /\ IsFiniteSet(R) /\ Cardinality(R) \in Nat
                /\ messages'[c] = messages[c] + Cardinality(R)
           /\ messages' \in [Contact -> Nat]
<1>1. PICK got \in SUBSET {d \in Loop \X Contact : home[d[1]] = s /\ d[2] \in flying[d[1]]} :
        messages' = [c \in Contact |-> messages[c] + Cardinality({d \in got : d[2] = c})]
      BY DEF Crash
<1>2. ASSUME NEW c \in Contact
      PROVE  LET R == {l \in Loop : <<l, c>> \in got} IN
             /\ IsFiniteSet(R) /\ Cardinality(R) \in Nat
             /\ Cardinality({d \in got : d[2] = c}) = Cardinality(R)
  <2> DEFINE R == {l \in Loop : <<l, c>> \in got}
             D == {d \in got : d[2] = c}
             f == [l \in R |-> <<l, c>>]
  <2>1. IsFiniteSet(R) /\ Cardinality(R) \in Nat
        BY FS_Subset, FS_CardinalityType, CampaignAssumption
  <2>2. f \in Bijection(R, D)
    <3>1. f \in [R -> D]
          OBVIOUS
    <3>2. \A k, l \in R : f[k] = f[l] => k = l
          OBVIOUS
    <3>3. \A d \in D : \E l \in R : f[l] = d
      <4> SUFFICES ASSUME NEW d \in D PROVE \E l \in R : f[l] = d
          OBVIOUS
      <4>1. d \in Loop \X Contact /\ d = <<d[1], c>> /\ d[1] \in R
            OBVIOUS
      <4>2. f[d[1]] = d
            BY <4>1
      <4> QED BY <4>1, <4>2
    <3> QED BY <3>1, <3>2, <3>3 DEF Bijection, Injection, Surjection, IsInjective
  <2>3. ExistsBijection(R, D)
        BY <2>2 DEF ExistsBijection
  <2> QED BY <2>1, <2>3, FS_Bijection
<1>3. messages' \in [Contact -> Nat]
  <2>1. ASSUME NEW c \in Contact PROVE messages[c] + Cardinality({d \in got : d[2] = c}) \in Nat
    <3> DEFINE n == Cardinality({d \in got : d[2] = c})
    <3>1. n \in Nat
          BY <1>2
    <3>2. messages[c] \in Nat
          BY DEF Shape, TypeOK
    <3> HIDE DEF n
    <3>3. messages[c] + n \in Nat
          BY <3>1, <3>2
    <3> QED BY <3>3 DEF n
  <2> QED BY <1>1, <2>1
<1>4. \A c \in Contact :
        LET R == {l \in Loop : <<l, c>> \in got} IN
        /\ IsFiniteSet(R) /\ Cardinality(R) \in Nat
        /\ messages'[c] = messages[c] + Cardinality(R)
      BY <1>1, <1>2
<1> QED BY <1>1, <1>3, <1>4

LEMMA ShapeStep == Shape /\ [Next]_vars => Shape'
<1> SUFFICES ASSUME Shape, [Next]_vars PROVE Shape'
    OBVIOUS
<1> USE DEF Shape
<1>1. ASSUME NEW l \in Loop, Enter(l) PROVE Shape'
  <2>1. TypeOK'
        BY <1>1 DEF Enter, db, work, buffers, history, Goto, TypeOK, Placed, Decided, Stages
  <2>2. Placed' /\ Holds'
        BY <1>1 DEF Enter, db, work, buffers, history, Goto, TypeOK, Placed, Holds, Stages
  <2>3. Decided' /\ Asked'
        BY <1>1 DEF Enter, db, work, buffers, history, Goto, TypeOK, Decided, Asked, Called
  <2> QED BY <2>1, <2>2, <2>3
<1>2. ASSUME NEW l \in Loop, ResetQueued(l) PROVE Shape'
  <2>1. TypeOK'
        BY <1>2
           DEF ResetQueued, memory, work, buffers, Goto, Requeue, Queued, OldBut, TypeOK,
               Placed, Decided, Stages
  <2>2. Placed' /\ Holds'
        BY <1>2
           DEF ResetQueued, memory, work, buffers, Goto, Requeue, Queued, OldBut, TypeOK,
               Placed, Holds, Stages
  <2>3. Decided' /\ Asked'
        BY <1>2
           DEF ResetQueued, memory, work, buffers, Goto, Requeue, Queued, OldBut, TypeOK,
               Decided, Asked, Called
  <2> QED BY <2>1, <2>2, <2>3
<1>3. ASSUME NEW l \in Loop, CheckStatus(l) PROVE Shape'
  <2>1. TypeOK'
        BY <1>3
           DEF CheckStatus, db, memory, work, buffers, history, Goto, TypeOK, Placed,
               Decided, Stages
  <2>2. Placed' /\ Holds'
        BY <1>3
           DEF CheckStatus, db, memory, work, buffers, history, Goto, TypeOK, Placed, Holds,
               Stages
  <2>3. Decided' /\ Asked'
        BY <1>3
           DEF CheckStatus, db, memory, work, buffers, history, Goto, TypeOK, Decided,
               Asked, Called
  <2> QED BY <2>1, <2>2, <2>3
<1>4. ASSUME NEW l \in Loop, Claim(l) PROVE Shape'
  <2>1. TypeOK'
        BY <1>4
           DEF Claim, memory, buffers, Goto, RowsClaimed, OldBut, Claimable, TypeOK, Placed,
               Decided, Stages
  <2>2. Placed' /\ Holds'
        BY <1>4
           DEF Claim, memory, buffers, Goto, RowsClaimed, OldBut, Claimable, TypeOK, Placed,
               Holds, Stages
  <2>3. Decided' /\ Asked'
        BY <1>4
           DEF Claim, memory, buffers, Goto, RowsClaimed, OldBut, Claimable, TypeOK,
               Decided, Asked, Called
  <2> QED BY <2>1, <2>2, <2>3
<1>5. ASSUME NEW l \in Loop, ClaimNothing(l) PROVE Shape'
  <2>1. TypeOK'
        BY <1>5
           DEF ClaimNothing, db, memory, work, buffers, history, Goto, TypeOK, Placed,
               Decided, Stages
  <2>2. Placed' /\ Holds'
        BY <1>5
           DEF ClaimNothing, db, memory, work, buffers, history, Goto, TypeOK, Placed,
               Holds, Stages
  <2>3. Decided' /\ Asked'
        BY <1>5
           DEF ClaimNothing, db, memory, work, buffers, history, Goto, TypeOK, Decided,
               Asked, Called
  <2> QED BY <2>1, <2>2, <2>3
<1>6. ASSUME NEW l \in Loop, Halt(l) PROVE Shape'
  <2>1. TypeOK'
        BY <1>6 DEF Halt, db, memory, buffers, history, Goto, TypeOK, Placed, Decided, Stages
  <2>2. Placed' /\ Holds'
        BY <1>6 DEF Halt, db, memory, buffers, history, Goto, TypeOK, Placed, Holds, Stages
  <2>3. Decided' /\ Asked'
        BY <1>6 DEF Halt, db, memory, buffers, history, Goto, TypeOK, Decided, Asked, Called
  <2> QED BY <2>1, <2>2, <2>3
<1>7. ASSUME NEW l \in Loop, HaltDone(l) PROVE Shape'
  <2>1. TypeOK'
        BY <1>7
           DEF HaltDone, db, memory, work, buffers, history, Goto, AfterHalt, TypeOK,
               Placed, Decided, Stages
  <2>2. Placed' /\ Holds'
        BY <1>7
           DEF HaltDone, db, memory, work, buffers, history, Goto, AfterHalt, TypeOK,
               Placed, Holds, Stages
  <2>3. Decided' /\ Asked'
        BY <1>7
           DEF HaltDone, db, memory, work, buffers, history, Goto, AfterHalt, TypeOK,
               Decided, Asked, Called
  <2> QED BY <2>1, <2>2, <2>3
<1>8. ASSUME NEW l \in Loop, BatchDone(l) PROVE Shape'
  <2>1. TypeOK'
        BY <1>8
           DEF BatchDone, db, memory, work, buffers, history, Goto, TypeOK, Placed, Decided,
               Stages
  <2>2. Placed' /\ Holds'
        BY <1>8
           DEF BatchDone, db, memory, work, buffers, history, Goto, TypeOK, Placed, Holds,
               Stages
  <2>3. Decided' /\ Asked'
        BY <1>8
           DEF BatchDone, db, memory, work, buffers, history, Goto, TypeOK, Decided, Asked,
               Called
  <2> QED BY <2>1, <2>2, <2>3
<1>9. ASSUME NEW l \in Loop, Flush(l) PROVE Shape'
  <2>1. TypeOK'
        BY <1>9
           DEF Flush, memory, work, history, WriteOutcomes, Written, OldBut, TypeOK, Placed,
               Decided, Stages
  <2>2. Placed' /\ Holds'
        BY <1>9
           DEF Flush, memory, work, history, WriteOutcomes, Written, OldBut, TypeOK, Placed,
               Holds, Stages
  <2>3. Decided' /\ Asked'
        BY <1>9
           DEF Flush, memory, work, history, WriteOutcomes, Written, OldBut, TypeOK,
               Decided, Asked, Called
  <2> QED BY <2>1, <2>2, <2>3
<1>10. ASSUME NEW l \in Loop, AutoPauseFlush(l) PROVE Shape'
  <2>1. TypeOK'
        BY <1>10
           DEF AutoPauseFlush, memory, history, Goto, WriteOutcomes, Written, OldBut,
               TypeOK, Placed, Decided, Stages
  <2>2. Placed' /\ Holds'
        BY <1>10
           DEF AutoPauseFlush, memory, history, Goto, WriteOutcomes, Written, OldBut,
               TypeOK, Placed, Holds, Stages
  <2>3. Decided' /\ Asked'
        BY <1>10
           DEF AutoPauseFlush, memory, history, Goto, WriteOutcomes, Written, OldBut,
               TypeOK, Decided, Asked, Called
  <2> QED BY <2>1, <2>2, <2>3
<1>11. ASSUME NEW l \in Loop, Exit(l) PROVE Shape'
  <2>1. TypeOK'
        BY <1>11 DEF Exit, db, memory, work, history, Goto, TypeOK, Placed, Decided, Stages
  <2>2. Placed' /\ Holds'
        BY <1>11 DEF Exit, db, memory, work, history, Goto, TypeOK, Placed, Holds, Stages
  <2>3. Decided' /\ Asked'
        BY <1>11 DEF Exit, db, memory, work, history, Goto, TypeOK, Decided, Asked, Called
  <2> QED BY <2>1, <2>2, <2>3
<1>12. ASSUME NEW l \in Loop, FinalFlush(l) PROVE Shape'
  <2>1. TypeOK'
        BY <1>12
           DEF FinalFlush, memory, work, history, Goto, WriteOutcomes, Written, OldBut,
               TypeOK, Placed, Decided, Stages
  <2>2. Placed' /\ Holds'
        BY <1>12
           DEF FinalFlush, memory, work, history, Goto, WriteOutcomes, Written, OldBut,
               TypeOK, Placed, Holds, Stages
  <2>3. Decided' /\ Asked'
        BY <1>12
           DEF FinalFlush, memory, work, history, Goto, WriteOutcomes, Written, OldBut,
               TypeOK, Decided, Asked, Called
  <2> QED BY <2>1, <2>2, <2>3
<1>13. ASSUME NEW l \in Loop, Count(l) PROVE Shape'
  <2>1. TypeOK'
        BY <1>13
           DEF Count, db, memory, work, buffers, Goto, Verdict, TypeOK, Placed, Decided,
               Stages
  <2>2. Placed' /\ Holds'
        BY <1>13
           DEF Count, db, memory, work, buffers, Goto, Verdict, TypeOK, Placed, Holds,
               Stages
  <2>3. Decided' /\ Asked'
        BY <1>13
           DEF Count, db, memory, work, buffers, Goto, Verdict, TypeOK, Decided, Asked,
               Called
  <2> QED BY <2>1, <2>2, <2>3
<1>14. ASSUME NEW l \in Loop, ReadLatest(l) PROVE Shape'
  <2>1. TypeOK'
        BY <1>14
           DEF ReadLatest, db, memory, work, buffers, history, Goto, TypeOK, Placed,
               Decided, Stages
  <2>2. Placed' /\ Holds'
        BY <1>14
           DEF ReadLatest, db, memory, work, buffers, history, Goto, TypeOK, Placed, Holds,
               Stages
  <2>3. Decided' /\ Asked'
        BY <1>14
           DEF ReadLatest, db, memory, work, buffers, history, Goto, TypeOK, Decided, Asked,
               Called
  <2> QED BY <2>1, <2>2, <2>3
<1>15. ASSUME NEW l \in Loop, Complete(l) PROVE Shape'
  <2>1. TypeOK'
        BY <1>15
           DEF Complete, memory, work, buffers, history, Goto, TypeOK, Placed, Decided,
               Stages
  <2>2. Placed' /\ Holds'
        BY <1>15
           DEF Complete, memory, work, buffers, history, Goto, TypeOK, Placed, Holds, Stages
  <2>3. Decided' /\ Asked'
        BY <1>15
           DEF Complete, memory, work, buffers, history, Goto, TypeOK, Decided, Asked,
               Called
  <2> QED BY <2>1, <2>2, <2>3
<1>16. ASSUME NEW l \in Loop, Leave(l) PROVE Shape'
  <2>1. TypeOK'
        BY <1>16 DEF Leave, db, Goto, Freed, TypeOK, Placed, Decided, Stages
  <2>2. Placed' /\ Holds'
        BY <1>16 DEF Leave, db, Goto, Freed, TypeOK, Placed, Holds, Stages
  <2>3. Decided' /\ Asked'
        BY <1>16 DEF Leave, db, Goto, Freed, TypeOK, Decided, Asked, Called
  <2> QED BY <2>1, <2>2, <2>3
<1>17. ASSUME NEW l \in Loop, OrphanEnds(l) PROVE Shape'
  <2>1. TypeOK'
        BY <1>17 DEF OrphanEnds, db, memory, Goto, Freed, TypeOK, Placed, Decided, Stages
  <2>2. Placed' /\ Holds'
        BY <1>17 DEF OrphanEnds, db, memory, Goto, Freed, TypeOK, Placed, Holds, Stages
  <2>3. Decided' /\ Asked'
        BY <1>17 DEF OrphanEnds, db, memory, Goto, Freed, TypeOK, Decided, Asked, Called
  <2> QED BY <2>1, <2>2, <2>3
<1>18. ASSUME NEW l \in Loop, Refuse(l) PROVE Shape'
  <2>1. TypeOK'
        BY <1>18 DEF Refuse, memory, work, buffers, Goto, Fault, TypeOK, Placed, Decided, Stages
  <2>2. Placed' /\ Holds'
        BY <1>18 DEF Refuse, memory, work, buffers, Goto, Fault, TypeOK, Placed, Holds, Stages
  <2>3. Decided' /\ Asked'
        BY <1>18 DEF Refuse, memory, work, buffers, Goto, Fault, TypeOK, Decided, Asked, Called
  <2> QED BY <2>1, <2>2, <2>3
<1>19. ASSUME NEW l \in Loop, AutoPause(l) PROVE Shape'
  <2>1. TypeOK'
        BY <1>19
           DEF AutoPause, memory, work, buffers, Goto, Fault, TypeOK, Placed, Decided,
               Stages
  <2>2. Placed' /\ Holds'
        BY <1>19
           DEF AutoPause, memory, work, buffers, Goto, Fault, TypeOK, Placed, Holds, Stages
  <2>3. Decided' /\ Asked'
        BY <1>19
           DEF AutoPause, memory, work, buffers, Goto, Fault, TypeOK, Decided, Asked, Called
  <2> QED BY <2>1, <2>2, <2>3
<1>20. ASSUME NEW l \in Loop, Throw(l) PROVE Shape'
  <2>1. TypeOK'
        BY <1>20 DEF Throw, work, buffers, Goto, Fault, TypeOK, Placed, Decided, Stages
  <2>2. Placed' /\ Holds'
        BY <1>20 DEF Throw, work, buffers, Goto, Fault, TypeOK, Placed, Holds, Stages
  <2>3. Decided' /\ Asked'
        BY <1>20 DEF Throw, work, buffers, Goto, Fault, TypeOK, Decided, Asked, Called
  <2> QED BY <2>1, <2>2, <2>3
<1>21. ASSUME NEW l \in Loop, NEW c \in Contact, Begin(l, c) PROVE Shape'
  <2>1. TypeOK'
        BY <1>21 DEF Begin, db, memory, buffers, history, TypeOK, Placed, Decided, Stages
  <2>2. Placed' /\ Holds'
        BY <1>21 DEF Begin, db, memory, buffers, history, TypeOK, Placed, Holds, Stages
  <2>3. Decided' /\ Asked'
        BY <1>21 DEF Begin, db, memory, buffers, history, TypeOK, Decided, Asked, Called
  <2> QED BY <2>1, <2>2, <2>3
<1>22. ASSUME NEW l \in Loop, NEW c \in Contact, Arrive(l, c) PROVE Shape'
  <2>1. TypeOK'
        BY <1>22 DEF Arrive, db, memory, Tallied, TypeOK, Placed, Decided, Stages
  <2>2. Placed' /\ Holds'
        BY <1>22 DEF Arrive, db, memory, Tallied, TypeOK, Placed, Holds, Stages
  <2>3. Decided' /\ Asked'
        BY <1>22 DEF Arrive, db, memory, Tallied, TypeOK, Decided, Asked, Called
  <2> QED BY <2>1, <2>2, <2>3
<1>23. ASSUME NEW s \in Server, Run(s) PROVE Shape'
  <2>1. TypeOK'
        BY <1>23
           DEF Run, work, buffers, history, Goto, Answer, Spawn, TypeOK, Placed, Decided,
               Stages
  <2>2. Placed' /\ Holds'
        BY <1>23
           DEF Run, work, buffers, history, Goto, Answer, Spawn, TypeOK, Placed, Holds,
               Stages
  <2>3. Decided' /\ Asked'
        BY <1>23, CampaignAssumption
           DEF Run, work, buffers, history, Goto, Answer, Spawn, TypeOK, Decided, Asked,
               Called
  <2> QED BY <2>1, <2>2, <2>3
<1>24. ASSUME NEW s \in Server, PauseWrite(s) PROVE Shape'
  <2>1. TypeOK'
        BY <1>24 DEF PauseWrite, work, buffers, history, Answer, TypeOK, Placed, Decided, Stages
  <2>2. Placed' /\ Holds'
        BY <1>24 DEF PauseWrite, work, buffers, history, Answer, TypeOK, Placed, Holds, Stages
  <2>3. Decided' /\ Asked'
        BY <1>24, CampaignAssumption
           DEF PauseWrite, work, buffers, history, Answer, TypeOK, Decided, Asked, Called
  <2> QED BY <2>1, <2>2, <2>3
<1>25. ASSUME NEW s \in Server, RetryRows(s) PROVE Shape'
  <2>1. TypeOK'
        BY <1>25
           DEF RetryRows, work, buffers, Requeue, OldBut, Answer, TypeOK, Placed, Decided,
               Stages
  <2>2. Placed' /\ Holds'
        BY <1>25
           DEF RetryRows, work, buffers, Requeue, OldBut, Answer, TypeOK, Placed, Holds,
               Stages
  <2>3. Decided' /\ Asked'
        BY <1>25
           DEF RetryRows, work, buffers, Requeue, OldBut, Answer, TypeOK, Decided, Asked,
               Called
  <2> QED BY <2>1, <2>2, <2>3
<1>26. ASSUME NEW s \in Server, Recover(s) PROVE Shape'
  <2>1. TypeOK'
        BY <1>26
           DEF Recover, work, buffers, Requeue, Queued, OldBut, TypeOK, Placed, Decided,
               Stages
  <2>2. Placed' /\ Holds'
        BY <1>26
           DEF Recover, work, buffers, Requeue, Queued, OldBut, TypeOK, Placed, Holds,
               Stages
  <2>3. Decided' /\ Asked'
        BY <1>26
           DEF Recover, work, buffers, Requeue, Queued, OldBut, TypeOK, Decided, Asked,
               Called
  <2> QED BY <2>1, <2>2, <2>3
<1>27. ASSUME NEW s \in Server, RecoverRun(s) PROVE Shape'
  <2>1. TypeOK'
        BY <1>27
           DEF RecoverRun, db, work, buffers, history, Goto, Spawn, TypeOK, Placed, Decided,
               Stages
  <2>2. Placed' /\ Holds'
        BY <1>27
           DEF RecoverRun, db, work, buffers, history, Goto, Spawn, TypeOK, Placed, Holds,
               Stages
  <2>3. Decided' /\ Asked'
        BY <1>27
           DEF RecoverRun, db, work, buffers, history, Goto, Spawn, TypeOK, Decided, Asked,
               Called
  <2> QED BY <2>1, <2>2, <2>3
<1>28. ASSUME NEW s \in Server, RecoverClose(s) PROVE Shape'
  <2>1. TypeOK'
        BY <1>28 DEF RecoverClose, work, buffers, history, TypeOK, Placed, Decided, Stages
  <2>2. Placed' /\ Holds'
        BY <1>28 DEF RecoverClose, work, buffers, history, TypeOK, Placed, Holds, Stages
  <2>3. Decided' /\ Asked'
        BY <1>28 DEF RecoverClose, work, buffers, history, TypeOK, Decided, Asked, Called
  <2> QED BY <2>1, <2>2, <2>3
<1>29. ASSUME NEW s \in Server, Crash(s) PROVE Shape'
  <2>1. TypeOK'
    <3>1. messages' \in [Contact -> Nat]
          BY <1>29, Reached
    <3>2. /\ status' \in {"SCHEDULED", "RUNNING", "PAUSED", "COMPLETED", "FAILED", "CANCELLED"}
          /\ row' \in [Contact -> {"PENDING", "QUEUED", "SENT", "FAILED"}]
          /\ old' \subseteq {c \in Contact : row'[c] = "QUEUED"}
          /\ requeued' \in [Contact -> Nat] /\ charged' \in Nat /\ calls' \in [Ops -> Nat]
          BY <1>29 DEF Crash, db, TypeOK
    <3>3. /\ up' \in [Server -> {"up", "down", "recovering", "closing"}]
          /\ busy' \subseteq Server /\ halted' \subseteq Server /\ faults' \subseteq Faults
          /\ op' \in [Server -> Ops \cup {None, "rerun"}]
          BY <1>29 DEF Crash, Fault, Answer, TypeOK
    <3>4. /\ pc' \in [Loop -> Stages] /\ home' \in [Loop -> Server \cup {None}]
          /\ todo' \in [Loop -> SUBSET Contact] /\ flying' \in [Loop -> SUBSET Contact]
          /\ sent' \in [Loop -> SUBSET Contact] /\ failed' \in [Loop -> SUBSET Contact]
          /\ count' \in [Loop -> Nat] /\ verdict' \in [Loop -> {"open", "COMPLETED", "FAILED"}]
          BY <1>29 DEF Crash, TypeOK, Stages
    <3> QED BY <3>1, <3>2, <3>3, <3>4 DEF TypeOK
  <2>2. Placed' /\ Holds'
        BY <1>29 DEF Crash, db, Fault, Answer, TypeOK, Placed, Holds, Stages
  <2>3. Decided' /\ Asked'
        BY <1>29, CampaignAssumption
           DEF Crash, db, Fault, Answer, TypeOK, Decided, Asked, Called
  <2> QED BY <2>1, <2>2, <2>3
<1>30. ASSUME NEW s \in Server, StartRefused(s) PROVE Shape'
  <2>1. TypeOK'
        BY <1>30 DEF StartRefused, db, work, buffers, history, TypeOK, Placed, Decided, Stages
  <2>2. Placed' /\ Holds'
        BY <1>30 DEF StartRefused, db, work, buffers, history, TypeOK, Placed, Holds, Stages
  <2>3. Decided' /\ Asked'
        BY <1>30 DEF StartRefused, db, work, buffers, history, TypeOK, Decided, Asked, Called
  <2> QED BY <2>1, <2>2, <2>3
<1>31. ASSUME NEW s \in Server, NEW kind \in Ops, Call(s, kind) PROVE Shape'
  <2>1. TypeOK'
        BY <1>31 DEF Call, db, work, buffers, TypeOK, Placed, Decided, Stages
  <2>2. Placed' /\ Holds'
        BY <1>31 DEF Call, db, work, buffers, TypeOK, Placed, Holds, Stages
  <2>3. Decided' /\ Asked'
        BY <1>31 DEF Call, db, work, buffers, TypeOK, Decided, Asked, Called
  <2> QED BY <2>1, <2>2, <2>3
<1>32. ASSUME NEW c \in Contact, GrowOld(c) PROVE Shape'
  <2>1. TypeOK'
        BY <1>32 DEF GrowOld, memory, work, buffers, Fault, TypeOK, Placed, Decided, Stages
  <2>2. Placed' /\ Holds'
        BY <1>32 DEF GrowOld, memory, work, buffers, Fault, TypeOK, Placed, Holds, Stages
  <2>3. Decided' /\ Asked'
        BY <1>32 DEF GrowOld, memory, work, buffers, Fault, TypeOK, Decided, Asked, Called
  <2> QED BY <2>1, <2>2, <2>3
<1>33. CASE UNCHANGED vars
  BY <1>33
     DEF vars, TypeOK, Placed, Holds, Decided, Asked, Called, db, memory, work, buffers,
         history
<1> QED
        BY <1>1, <1>2, <1>3, <1>4, <1>5, <1>6, <1>7, <1>8, <1>9, <1>10, <1>11, <1>12, <1>13,
       <1>14, <1>15, <1>16, <1>17, <1>18, <1>19, <1>20, <1>21, <1>22, <1>23, <1>24, <1>25,
       <1>26, <1>27, <1>28, <1>29, <1>30, <1>31, <1>32, <1>33
       DEF Next, LoopStep, ServerStep

(* Every variable keeps its type, whatever the loops and calls (TypeOK).   *)
THEOREM TypeCorrect == Spec => []TypeOK
<1> QED BY ShapeInit, ShapeStep, PTL DEF Spec, Shape

-----------------------------------------------------------------------------
(* A row that is shown as sent, or about to be, was sent.                  *)
Backed ==
  /\ SentMeansMessaged
  /\ \A l \in Loop : \A c \in sent[l] : messages[c] > 0

LEMMA BackedStep == Shape /\ Backed /\ [Next]_vars => Backed'
<1> SUFFICES ASSUME Shape, Backed, [Next]_vars PROVE Backed'
    OBVIOUS
<1> USE DEF Shape, Backed, SentMeansMessaged
<1>1. ASSUME NEW l \in Loop, Enter(l) PROVE Backed'
  BY <1>1 DEF Enter, db, work, buffers, history, Goto, TypeOK
<1>2. ASSUME NEW l \in Loop, ResetQueued(l) PROVE Backed'
  BY <1>2 DEF ResetQueued, memory, work, buffers, Goto, Requeue, Queued, OldBut, TypeOK
<1>3. ASSUME NEW l \in Loop, CheckStatus(l) PROVE Backed'
  BY <1>3 DEF CheckStatus, db, memory, work, buffers, history, Goto, TypeOK
<1>4. ASSUME NEW l \in Loop, Claim(l) PROVE Backed'
  BY <1>4 DEF Claim, memory, buffers, Goto, RowsClaimed, OldBut, Claimable, TypeOK
<1>5. ASSUME NEW l \in Loop, ClaimNothing(l) PROVE Backed'
  BY <1>5 DEF ClaimNothing, db, memory, work, buffers, history, Goto, TypeOK
<1>6. ASSUME NEW l \in Loop, Halt(l) PROVE Backed'
  BY <1>6 DEF Halt, db, memory, buffers, history, Goto, TypeOK
<1>7. ASSUME NEW l \in Loop, HaltDone(l) PROVE Backed'
  BY <1>7 DEF HaltDone, db, memory, work, buffers, history, Goto, AfterHalt, TypeOK
<1>8. ASSUME NEW l \in Loop, BatchDone(l) PROVE Backed'
  BY <1>8 DEF BatchDone, db, memory, work, buffers, history, Goto, TypeOK
<1>9. ASSUME NEW l \in Loop, Flush(l) PROVE Backed'
  BY <1>9 DEF Flush, memory, work, history, WriteOutcomes, Written, OldBut, TypeOK
<1>10. ASSUME NEW l \in Loop, AutoPauseFlush(l) PROVE Backed'
  BY <1>10 DEF AutoPauseFlush, memory, history, Goto, WriteOutcomes, Written, OldBut, TypeOK
<1>11. ASSUME NEW l \in Loop, Exit(l) PROVE Backed'
  BY <1>11 DEF Exit, db, memory, work, history, Goto, TypeOK
<1>12. ASSUME NEW l \in Loop, FinalFlush(l) PROVE Backed'
  BY <1>12 DEF FinalFlush, memory, work, history, Goto, WriteOutcomes, Written, OldBut, TypeOK
<1>13. ASSUME NEW l \in Loop, Count(l) PROVE Backed'
  BY <1>13 DEF Count, db, memory, work, buffers, Goto, Verdict, TypeOK
<1>14. ASSUME NEW l \in Loop, ReadLatest(l) PROVE Backed'
  BY <1>14 DEF ReadLatest, db, memory, work, buffers, history, Goto, TypeOK
<1>15. ASSUME NEW l \in Loop, Complete(l) PROVE Backed'
  BY <1>15 DEF Complete, memory, work, buffers, history, Goto, TypeOK
<1>16. ASSUME NEW l \in Loop, Leave(l) PROVE Backed'
  BY <1>16 DEF Leave, db, Goto, Freed, TypeOK
<1>17. ASSUME NEW l \in Loop, OrphanEnds(l) PROVE Backed'
  BY <1>17 DEF OrphanEnds, db, memory, Goto, Freed, TypeOK
<1>18. ASSUME NEW l \in Loop, Refuse(l) PROVE Backed'
  BY <1>18 DEF Refuse, memory, work, buffers, Goto, Fault, TypeOK
<1>19. ASSUME NEW l \in Loop, AutoPause(l) PROVE Backed'
  BY <1>19 DEF AutoPause, memory, work, buffers, Goto, Fault, TypeOK
<1>20. ASSUME NEW l \in Loop, Throw(l) PROVE Backed'
  BY <1>20 DEF Throw, work, buffers, Goto, Fault, TypeOK
<1>21. ASSUME NEW l \in Loop, NEW c \in Contact, Begin(l, c) PROVE Backed'
  BY <1>21 DEF Begin, db, memory, buffers, history, TypeOK
<1>22. ASSUME NEW l \in Loop, NEW c \in Contact, Arrive(l, c) PROVE Backed'
  BY <1>22 DEF Arrive, db, memory, Tallied, TypeOK
<1>23. ASSUME NEW s \in Server, Run(s) PROVE Backed'
  BY <1>23 DEF Run, work, buffers, history, Goto, Answer, Spawn, TypeOK
<1>24. ASSUME NEW s \in Server, PauseWrite(s) PROVE Backed'
  BY <1>24 DEF PauseWrite, work, buffers, history, Answer, TypeOK
<1>25. ASSUME NEW s \in Server, RetryRows(s) PROVE Backed'
  BY <1>25 DEF RetryRows, work, buffers, Requeue, OldBut, Answer, TypeOK
<1>26. ASSUME NEW s \in Server, Recover(s) PROVE Backed'
  BY <1>26 DEF Recover, work, buffers, Requeue, Queued, OldBut, TypeOK
<1>27. ASSUME NEW s \in Server, RecoverRun(s) PROVE Backed'
  BY <1>27 DEF RecoverRun, db, work, buffers, history, Goto, Spawn, TypeOK
<1>28. ASSUME NEW s \in Server, RecoverClose(s) PROVE Backed'
  BY <1>28 DEF RecoverClose, work, buffers, history, TypeOK
<1>29. ASSUME NEW s \in Server, Crash(s) PROVE Backed'
  <2>1. ASSUME NEW c \in Contact PROVE messages'[c] \in Nat /\ messages'[c] >= messages[c]
    <3>1. PICK n \in Nat : messages'[c] = messages[c] + n
          BY <1>29, Reached
    <3> QED BY <3>1 DEF TypeOK
  <2>2. row' = row
        BY <1>29 DEF Crash, db
  <2>3. \A l \in Loop : sent'[l] \subseteq sent[l] /\ sent[l] \subseteq Contact
        BY <1>29 DEF Crash, TypeOK
  <2>4. \A c \in Contact : messages[c] \in Nat
        BY DEF TypeOK
  <2>5. ASSUME NEW c \in Contact, messages[c] > 0 PROVE messages'[c] > 0
        BY <2>1, <2>4, <2>5
  <2>6. SentMeansMessaged'
        BY <2>2, <2>5
  <2>7. \A k \in Loop : \A c \in sent'[k] : messages'[c] > 0
        BY <2>3, <2>5
  <2> QED BY <2>6, <2>7
<1>30. ASSUME NEW s \in Server, StartRefused(s) PROVE Backed'
  BY <1>30 DEF StartRefused, db, work, buffers, history, TypeOK
<1>31. ASSUME NEW s \in Server, NEW kind \in Ops, Call(s, kind) PROVE Backed'
  BY <1>31 DEF Call, db, work, buffers, TypeOK
<1>32. ASSUME NEW c \in Contact, GrowOld(c) PROVE Backed'
  BY <1>32 DEF GrowOld, memory, work, buffers, Fault, TypeOK
<1>33. CASE UNCHANGED vars
  BY <1>33 DEF vars, db, memory, work, buffers, history, TypeOK
<1> QED
        BY <1>1, <1>2, <1>3, <1>4, <1>5, <1>6, <1>7, <1>8, <1>9, <1>10, <1>11, <1>12, <1>13,
       <1>14, <1>15, <1>16, <1>17, <1>18, <1>19, <1>20, <1>21, <1>22, <1>23, <1>24, <1>25,
       <1>26, <1>27, <1>28, <1>29, <1>30, <1>31, <1>32, <1>33
       DEF Next, LoopStep, ServerStep

(* However loops overlap or die, a row never reaches SENT without a message*)
(* to its contact (SentMeansMessaged).                                     *)
THEOREM SentWereMessaged == Spec => []SentMeansMessaged
<1>1. Init => Backed
      BY DEF Init, Backed, SentMeansMessaged
<1> QED BY <1>1, ShapeInit, ShapeStep, BackedStep, PTL DEF Spec, Backed

-----------------------------------------------------------------------------
(* Without a retry nobody waits again once nobody waits.                   *)
Closing ==
  \/ status = "COMPLETED"
  \/ \E l \in Loop : verdict[l] # "open"
  \/ \E s \in Server : up[s] = "closing"

Done == Closing => Unfinished = {} \/ Called("retry")

LEMMA NobodyReturns ==
  ASSUME Shape, [Next]_vars
  PROVE  Called("retry") \/ Unfinished' \subseteq Unfinished
<1> SUFFICES ASSUME ~Called("retry") PROVE Unfinished' \subseteq Unfinished
    OBVIOUS
<1> USE DEF Shape, Unfinished
<1>1. ASSUME NEW l \in Loop, Enter(l) PROVE Unfinished' \subseteq Unfinished
  BY <1>1 DEF Enter, db, work, buffers, history, Goto, TypeOK, Asked
<1>2. ASSUME NEW l \in Loop, ResetQueued(l) PROVE Unfinished' \subseteq Unfinished
  BY <1>2 DEF ResetQueued, memory, work, buffers, Goto, Requeue, Queued, OldBut, TypeOK, Asked
<1>3. ASSUME NEW l \in Loop, CheckStatus(l) PROVE Unfinished' \subseteq Unfinished
  BY <1>3 DEF CheckStatus, db, memory, work, buffers, history, Goto, TypeOK, Asked
<1>4. ASSUME NEW l \in Loop, Claim(l) PROVE Unfinished' \subseteq Unfinished
  BY <1>4 DEF Claim, memory, buffers, Goto, RowsClaimed, OldBut, Claimable, TypeOK, Asked
<1>5. ASSUME NEW l \in Loop, ClaimNothing(l) PROVE Unfinished' \subseteq Unfinished
  BY <1>5 DEF ClaimNothing, db, memory, work, buffers, history, Goto, TypeOK, Asked
<1>6. ASSUME NEW l \in Loop, Halt(l) PROVE Unfinished' \subseteq Unfinished
  BY <1>6 DEF Halt, db, memory, buffers, history, Goto, TypeOK, Asked
<1>7. ASSUME NEW l \in Loop, HaltDone(l) PROVE Unfinished' \subseteq Unfinished
  BY <1>7 DEF HaltDone, db, memory, work, buffers, history, Goto, AfterHalt, TypeOK, Asked
<1>8. ASSUME NEW l \in Loop, BatchDone(l) PROVE Unfinished' \subseteq Unfinished
  BY <1>8 DEF BatchDone, db, memory, work, buffers, history, Goto, TypeOK, Asked
<1>9. ASSUME NEW l \in Loop, Flush(l) PROVE Unfinished' \subseteq Unfinished
  BY <1>9 DEF Flush, memory, work, history, WriteOutcomes, Written, OldBut, TypeOK, Asked
<1>10. ASSUME NEW l \in Loop, AutoPauseFlush(l) PROVE Unfinished' \subseteq Unfinished
  BY <1>10
     DEF AutoPauseFlush, memory, history, Goto, WriteOutcomes, Written, OldBut, TypeOK,
         Asked
<1>11. ASSUME NEW l \in Loop, Exit(l) PROVE Unfinished' \subseteq Unfinished
  BY <1>11 DEF Exit, db, memory, work, history, Goto, TypeOK, Asked
<1>12. ASSUME NEW l \in Loop, FinalFlush(l) PROVE Unfinished' \subseteq Unfinished
  BY <1>12
     DEF FinalFlush, memory, work, history, Goto, WriteOutcomes, Written, OldBut, TypeOK,
         Asked
<1>13. ASSUME NEW l \in Loop, Count(l) PROVE Unfinished' \subseteq Unfinished
  BY <1>13 DEF Count, db, memory, work, buffers, Goto, Verdict, TypeOK, Asked
<1>14. ASSUME NEW l \in Loop, ReadLatest(l) PROVE Unfinished' \subseteq Unfinished
  BY <1>14 DEF ReadLatest, db, memory, work, buffers, history, Goto, TypeOK, Asked
<1>15. ASSUME NEW l \in Loop, Complete(l) PROVE Unfinished' \subseteq Unfinished
  BY <1>15 DEF Complete, memory, work, buffers, history, Goto, TypeOK, Asked
<1>16. ASSUME NEW l \in Loop, Leave(l) PROVE Unfinished' \subseteq Unfinished
  BY <1>16 DEF Leave, db, Goto, Freed, TypeOK, Asked
<1>17. ASSUME NEW l \in Loop, OrphanEnds(l) PROVE Unfinished' \subseteq Unfinished
  BY <1>17 DEF OrphanEnds, db, memory, Goto, Freed, TypeOK, Asked
<1>18. ASSUME NEW l \in Loop, Refuse(l) PROVE Unfinished' \subseteq Unfinished
  BY <1>18 DEF Refuse, memory, work, buffers, Goto, Fault, TypeOK, Asked
<1>19. ASSUME NEW l \in Loop, AutoPause(l) PROVE Unfinished' \subseteq Unfinished
  BY <1>19 DEF AutoPause, memory, work, buffers, Goto, Fault, TypeOK, Asked
<1>20. ASSUME NEW l \in Loop, Throw(l) PROVE Unfinished' \subseteq Unfinished
  BY <1>20 DEF Throw, work, buffers, Goto, Fault, TypeOK, Asked
<1>21. ASSUME NEW l \in Loop, NEW c \in Contact, Begin(l, c) PROVE Unfinished' \subseteq Unfinished
  BY <1>21 DEF Begin, db, memory, buffers, history, TypeOK, Asked
<1>22. ASSUME NEW l \in Loop, NEW c \in Contact, Arrive(l, c) PROVE Unfinished' \subseteq Unfinished
  BY <1>22 DEF Arrive, db, memory, Tallied, TypeOK, Asked
<1>23. ASSUME NEW s \in Server, Run(s) PROVE Unfinished' \subseteq Unfinished
  BY <1>23 DEF Run, work, buffers, history, Goto, Answer, Spawn, TypeOK, Asked
<1>24. ASSUME NEW s \in Server, PauseWrite(s) PROVE Unfinished' \subseteq Unfinished
  BY <1>24 DEF PauseWrite, work, buffers, history, Answer, TypeOK, Asked
<1>25. ASSUME NEW s \in Server, RetryRows(s) PROVE Unfinished' \subseteq Unfinished
  BY <1>25 DEF RetryRows, work, buffers, Requeue, OldBut, Answer, TypeOK, Asked
<1>26. ASSUME NEW s \in Server, Recover(s) PROVE Unfinished' \subseteq Unfinished
  BY <1>26 DEF Recover, work, buffers, Requeue, Queued, OldBut, TypeOK, Asked
<1>27. ASSUME NEW s \in Server, RecoverRun(s) PROVE Unfinished' \subseteq Unfinished
  BY <1>27 DEF RecoverRun, db, work, buffers, history, Goto, Spawn, TypeOK, Asked
<1>28. ASSUME NEW s \in Server, RecoverClose(s) PROVE Unfinished' \subseteq Unfinished
  BY <1>28 DEF RecoverClose, work, buffers, history, TypeOK, Asked
<1>29. ASSUME NEW s \in Server, Crash(s) PROVE Unfinished' \subseteq Unfinished
  BY <1>29 DEF Crash, db, Fault, Answer, TypeOK, Asked
<1>30. ASSUME NEW s \in Server, StartRefused(s) PROVE Unfinished' \subseteq Unfinished
  BY <1>30 DEF StartRefused, db, work, buffers, history, TypeOK, Asked
<1>31. ASSUME NEW s \in Server, NEW kind \in Ops, Call(s, kind) PROVE Unfinished' \subseteq Unfinished
  BY <1>31 DEF Call, db, work, buffers, TypeOK, Asked
<1>32. ASSUME NEW c \in Contact, GrowOld(c) PROVE Unfinished' \subseteq Unfinished
  BY <1>32 DEF GrowOld, memory, work, buffers, Fault, TypeOK, Asked
<1>33. CASE UNCHANGED vars
  BY <1>33 DEF vars, db, memory, work, buffers, history, TypeOK, Asked
<1> QED
        BY <1>1, <1>2, <1>3, <1>4, <1>5, <1>6, <1>7, <1>8, <1>9, <1>10, <1>11, <1>12, <1>13,
       <1>14, <1>15, <1>16, <1>17, <1>18, <1>19, <1>20, <1>21, <1>22, <1>23, <1>24, <1>25,
       <1>26, <1>27, <1>28, <1>29, <1>30, <1>31, <1>32, <1>33
       DEF Next, LoopStep, ServerStep

LEMMA StaysCalled == Shape /\ [Next]_vars /\ Called("retry") => Called("retry")'
<1> SUFFICES ASSUME Shape, [Next]_vars, Called("retry") PROVE Called("retry")'
    OBVIOUS
<1> USE DEF Shape, Called
<1>1. ASSUME NEW l \in Loop, Enter(l) PROVE Called("retry")'
  BY <1>1 DEF Enter, db, work, buffers, history, Goto, TypeOK
<1>2. ASSUME NEW l \in Loop, ResetQueued(l) PROVE Called("retry")'
  BY <1>2 DEF ResetQueued, memory, work, buffers, Goto, Requeue, Queued, OldBut, TypeOK
<1>3. ASSUME NEW l \in Loop, CheckStatus(l) PROVE Called("retry")'
  BY <1>3 DEF CheckStatus, db, memory, work, buffers, history, Goto, TypeOK
<1>4. ASSUME NEW l \in Loop, Claim(l) PROVE Called("retry")'
  BY <1>4 DEF Claim, memory, buffers, Goto, RowsClaimed, OldBut, Claimable, TypeOK
<1>5. ASSUME NEW l \in Loop, ClaimNothing(l) PROVE Called("retry")'
  BY <1>5 DEF ClaimNothing, db, memory, work, buffers, history, Goto, TypeOK
<1>6. ASSUME NEW l \in Loop, Halt(l) PROVE Called("retry")'
  BY <1>6 DEF Halt, db, memory, buffers, history, Goto, TypeOK
<1>7. ASSUME NEW l \in Loop, HaltDone(l) PROVE Called("retry")'
  BY <1>7 DEF HaltDone, db, memory, work, buffers, history, Goto, AfterHalt, TypeOK
<1>8. ASSUME NEW l \in Loop, BatchDone(l) PROVE Called("retry")'
  BY <1>8 DEF BatchDone, db, memory, work, buffers, history, Goto, TypeOK
<1>9. ASSUME NEW l \in Loop, Flush(l) PROVE Called("retry")'
  BY <1>9 DEF Flush, memory, work, history, WriteOutcomes, Written, OldBut, TypeOK
<1>10. ASSUME NEW l \in Loop, AutoPauseFlush(l) PROVE Called("retry")'
  BY <1>10 DEF AutoPauseFlush, memory, history, Goto, WriteOutcomes, Written, OldBut, TypeOK
<1>11. ASSUME NEW l \in Loop, Exit(l) PROVE Called("retry")'
  BY <1>11 DEF Exit, db, memory, work, history, Goto, TypeOK
<1>12. ASSUME NEW l \in Loop, FinalFlush(l) PROVE Called("retry")'
  BY <1>12 DEF FinalFlush, memory, work, history, Goto, WriteOutcomes, Written, OldBut, TypeOK
<1>13. ASSUME NEW l \in Loop, Count(l) PROVE Called("retry")'
  BY <1>13 DEF Count, db, memory, work, buffers, Goto, Verdict, TypeOK
<1>14. ASSUME NEW l \in Loop, ReadLatest(l) PROVE Called("retry")'
  BY <1>14 DEF ReadLatest, db, memory, work, buffers, history, Goto, TypeOK
<1>15. ASSUME NEW l \in Loop, Complete(l) PROVE Called("retry")'
  BY <1>15 DEF Complete, memory, work, buffers, history, Goto, TypeOK
<1>16. ASSUME NEW l \in Loop, Leave(l) PROVE Called("retry")'
  BY <1>16 DEF Leave, db, Goto, Freed, TypeOK
<1>17. ASSUME NEW l \in Loop, OrphanEnds(l) PROVE Called("retry")'
  BY <1>17 DEF OrphanEnds, db, memory, Goto, Freed, TypeOK
<1>18. ASSUME NEW l \in Loop, Refuse(l) PROVE Called("retry")'
  BY <1>18 DEF Refuse, memory, work, buffers, Goto, Fault, TypeOK
<1>19. ASSUME NEW l \in Loop, AutoPause(l) PROVE Called("retry")'
  BY <1>19 DEF AutoPause, memory, work, buffers, Goto, Fault, TypeOK
<1>20. ASSUME NEW l \in Loop, Throw(l) PROVE Called("retry")'
  BY <1>20 DEF Throw, work, buffers, Goto, Fault, TypeOK
<1>21. ASSUME NEW l \in Loop, NEW c \in Contact, Begin(l, c) PROVE Called("retry")'
  BY <1>21 DEF Begin, db, memory, buffers, history, TypeOK
<1>22. ASSUME NEW l \in Loop, NEW c \in Contact, Arrive(l, c) PROVE Called("retry")'
  BY <1>22 DEF Arrive, db, memory, Tallied, TypeOK
<1>23. ASSUME NEW s \in Server, Run(s) PROVE Called("retry")'
  BY <1>23 DEF Run, work, buffers, history, Goto, Answer, Spawn, TypeOK
<1>24. ASSUME NEW s \in Server, PauseWrite(s) PROVE Called("retry")'
  BY <1>24 DEF PauseWrite, work, buffers, history, Answer, TypeOK
<1>25. ASSUME NEW s \in Server, RetryRows(s) PROVE Called("retry")'
  BY <1>25 DEF RetryRows, work, buffers, Requeue, OldBut, Answer, TypeOK
<1>26. ASSUME NEW s \in Server, Recover(s) PROVE Called("retry")'
  BY <1>26 DEF Recover, work, buffers, Requeue, Queued, OldBut, TypeOK
<1>27. ASSUME NEW s \in Server, RecoverRun(s) PROVE Called("retry")'
  BY <1>27 DEF RecoverRun, db, work, buffers, history, Goto, Spawn, TypeOK
<1>28. ASSUME NEW s \in Server, RecoverClose(s) PROVE Called("retry")'
  BY <1>28 DEF RecoverClose, work, buffers, history, TypeOK
<1>29. ASSUME NEW s \in Server, Crash(s) PROVE Called("retry")'
  BY <1>29 DEF Crash, db, Fault, Answer, TypeOK
<1>30. ASSUME NEW s \in Server, StartRefused(s) PROVE Called("retry")'
  BY <1>30 DEF StartRefused, db, work, buffers, history, TypeOK
<1>31. ASSUME NEW s \in Server, NEW kind \in Ops, Call(s, kind) PROVE Called("retry")'
  BY <1>31 DEF Call, db, work, buffers, TypeOK
<1>32. ASSUME NEW c \in Contact, GrowOld(c) PROVE Called("retry")'
  BY <1>32 DEF GrowOld, memory, work, buffers, Fault, TypeOK
<1>33. CASE UNCHANGED vars
  BY <1>33 DEF vars, db, memory, work, buffers, history, TypeOK
<1> QED
        BY <1>1, <1>2, <1>3, <1>4, <1>5, <1>6, <1>7, <1>8, <1>9, <1>10, <1>11, <1>12, <1>13,
       <1>14, <1>15, <1>16, <1>17, <1>18, <1>19, <1>20, <1>21, <1>22, <1>23, <1>24, <1>25,
       <1>26, <1>27, <1>28, <1>29, <1>30, <1>31, <1>32, <1>33
       DEF Next, LoopStep, ServerStep

(* Who closes the campaign has looked, or was looking already.             *)
LEMMA ClosersLooked ==
  ASSUME Shape, [Next]_vars, Closing', ~Closing
  PROVE  Unfinished = {}
<1> USE DEF Shape, Closing
<1>1. ASSUME NEW l \in Loop, Enter(l) PROVE Unfinished = {}
  BY <1>1 DEF Enter, db, work, buffers, history, Goto, TypeOK, Decided
<1>2. ASSUME NEW l \in Loop, ResetQueued(l) PROVE Unfinished = {}
  BY <1>2 DEF ResetQueued, memory, work, buffers, Goto, Requeue, Queued, OldBut, TypeOK, Decided
<1>3. ASSUME NEW l \in Loop, CheckStatus(l) PROVE Unfinished = {}
  BY <1>3 DEF CheckStatus, db, memory, work, buffers, history, Goto, TypeOK, Decided
<1>4. ASSUME NEW l \in Loop, Claim(l) PROVE Unfinished = {}
  BY <1>4 DEF Claim, memory, buffers, Goto, RowsClaimed, OldBut, Claimable, TypeOK, Decided
<1>5. ASSUME NEW l \in Loop, ClaimNothing(l) PROVE Unfinished = {}
  BY <1>5 DEF ClaimNothing, db, memory, work, buffers, history, Goto, TypeOK, Decided
<1>6. ASSUME NEW l \in Loop, Halt(l) PROVE Unfinished = {}
  BY <1>6 DEF Halt, db, memory, buffers, history, Goto, TypeOK, Decided
<1>7. ASSUME NEW l \in Loop, HaltDone(l) PROVE Unfinished = {}
  BY <1>7 DEF HaltDone, db, memory, work, buffers, history, Goto, AfterHalt, TypeOK, Decided
<1>8. ASSUME NEW l \in Loop, BatchDone(l) PROVE Unfinished = {}
  BY <1>8 DEF BatchDone, db, memory, work, buffers, history, Goto, TypeOK, Decided
<1>9. ASSUME NEW l \in Loop, Flush(l) PROVE Unfinished = {}
  BY <1>9 DEF Flush, memory, work, history, WriteOutcomes, Written, OldBut, TypeOK, Decided
<1>10. ASSUME NEW l \in Loop, AutoPauseFlush(l) PROVE Unfinished = {}
  BY <1>10
     DEF AutoPauseFlush, memory, history, Goto, WriteOutcomes, Written, OldBut, TypeOK,
         Decided
<1>11. ASSUME NEW l \in Loop, Exit(l) PROVE Unfinished = {}
  BY <1>11 DEF Exit, db, memory, work, history, Goto, TypeOK, Decided
<1>12. ASSUME NEW l \in Loop, FinalFlush(l) PROVE Unfinished = {}
  BY <1>12
     DEF FinalFlush, memory, work, history, Goto, WriteOutcomes, Written, OldBut, TypeOK,
         Decided
<1>13. ASSUME NEW l \in Loop, Count(l) PROVE Unfinished = {}
  BY <1>13 DEF Count, db, memory, work, buffers, Goto, Verdict, TypeOK, Decided
<1>14. ASSUME NEW l \in Loop, ReadLatest(l) PROVE Unfinished = {}
  BY <1>14 DEF ReadLatest, db, memory, work, buffers, history, Goto, TypeOK, Decided
<1>15. ASSUME NEW l \in Loop, Complete(l) PROVE Unfinished = {}
  BY <1>15 DEF Complete, memory, work, buffers, history, Goto, TypeOK, Decided
<1>16. ASSUME NEW l \in Loop, Leave(l) PROVE Unfinished = {}
  BY <1>16 DEF Leave, db, Goto, Freed, TypeOK, Decided
<1>17. ASSUME NEW l \in Loop, OrphanEnds(l) PROVE Unfinished = {}
  BY <1>17 DEF OrphanEnds, db, memory, Goto, Freed, TypeOK, Decided
<1>18. ASSUME NEW l \in Loop, Refuse(l) PROVE Unfinished = {}
  BY <1>18 DEF Refuse, memory, work, buffers, Goto, Fault, TypeOK, Decided
<1>19. ASSUME NEW l \in Loop, AutoPause(l) PROVE Unfinished = {}
  BY <1>19 DEF AutoPause, memory, work, buffers, Goto, Fault, TypeOK, Decided
<1>20. ASSUME NEW l \in Loop, Throw(l) PROVE Unfinished = {}
  BY <1>20 DEF Throw, work, buffers, Goto, Fault, TypeOK, Decided
<1>21. ASSUME NEW l \in Loop, NEW c \in Contact, Begin(l, c) PROVE Unfinished = {}
  BY <1>21 DEF Begin, db, memory, buffers, history, TypeOK, Decided
<1>22. ASSUME NEW l \in Loop, NEW c \in Contact, Arrive(l, c) PROVE Unfinished = {}
  BY <1>22 DEF Arrive, db, memory, Tallied, TypeOK, Decided
<1>23. ASSUME NEW s \in Server, Run(s) PROVE Unfinished = {}
  BY <1>23 DEF Run, work, buffers, history, Goto, Answer, Spawn, TypeOK, Decided
<1>24. ASSUME NEW s \in Server, PauseWrite(s) PROVE Unfinished = {}
  BY <1>24 DEF PauseWrite, work, buffers, history, Answer, TypeOK, Decided
<1>25. ASSUME NEW s \in Server, RetryRows(s) PROVE Unfinished = {}
  BY <1>25 DEF RetryRows, work, buffers, Requeue, OldBut, Answer, TypeOK, Decided
<1>26. ASSUME NEW s \in Server, Recover(s) PROVE Unfinished = {}
  BY <1>26 DEF Recover, work, buffers, Requeue, Queued, OldBut, TypeOK, Decided
<1>27. ASSUME NEW s \in Server, RecoverRun(s) PROVE Unfinished = {}
  BY <1>27 DEF RecoverRun, db, work, buffers, history, Goto, Spawn, TypeOK, Decided
<1>28. ASSUME NEW s \in Server, RecoverClose(s) PROVE Unfinished = {}
  BY <1>28 DEF RecoverClose, work, buffers, history, TypeOK, Decided
<1>29. ASSUME NEW s \in Server, Crash(s) PROVE Unfinished = {}
  BY <1>29 DEF Crash, db, Fault, Answer, TypeOK, Decided
<1>30. ASSUME NEW s \in Server, StartRefused(s) PROVE Unfinished = {}
  BY <1>30 DEF StartRefused, db, work, buffers, history, TypeOK, Decided
<1>31. ASSUME NEW s \in Server, NEW kind \in Ops, Call(s, kind) PROVE Unfinished = {}
  BY <1>31 DEF Call, db, work, buffers, TypeOK, Decided
<1>32. ASSUME NEW c \in Contact, GrowOld(c) PROVE Unfinished = {}
  BY <1>32 DEF GrowOld, memory, work, buffers, Fault, TypeOK, Decided
<1>33. CASE UNCHANGED vars
  BY <1>33 DEF vars, db, memory, work, buffers, history, TypeOK, Decided
<1> QED
        BY <1>1, <1>2, <1>3, <1>4, <1>5, <1>6, <1>7, <1>8, <1>9, <1>10, <1>11, <1>12, <1>13,
       <1>14, <1>15, <1>16, <1>17, <1>18, <1>19, <1>20, <1>21, <1>22, <1>23, <1>24, <1>25,
       <1>26, <1>27, <1>28, <1>29, <1>30, <1>31, <1>32, <1>33
       DEF Next, LoopStep, ServerStep

(* A campaign that loops or the recovery have completed has nobody waiting,*)
(* though they look before they write (CompletedMeansDone).                *)
THEOREM CompletedAreDone == Spec => []CompletedMeansDone
<1>1. Init => Done
      BY DEF Init, Done, Closing
<1>2. Shape /\ Done /\ [Next]_vars => Done'
      BY NobodyReturns, StaysCalled, ClosersLooked DEF Done
<1>3. Done => CompletedMeansDone
      BY DEF Done, Closing, CompletedMeansDone
<1> QED BY <1>1, <1>2, <1>3, ShapeInit, ShapeStep, PTL DEF Spec

-----------------------------------------------------------------------------
(* As long as nothing has gone wrong, an outcome that is not in its row is *)
(* in the hands of a loop, and a loop lets go of none.                     *)
Smooth == faults \cap {"crash", "throw", "autopause"} = {} /\ ~Called("retry")

EmptyHanded ==
  {"free", "called", "loading", "ready", "counting", "counted", "completing", "leaving"}

InHand == Smooth =>
  /\ \A l \in Loop : pc[l] \notin {"pausing", "exiting", "orphan"}
  /\ \A l \in Loop : pc[l] \in EmptyHanded => sent[l] = {}
  /\ \A c \in Unfinished : messages[c] = 0 \/ \E l \in Loop : c \in sent[l]

(* What has gone wrong stays on record.                                    *)
LEMMA FaultsStay == Shape /\ [Next]_vars => faults \subseteq faults'
<1> SUFFICES ASSUME Shape, [Next]_vars PROVE faults \subseteq faults'
    OBVIOUS
<1> USE DEF Shape
<1>1. ASSUME NEW l \in Loop, Enter(l) PROVE faults \subseteq faults'
  BY <1>1 DEF Enter, db, work, buffers, history, Goto, TypeOK
<1>2. ASSUME NEW l \in Loop, ResetQueued(l) PROVE faults \subseteq faults'
  BY <1>2 DEF ResetQueued, memory, work, buffers, Goto, Requeue, Queued, OldBut, TypeOK
<1>3. ASSUME NEW l \in Loop, CheckStatus(l) PROVE faults \subseteq faults'
  BY <1>3 DEF CheckStatus, db, memory, work, buffers, history, Goto, TypeOK
<1>4. ASSUME NEW l \in Loop, Claim(l) PROVE faults \subseteq faults'
  BY <1>4 DEF Claim, memory, buffers, Goto, RowsClaimed, OldBut, Claimable, TypeOK
<1>5. ASSUME NEW l \in Loop, ClaimNothing(l) PROVE faults \subseteq faults'
  BY <1>5 DEF ClaimNothing, db, memory, work, buffers, history, Goto, TypeOK
<1>6. ASSUME NEW l \in Loop, Halt(l) PROVE faults \subseteq faults'
  BY <1>6 DEF Halt, db, memory, buffers, history, Goto, TypeOK
<1>7. ASSUME NEW l \in Loop, HaltDone(l) PROVE faults \subseteq faults'
  BY <1>7 DEF HaltDone, db, memory, work, buffers, history, Goto, AfterHalt, TypeOK
<1>8. ASSUME NEW l \in Loop, BatchDone(l) PROVE faults \subseteq faults'
  BY <1>8 DEF BatchDone, db, memory, work, buffers, history, Goto, TypeOK
<1>9. ASSUME NEW l \in Loop, Flush(l) PROVE faults \subseteq faults'
  BY <1>9 DEF Flush, memory, work, history, WriteOutcomes, Written, OldBut, TypeOK
<1>10. ASSUME NEW l \in Loop, AutoPauseFlush(l) PROVE faults \subseteq faults'
  BY <1>10 DEF AutoPauseFlush, memory, history, Goto, WriteOutcomes, Written, OldBut, TypeOK
<1>11. ASSUME NEW l \in Loop, Exit(l) PROVE faults \subseteq faults'
  BY <1>11 DEF Exit, db, memory, work, history, Goto, TypeOK
<1>12. ASSUME NEW l \in Loop, FinalFlush(l) PROVE faults \subseteq faults'
  BY <1>12 DEF FinalFlush, memory, work, history, Goto, WriteOutcomes, Written, OldBut, TypeOK
<1>13. ASSUME NEW l \in Loop, Count(l) PROVE faults \subseteq faults'
  BY <1>13 DEF Count, db, memory, work, buffers, Goto, Verdict, TypeOK
<1>14. ASSUME NEW l \in Loop, ReadLatest(l) PROVE faults \subseteq faults'
  BY <1>14 DEF ReadLatest, db, memory, work, buffers, history, Goto, TypeOK
<1>15. ASSUME NEW l \in Loop, Complete(l) PROVE faults \subseteq faults'
  BY <1>15 DEF Complete, memory, work, buffers, history, Goto, TypeOK
<1>16. ASSUME NEW l \in Loop, Leave(l) PROVE faults \subseteq faults'
  BY <1>16 DEF Leave, db, Goto, Freed, TypeOK
<1>17. ASSUME NEW l \in Loop, OrphanEnds(l) PROVE faults \subseteq faults'
  BY <1>17 DEF OrphanEnds, db, memory, Goto, Freed, TypeOK
<1>18. ASSUME NEW l \in Loop, Refuse(l) PROVE faults \subseteq faults'
  BY <1>18 DEF Refuse, memory, work, buffers, Goto, Fault, TypeOK
<1>19. ASSUME NEW l \in Loop, AutoPause(l) PROVE faults \subseteq faults'
  BY <1>19 DEF AutoPause, memory, work, buffers, Goto, Fault, TypeOK
<1>20. ASSUME NEW l \in Loop, Throw(l) PROVE faults \subseteq faults'
  BY <1>20 DEF Throw, work, buffers, Goto, Fault, TypeOK
<1>21. ASSUME NEW l \in Loop, NEW c \in Contact, Begin(l, c) PROVE faults \subseteq faults'
  BY <1>21 DEF Begin, db, memory, buffers, history, TypeOK
<1>22. ASSUME NEW l \in Loop, NEW c \in Contact, Arrive(l, c) PROVE faults \subseteq faults'
  BY <1>22 DEF Arrive, db, memory, Tallied, TypeOK
<1>23. ASSUME NEW s \in Server, Run(s) PROVE faults \subseteq faults'
  BY <1>23 DEF Run, work, buffers, history, Goto, Answer, Spawn, TypeOK
<1>24. ASSUME NEW s \in Server, PauseWrite(s) PROVE faults \subseteq faults'
  BY <1>24 DEF PauseWrite, work, buffers, history, Answer, TypeOK
<1>25. ASSUME NEW s \in Server, RetryRows(s) PROVE faults \subseteq faults'
  BY <1>25 DEF RetryRows, work, buffers, Requeue, OldBut, Answer, TypeOK
<1>26. ASSUME NEW s \in Server, Recover(s) PROVE faults \subseteq faults'
  BY <1>26 DEF Recover, work, buffers, Requeue, Queued, OldBut, TypeOK
<1>27. ASSUME NEW s \in Server, RecoverRun(s) PROVE faults \subseteq faults'
  BY <1>27 DEF RecoverRun, db, work, buffers, history, Goto, Spawn, TypeOK
<1>28. ASSUME NEW s \in Server, RecoverClose(s) PROVE faults \subseteq faults'
  BY <1>28 DEF RecoverClose, work, buffers, history, TypeOK
<1>29. ASSUME NEW s \in Server, Crash(s) PROVE faults \subseteq faults'
  BY <1>29 DEF Crash, db, Fault, Answer, TypeOK
<1>30. ASSUME NEW s \in Server, StartRefused(s) PROVE faults \subseteq faults'
  BY <1>30 DEF StartRefused, db, work, buffers, history, TypeOK
<1>31. ASSUME NEW s \in Server, NEW kind \in Ops, Call(s, kind) PROVE faults \subseteq faults'
  BY <1>31 DEF Call, db, work, buffers, TypeOK
<1>32. ASSUME NEW c \in Contact, GrowOld(c) PROVE faults \subseteq faults'
  BY <1>32 DEF GrowOld, memory, work, buffers, Fault, TypeOK
<1>33. CASE UNCHANGED vars
  BY <1>33 DEF vars, db, memory, work, buffers, history, TypeOK
<1> QED
        BY <1>1, <1>2, <1>3, <1>4, <1>5, <1>6, <1>7, <1>8, <1>9, <1>10, <1>11, <1>12, <1>13,
       <1>14, <1>15, <1>16, <1>17, <1>18, <1>19, <1>20, <1>21, <1>22, <1>23, <1>24, <1>25,
       <1>26, <1>27, <1>28, <1>29, <1>30, <1>31, <1>32, <1>33
       DEF Next, LoopStep, ServerStep

LEMMA InHandStep == Shape /\ InHand /\ [Next]_vars => InHand'
<1> SUFFICES ASSUME Shape, InHand, [Next]_vars, Smooth' PROVE InHand'
    BY DEF InHand
<1> USE DEF Shape, InHand, EmptyHanded, Unfinished
<1>0. Smooth
  <2>1. ~Called("retry")
        BY StaysCalled DEF Smooth
  <2>2. faults \subseteq faults'
        BY FaultsStay
  <2> QED BY <2>1, <2>2 DEF Smooth
<1>1. ASSUME NEW l \in Loop, Enter(l) PROVE InHand'
  BY <1>0, <1>1 DEF Enter, db, work, buffers, history, Goto, TypeOK, Asked, Smooth
<1>2. ASSUME NEW l \in Loop, ResetQueued(l) PROVE InHand'
  BY <1>0, <1>2
     DEF ResetQueued, memory, work, buffers, Goto, Requeue, Queued, OldBut, TypeOK, Asked,
         Smooth
<1>3. ASSUME NEW l \in Loop, CheckStatus(l) PROVE InHand'
  BY <1>0, <1>3 DEF CheckStatus, db, memory, work, buffers, history, Goto, TypeOK, Asked, Smooth
<1>4. ASSUME NEW l \in Loop, Claim(l) PROVE InHand'
  BY <1>0, <1>4
     DEF Claim, memory, buffers, Goto, RowsClaimed, OldBut, Claimable, TypeOK, Asked, Smooth
<1>5. ASSUME NEW l \in Loop, ClaimNothing(l) PROVE InHand'
  BY <1>0, <1>5
     DEF ClaimNothing, db, memory, work, buffers, history, Goto, TypeOK, Asked, Smooth
<1>6. ASSUME NEW l \in Loop, Halt(l) PROVE InHand'
  BY <1>0, <1>6 DEF Halt, db, memory, buffers, history, Goto, TypeOK, Asked, Smooth
<1>7. ASSUME NEW l \in Loop, HaltDone(l) PROVE InHand'
  BY <1>0, <1>7
     DEF HaltDone, db, memory, work, buffers, history, Goto, AfterHalt, TypeOK, Asked,
         Smooth
<1>8. ASSUME NEW l \in Loop, BatchDone(l) PROVE InHand'
  BY <1>0, <1>8 DEF BatchDone, db, memory, work, buffers, history, Goto, TypeOK, Asked, Smooth
<1>9. ASSUME NEW l \in Loop, Flush(l) PROVE InHand'
  BY <1>0, <1>9
     DEF Flush, memory, work, history, WriteOutcomes, Written, OldBut, TypeOK, Asked, Smooth
<1>10. ASSUME NEW l \in Loop, AutoPauseFlush(l) PROVE InHand'
  BY <1>0, <1>10
     DEF AutoPauseFlush, memory, history, Goto, WriteOutcomes, Written, OldBut, TypeOK,
         Asked, Smooth
<1>11. ASSUME NEW l \in Loop, Exit(l) PROVE InHand'
  BY <1>0, <1>11 DEF Exit, db, memory, work, history, Goto, TypeOK, Asked, Smooth
<1>12. ASSUME NEW l \in Loop, FinalFlush(l) PROVE InHand'
  BY <1>0, <1>12
     DEF FinalFlush, memory, work, history, Goto, WriteOutcomes, Written, OldBut, TypeOK,
         Asked, Smooth
<1>13. ASSUME NEW l \in Loop, Count(l) PROVE InHand'
  BY <1>0, <1>13 DEF Count, db, memory, work, buffers, Goto, Verdict, TypeOK, Asked, Smooth
<1>14. ASSUME NEW l \in Loop, ReadLatest(l) PROVE InHand'
  BY <1>0, <1>14 DEF ReadLatest, db, memory, work, buffers, history, Goto, TypeOK, Asked, Smooth
<1>15. ASSUME NEW l \in Loop, Complete(l) PROVE InHand'
  BY <1>0, <1>15 DEF Complete, memory, work, buffers, history, Goto, TypeOK, Asked, Smooth
<1>16. ASSUME NEW l \in Loop, Leave(l) PROVE InHand'
  BY <1>0, <1>16 DEF Leave, db, Goto, Freed, TypeOK, Asked, Smooth
<1>17. ASSUME NEW l \in Loop, OrphanEnds(l) PROVE InHand'
  BY <1>0, <1>17 DEF OrphanEnds, db, memory, Goto, Freed, TypeOK, Asked, Smooth
<1>18. ASSUME NEW l \in Loop, Refuse(l) PROVE InHand'
  BY <1>0, <1>18 DEF Refuse, memory, work, buffers, Goto, Fault, TypeOK, Asked, Smooth
<1>19. ASSUME NEW l \in Loop, AutoPause(l) PROVE InHand'
  BY <1>0, <1>19 DEF AutoPause, memory, work, buffers, Goto, Fault, TypeOK, Asked, Smooth
<1>20. ASSUME NEW l \in Loop, Throw(l) PROVE InHand'
  BY <1>0, <1>20 DEF Throw, work, buffers, Goto, Fault, TypeOK, Asked, Smooth
<1>21. ASSUME NEW l \in Loop, NEW c \in Contact, Begin(l, c) PROVE InHand'
  BY <1>0, <1>21 DEF Begin, db, memory, buffers, history, TypeOK, Asked, Smooth
<1>22. ASSUME NEW l \in Loop, NEW c \in Contact, Arrive(l, c) PROVE InHand'
  <2>1. pc' = pc /\ row' = row
        BY <1>22 DEF Arrive, db
  <2>2. pc[l] \notin EmptyHanded
        BY <1>22 DEF Arrive, Holds, TypeOK
  <2>3. PICK accepted \in BOOLEAN :
          IF accepted
            THEN /\ messages' = [messages EXCEPT ![c] = @ + 1]
                 /\ sent' = [sent EXCEPT ![l] = @ \cup {c}]
            ELSE UNCHANGED <<messages, sent>>
        BY <1>22 DEF Arrive
  <2>4. \A k \in Loop : sent[k] \subseteq sent'[k] /\ (k # l => sent'[k] = sent[k])
        BY <2>3 DEF TypeOK
  <2>5. \A d \in Contact : messages'[d] = messages[d] \/ d \in sent'[l]
        BY <2>3 DEF TypeOK
  <2>6. \A k \in Loop : pc'[k] \in EmptyHanded => sent'[k] = {}
        BY <1>0, <2>1, <2>2, <2>4
  <2>7. \A d \in Unfinished' : messages'[d] = 0 \/ \E k \in Loop : d \in sent'[k]
        BY <1>0, <2>1, <2>4, <2>5
  <2> QED BY <1>0, <2>1, <2>6, <2>7
<1>23. ASSUME NEW s \in Server, Run(s) PROVE InHand'
  BY <1>0, <1>23 DEF Run, work, buffers, history, Goto, Answer, Spawn, TypeOK, Asked, Smooth
<1>24. ASSUME NEW s \in Server, PauseWrite(s) PROVE InHand'
  BY <1>0, <1>24 DEF PauseWrite, work, buffers, history, Answer, TypeOK, Asked, Smooth
<1>25. ASSUME NEW s \in Server, RetryRows(s) PROVE InHand'
  BY <1>0, <1>25 DEF RetryRows, work, buffers, Requeue, OldBut, Answer, TypeOK, Asked, Smooth
<1>26. ASSUME NEW s \in Server, Recover(s) PROVE InHand'
  BY <1>0, <1>26 DEF Recover, work, buffers, Requeue, Queued, OldBut, TypeOK, Asked, Smooth
<1>27. ASSUME NEW s \in Server, RecoverRun(s) PROVE InHand'
  BY <1>0, <1>27 DEF RecoverRun, db, work, buffers, history, Goto, Spawn, TypeOK, Asked, Smooth
<1>28. ASSUME NEW s \in Server, RecoverClose(s) PROVE InHand'
  BY <1>0, <1>28 DEF RecoverClose, work, buffers, history, TypeOK, Asked, Smooth
<1>29. ASSUME NEW s \in Server, Crash(s) PROVE InHand'
  BY <1>0, <1>29 DEF Crash, db, Fault, Answer, TypeOK, Asked, Smooth
<1>30. ASSUME NEW s \in Server, StartRefused(s) PROVE InHand'
  BY <1>0, <1>30 DEF StartRefused, db, work, buffers, history, TypeOK, Asked, Smooth
<1>31. ASSUME NEW s \in Server, NEW kind \in Ops, Call(s, kind) PROVE InHand'
  BY <1>0, <1>31 DEF Call, db, work, buffers, TypeOK, Asked, Smooth
<1>32. ASSUME NEW c \in Contact, GrowOld(c) PROVE InHand'
  BY <1>0, <1>32 DEF GrowOld, memory, work, buffers, Fault, TypeOK, Asked, Smooth
<1>33. CASE UNCHANGED vars
  BY <1>0, <1>33 DEF vars, db, memory, work, buffers, history, TypeOK, Asked, Smooth
<1> QED
        BY <1>0, <1>1, <1>2, <1>3, <1>4, <1>5, <1>6, <1>7, <1>8, <1>9, <1>10, <1>11, <1>12,
       <1>13, <1>14, <1>15, <1>16, <1>17, <1>18, <1>19, <1>20, <1>21, <1>22, <1>23, <1>24,
       <1>25, <1>26, <1>27, <1>28, <1>29, <1>30, <1>31, <1>32, <1>33
       DEF Next, LoopStep, ServerStep

(* Without crashes, exceptions and automatic pauses the batched flushes    *)
(* miss no outcome (OutcomesWritten).                                      *)
THEOREM OutcomesAreWritten == Spec => []OutcomesWritten
<1>1. Init => InHand
      BY DEF Init, InHand, Unfinished, EmptyHanded
<1>2. Shape /\ InHand => OutcomesWritten
      BY DEF InHand, OutcomesWritten, Smooth, EmptyHanded
<1> QED BY <1>1, <1>2, ShapeInit, ShapeStep, InHandStep, PTL DEF Spec

-----------------------------------------------------------------------------
(* A contact's row is a token: it is in the pool (PENDING), with the loops *)
(* that hold the contact, or spent on a message.  Only what puts the row   *)
(* back mints another one, and requeued counts those.                      *)
Holders(c) == {l \in Loop : c \in todo[l] \cup flying[l]}
Budget(c) == IF row[c] = "PENDING" THEN requeued[c] ELSE requeued[c] + 1
Tokens == \A c \in Contact : messages[c] + Cardinality(Holders(c)) <= Budget(c)

LEMMA HoldersFinite == \A c : IsFiniteSet(Holders(c)) /\ Cardinality(Holders(c)) \in Nat
BY FS_Subset, FS_CardinalityType, CampaignAssumption DEF Holders

LEMMA BudgetType == TypeOK => \A c \in Contact : Budget(c) \in Nat /\ messages[c] \in Nat
BY DEF TypeOK, Budget

(* The steps that send and claim nothing mint a token for each they take.  *)
Keeps == \A c \in Contact :
  messages'[c] = messages[c] /\ Budget(c)' >= Budget(c) /\ Holders(c)' \subseteq Holders(c)

LEMMA KeepsTokens ==
  ASSUME Shape, Shape', Tokens, Keeps
  PROVE  Tokens'
<1> SUFFICES ASSUME NEW c \in Contact
             PROVE  messages'[c] + Cardinality(Holders(c)') <= Budget(c)'
    BY DEF Tokens
<1> DEFINE n == Cardinality(Holders(c))
           p == Cardinality(Holders(c)')
<1>1. p <= n /\ n \in Nat /\ p \in Nat
      BY FS_Subset, FS_CardinalityType, HoldersFinite DEF Keeps
<1>2. messages[c] + n <= Budget(c) /\ messages'[c] = messages[c] /\ Budget(c)' >= Budget(c)
      BY DEF Tokens, Keeps
<1>3. Budget(c) \in Nat /\ Budget(c)' \in Nat /\ messages[c] \in Nat
      BY BudgetType DEF Shape, Budget, TypeOK
<1> HIDE DEF n, p
<1>4. messages'[c] + p <= Budget(c)'
      BY <1>1, <1>2, <1>3
<1> QED BY <1>4 DEF p

(* A claimed contact was in the pool, or its row has been taken back.      *)
LEMMA ClaimTokens ==
  ASSUME Shape, Shape', Tokens, NEW l \in Loop, Claim(l)
  PROVE  Tokens'
<1> SUFFICES ASSUME NEW c \in Contact
             PROVE  messages'[c] + Cardinality(Holders(c)') <= Budget(c)'
    BY DEF Tokens
<1> DEFINE n == Cardinality(Holders(c))
           p == Cardinality(Holders(c)')
<1>1. PICK batch \in SUBSET Claimable :
        /\ row' = RowsClaimed(batch)
        /\ requeued' = [d \in Contact |-> IF d \in batch \cap old THEN requeued[d] + 1
                                                             ELSE requeued[d]]
        /\ todo' = [todo EXCEPT ![l] = batch]
      BY DEF Claim
<1>2. flying' = flying /\ messages' = messages /\ todo[l] = {} /\ flying[l] = {}
      BY DEF Claim, Shape, Holds
<1>3. n \in Nat /\ p \in Nat /\ messages[c] \in Nat /\ requeued[c] \in Nat
      BY HoldersFinite, FS_CardinalityType, FS_Subset, CampaignAssumption
         DEF Shape, TypeOK, Holders
<1>4. messages[c] + n <= Budget(c)
      BY DEF Tokens
<1>5. CASE c \in batch
  <2>1. Holders(c)' = Holders(c) \cup {l} /\ l \notin Holders(c)
        BY <1>1, <1>2, <1>5 DEF Holders, Shape, TypeOK
  <2>2. p = n + 1
        BY <2>1, FS_AddElement, HoldersFinite
  <2>3. Budget(c)' = Budget(c) + 1
        BY <1>1, <1>5, <1>3 DEF Claimable, RowsClaimed, Budget, Shape, TypeOK
  <2>4. Budget(c) \in Nat
        BY BudgetType DEF Shape
  <2> HIDE DEF n, p
  <2>5. messages[c] + p <= Budget(c)'
        BY <1>3, <1>4, <2>2, <2>3, <2>4
  <2> QED BY <1>2, <2>5 DEF p
<1>6. CASE c \notin batch
  <2>1. Holders(c)' = Holders(c)
        BY <1>1, <1>2, <1>6 DEF Holders, Shape, TypeOK
  <2>2. Budget(c)' = Budget(c)
        BY <1>1, <1>6 DEF RowsClaimed, Budget, Shape, TypeOK
  <2> QED BY <1>2, <1>4, <2>1, <2>2
<1> QED BY <1>5, <1>6

(* An answer spends the token that was held.                               *)
LEMMA ArriveTokens ==
  ASSUME Shape, Shape', Tokens, NEW l \in Loop, NEW c \in Contact, Arrive(l, c)
  PROVE  Tokens'
<1> SUFFICES ASSUME NEW d \in Contact
             PROVE  messages'[d] + Cardinality(Holders(d)') <= Budget(d)'
    BY DEF Tokens
<1> DEFINE n == Cardinality(Holders(d))
           p == Cardinality(Holders(d)')
<1>1. /\ c \in flying[l] /\ flying' = [flying EXCEPT ![l] = @ \ {c}] /\ todo' = todo
      /\ row' = row /\ requeued' = requeued
      BY DEF Arrive, db
<1>2. n \in Nat /\ p \in Nat /\ messages[d] \in Nat /\ Budget(d) \in Nat
      BY HoldersFinite, FS_CardinalityType, FS_Subset, CampaignAssumption, BudgetType
         DEF Shape, Holders
<1>3. messages[d] + n <= Budget(d) /\ Budget(d)' = Budget(d)
      BY <1>1 DEF Tokens, Budget
<1>4. CASE d = c
  <2>1. Holders(d)' = Holders(d) \ {l} /\ l \in Holders(d)
        BY <1>1, <1>4 DEF Holders, Shape, TypeOK, Holds
  <2>2. p = n - 1
        BY <2>1, FS_RemoveElement, HoldersFinite
  <2>3. messages'[d] = messages[d] \/ messages'[d] = messages[d] + 1
        BY <1>4 DEF Arrive, Shape, TypeOK
  <2> HIDE DEF n, p
  <2>4. messages'[d] + p <= Budget(d)
        BY <1>2, <1>3, <2>2, <2>3
  <2> QED BY <1>3, <2>4 DEF p
<1>5. CASE d # c
  <2>1. Holders(d)' = Holders(d)
        BY <1>1, <1>5 DEF Holders, Shape, TypeOK
  <2>2. messages'[d] = messages[d]
        BY <1>5 DEF Arrive, Shape, TypeOK
  <2> QED BY <1>3, <2>1, <2>2
<1> QED BY <1>4, <1>5

(* The requests of a dying instance spend the tokens its loops held.       *)
LEMMA CrashTokens ==
  ASSUME Shape, Shape', Tokens, NEW s \in Server, Crash(s)
  PROVE  Tokens'
<1> SUFFICES ASSUME NEW c \in Contact
             PROVE  messages'[c] + Cardinality(Holders(c)') <= Budget(c)'
    BY DEF Tokens
<1>1. PICK got \in SUBSET (Loop \X Contact) :
        /\ \A d \in got : home[d[1]] = s /\ d[2] \in flying[d[1]]
        /\ LET R == {l \in Loop : <<l, c>> \in got} IN
           /\ IsFiniteSet(R) /\ Cardinality(R) \in Nat
           /\ messages'[c] = messages[c] + Cardinality(R)
      BY Reached
<1> DEFINE R == {l \in Loop : <<l, c>> \in got}
           n == Cardinality(Holders(c))
           p == Cardinality(Holders(c)')
           r == Cardinality(R)
<1>2. R \subseteq Holders(c) /\ \A l \in R : home[l] = s
      BY <1>1 DEF Holders
<1>3. Holders(c)' \subseteq {l \in Holders(c) : home[l] # s}
      BY DEF Crash, Holders, Shape, TypeOK
<1>4. IsFiniteSet(Holders(c)') /\ p \in Nat /\ n \in Nat /\ r \in Nat /\ IsFiniteSet(R)
      BY <1>1, HoldersFinite, FS_CardinalityType, FS_Subset, CampaignAssumption DEF Holders
<1>5. r + p <= n
  <2>1. R \cap Holders(c)' = {} /\ R \cup Holders(c)' \subseteq Holders(c)
        BY <1>2, <1>3
  <2>2. Cardinality(R \cup Holders(c)') = r + p
    <3> DEFINE H == Holders(c)'
    <3>1. IsFiniteSet(R) /\ IsFiniteSet(H) /\ R \cap H = {}
          BY <1>4, <2>1
    <3>2. p = Cardinality(H) /\ r \in Nat /\ p \in Nat
          BY <1>4
    <3> HIDE DEF R, H, p
    <3>3. Cardinality(R \cup H) = Cardinality(R) + Cardinality(H) - Cardinality(R \cap H)
          BY <3>1, FS_Union
    <3>4. Cardinality(R \cap H) = 0
          BY <3>1, FS_EmptySet
    <3>5. Cardinality(R \cup H) = Cardinality(R) + Cardinality(H)
          BY <3>2, <3>3, <3>4
    <3> QED BY <3>2, <3>5 DEF H
  <2>3. Cardinality(R \cup Holders(c)') <= n
        BY <2>1, FS_Subset, HoldersFinite
  <2> QED BY <2>2, <2>3
<1>6. messages[c] + n <= Budget(c) /\ messages[c] \in Nat /\ Budget(c) \in Nat
      BY BudgetType DEF Tokens, Shape
<1>7. Budget(c)' = Budget(c)
      BY DEF Crash, db, Budget
<1>8. messages'[c] = messages[c] + r
      BY <1>1
<1> HIDE DEF n, p, r
<1>9. messages'[c] + p <= Budget(c)
      BY <1>4, <1>5, <1>6, <1>8
<1> QED BY <1>7, <1>9 DEF p

LEMMA TokensStep == Shape /\ Shape' /\ Tokens /\ [Next]_vars => Tokens'
<1> SUFFICES ASSUME Shape, Shape', Tokens, [Next]_vars PROVE Tokens'
    OBVIOUS
<1>1. ASSUME NEW l \in Loop, Enter(l) PROVE Tokens'
  <2> Keeps
      BY <1>1 DEF Enter, db, work, buffers, history, Goto, Shape, TypeOK, Keeps, Budget, Holders
  <2> QED BY KeepsTokens
<1>2. ASSUME NEW l \in Loop, ResetQueued(l) PROVE Tokens'
  <2> Keeps
      BY <1>2
         DEF ResetQueued, memory, work, buffers, Goto, Requeue, Queued, OldBut, Shape,
             TypeOK, Keeps, Budget, Holders
  <2> QED BY KeepsTokens
<1>3. ASSUME NEW l \in Loop, CheckStatus(l) PROVE Tokens'
  <2> Keeps
      BY <1>3
         DEF CheckStatus, db, memory, work, buffers, history, Goto, Shape, TypeOK, Keeps,
             Budget, Holders
  <2> QED BY KeepsTokens
<1>4. ASSUME NEW l \in Loop, Claim(l) PROVE Tokens'
  BY <1>4, ClaimTokens
<1>5. ASSUME NEW l \in Loop, ClaimNothing(l) PROVE Tokens'
  <2> Keeps
      BY <1>5
         DEF ClaimNothing, db, memory, work, buffers, history, Goto, Shape, TypeOK, Keeps,
             Budget, Holders
  <2> QED BY KeepsTokens
<1>6. ASSUME NEW l \in Loop, Halt(l) PROVE Tokens'
  <2> Keeps
      BY <1>6
         DEF Halt, db, memory, buffers, history, Goto, Shape, TypeOK, Keeps, Budget, Holders
  <2> QED BY KeepsTokens
<1>7. ASSUME NEW l \in Loop, HaltDone(l) PROVE Tokens'
  <2> Keeps
      BY <1>7
         DEF HaltDone, db, memory, work, buffers, history, Goto, AfterHalt, Shape, TypeOK,
             Keeps, Budget, Holders
  <2> QED BY KeepsTokens
<1>8. ASSUME NEW l \in Loop, BatchDone(l) PROVE Tokens'
  <2> Keeps
      BY <1>8
         DEF BatchDone, db, memory, work, buffers, history, Goto, Shape, TypeOK, Keeps,
             Budget, Holders
  <2> QED BY KeepsTokens
<1>9. ASSUME NEW l \in Loop, Flush(l) PROVE Tokens'
  <2> Keeps
      BY <1>9
         DEF Flush, memory, work, history, WriteOutcomes, Written, OldBut, Shape, TypeOK,
             Keeps, Budget, Holders
  <2> QED BY KeepsTokens
<1>10. ASSUME NEW l \in Loop, AutoPauseFlush(l) PROVE Tokens'
  <2> Keeps
      BY <1>10
         DEF AutoPauseFlush, memory, history, Goto, WriteOutcomes, Written, OldBut, Shape,
             TypeOK, Keeps, Budget, Holders
  <2> QED BY KeepsTokens
<1>11. ASSUME NEW l \in Loop, Exit(l) PROVE Tokens'
  <2> Keeps
      BY <1>11 DEF Exit, db, memory, work, history, Goto, Shape, TypeOK, Keeps, Budget, Holders
  <2> QED BY KeepsTokens
<1>12. ASSUME NEW l \in Loop, FinalFlush(l) PROVE Tokens'
  <2> Keeps
      BY <1>12
         DEF FinalFlush, memory, work, history, Goto, WriteOutcomes, Written, OldBut, Shape,
             TypeOK, Keeps, Budget, Holders
  <2> QED BY KeepsTokens
<1>13. ASSUME NEW l \in Loop, Count(l) PROVE Tokens'
  <2> Keeps
      BY <1>13
         DEF Count, db, memory, work, buffers, Goto, Verdict, Shape, TypeOK, Keeps, Budget,
             Holders
  <2> QED BY KeepsTokens
<1>14. ASSUME NEW l \in Loop, ReadLatest(l) PROVE Tokens'
  <2> Keeps
      BY <1>14
         DEF ReadLatest, db, memory, work, buffers, history, Goto, Shape, TypeOK, Keeps,
             Budget, Holders
  <2> QED BY KeepsTokens
<1>15. ASSUME NEW l \in Loop, Complete(l) PROVE Tokens'
  <2> Keeps
      BY <1>15
         DEF Complete, memory, work, buffers, history, Goto, Shape, TypeOK, Keeps, Budget,
             Holders
  <2> QED BY KeepsTokens
<1>16. ASSUME NEW l \in Loop, Leave(l) PROVE Tokens'
  <2> Keeps
      BY <1>16 DEF Leave, db, Goto, Freed, Shape, TypeOK, Keeps, Budget, Holders
  <2> QED BY KeepsTokens
<1>17. ASSUME NEW l \in Loop, OrphanEnds(l) PROVE Tokens'
  <2> Keeps
      BY <1>17 DEF OrphanEnds, db, memory, Goto, Freed, Shape, TypeOK, Keeps, Budget, Holders
  <2> QED BY KeepsTokens
<1>18. ASSUME NEW l \in Loop, Refuse(l) PROVE Tokens'
  <2> Keeps
      BY <1>18
         DEF Refuse, memory, work, buffers, Goto, Fault, Shape, TypeOK, Keeps, Budget,
             Holders
  <2> QED BY KeepsTokens
<1>19. ASSUME NEW l \in Loop, AutoPause(l) PROVE Tokens'
  <2> Keeps
      BY <1>19
         DEF AutoPause, memory, work, buffers, Goto, Fault, Shape, TypeOK, Keeps, Budget,
             Holders
  <2> QED BY KeepsTokens
<1>20. ASSUME NEW l \in Loop, Throw(l) PROVE Tokens'
  <2> Keeps
      BY <1>20 DEF Throw, work, buffers, Goto, Fault, Shape, TypeOK, Keeps, Budget, Holders
  <2> QED BY KeepsTokens
<1>21. ASSUME NEW l \in Loop, NEW c \in Contact, Begin(l, c) PROVE Tokens'
  <2> Keeps
      BY <1>21 DEF Begin, db, memory, buffers, history, Shape, TypeOK, Keeps, Budget, Holders
  <2> QED BY KeepsTokens
<1>22. ASSUME NEW l \in Loop, NEW c \in Contact, Arrive(l, c) PROVE Tokens'
  BY <1>22, ArriveTokens
<1>23. ASSUME NEW s \in Server, Run(s) PROVE Tokens'
  <2> Keeps
      BY <1>23
         DEF Run, work, buffers, history, Goto, Answer, Spawn, Shape, TypeOK, Keeps, Budget,
             Holders
  <2> QED BY KeepsTokens
<1>24. ASSUME NEW s \in Server, PauseWrite(s) PROVE Tokens'
  <2> Keeps
      BY <1>24
         DEF PauseWrite, work, buffers, history, Answer, Shape, TypeOK, Keeps, Budget,
             Holders
  <2> QED BY KeepsTokens
<1>25. ASSUME NEW s \in Server, RetryRows(s) PROVE Tokens'
  <2> Keeps
      BY <1>25
         DEF RetryRows, work, buffers, Requeue, OldBut, Answer, Shape, TypeOK, Keeps,
             Budget, Holders
  <2> QED BY KeepsTokens
<1>26. ASSUME NEW s \in Server, Recover(s) PROVE Tokens'
  <2> Keeps
      BY <1>26
         DEF Recover, work, buffers, Requeue, Queued, OldBut, Shape, TypeOK, Keeps, Budget,
             Holders
  <2> QED BY KeepsTokens
<1>27. ASSUME NEW s \in Server, RecoverRun(s) PROVE Tokens'
  <2> Keeps
      BY <1>27
         DEF RecoverRun, db, work, buffers, history, Goto, Spawn, Shape, TypeOK, Keeps,
             Budget, Holders
  <2> QED BY KeepsTokens
<1>28. ASSUME NEW s \in Server, RecoverClose(s) PROVE Tokens'
  <2> Keeps
      BY <1>28 DEF RecoverClose, work, buffers, history, Shape, TypeOK, Keeps, Budget, Holders
  <2> QED BY KeepsTokens
<1>29. ASSUME NEW s \in Server, Crash(s) PROVE Tokens'
  BY <1>29, CrashTokens
<1>30. ASSUME NEW s \in Server, StartRefused(s) PROVE Tokens'
  <2> Keeps
      BY <1>30
         DEF StartRefused, db, work, buffers, history, Shape, TypeOK, Keeps, Budget, Holders
  <2> QED BY KeepsTokens
<1>31. ASSUME NEW s \in Server, NEW kind \in Ops, Call(s, kind) PROVE Tokens'
  <2> Keeps
      BY <1>31 DEF Call, db, work, buffers, Shape, TypeOK, Keeps, Budget, Holders
  <2> QED BY KeepsTokens
<1>32. ASSUME NEW c \in Contact, GrowOld(c) PROVE Tokens'
  <2> Keeps
      BY <1>32 DEF GrowOld, memory, work, buffers, Fault, Shape, TypeOK, Keeps, Budget, Holders
  <2> QED BY KeepsTokens
<1>33. CASE UNCHANGED vars
  <2> Keeps
      BY <1>33
         DEF vars, db, memory, work, buffers, history, Shape, TypeOK, Keeps, Budget, Holders
  <2> QED BY KeepsTokens
<1> QED
        BY <1>1, <1>2, <1>3, <1>4, <1>5, <1>6, <1>7, <1>8, <1>9, <1>10, <1>11, <1>12, <1>13,
       <1>14, <1>15, <1>16, <1>17, <1>18, <1>19, <1>20, <1>21, <1>22, <1>23, <1>24, <1>25,
       <1>26, <1>27, <1>28, <1>29, <1>30, <1>31, <1>32, <1>33
       DEF Next, LoopStep, ServerStep

(* Any number of loops racing over one campaign sends a contact no more    *)
(* messages than its row was made claimable (SendsBounded).                *)
THEOREM SendsAreBounded == Spec => []SendsBounded
<1>1. Init => Tokens
  <2> SUFFICES ASSUME Init, NEW c \in Contact
               PROVE  messages[c] + Cardinality(Holders(c)) <= Budget(c)
      BY DEF Tokens
  <2>1. Holders(c) = {} /\ messages[c] = 0 /\ Budget(c) = 0
        BY DEF Init, Holders, Budget
  <2> QED BY <2>1, FS_EmptySet
<1>2. Shape /\ Tokens => SendsBounded
  <2> SUFFICES ASSUME Shape, Tokens, NEW c \in Contact PROVE messages[c] <= 1 + requeued[c]
      BY DEF SendsBounded
  <2> DEFINE n == Cardinality(Holders(c))
  <2>1. n \in Nat /\ messages[c] + n <= Budget(c)
        BY HoldersFinite DEF Tokens
  <2> HIDE DEF n
  <2> QED BY <2>1 DEF Budget, Shape, TypeOK
<1>3. Init /\ [][Next]_vars => []Shape
      BY ShapeInit, ShapeStep, PTL
<1> QED BY <1>1, <1>2, <1>3, TokensStep, PTL DEF Spec

-----------------------------------------------------------------------------
(* What f counts, added up.                                                *)
LEMMA PiecesFinite ==
  ASSUME NEW S, IsFiniteSet(S), NEW f \in [S -> Nat]
  PROVE  IsFiniteSet(Pieces(f)) /\ Cardinality(Pieces(f)) \in Nat
<1> DEFINE g == [x \in S |-> {x} \X (1 .. f[x])]
           T == {g[x] : x \in S}
<1>1. g \in Surjection(S, T)
  BY DEF Surjection
<1>2. IsFiniteSet(T)
  BY <1>1, FS_Surjection
<1>3. \A x \in S : IsFiniteSet(g[x])
  <2> TAKE x \in S
  <2>1. IsFiniteSet({x}) /\ IsFiniteSet(1 .. f[x])
    <3>1. 1 \in Int /\ f[x] \in Int
      OBVIOUS
    <3> QED BY <3>1, FS_Singleton, FS_Interval, Zenon
  <2> QED BY <2>1, FS_Product
<1>4. \A t \in T : IsFiniteSet(t)
  BY <1>3
<1>5. Pieces(f) = UNION T
  BY DEF Pieces
<1> HIDE DEF T
<1> QED BY <1>2, <1>4, <1>5, FS_UNION, FS_CardinalityType

LEMMA PieceOf ==
  ASSUME NEW S, NEW f \in [S -> Nat], NEW u
  PROVE  u \in Pieces(f) <=> \E x \in S : \E i \in 1 .. f[x] : u = <<x, i>>
BY DEF Pieces

(* Where all are as many or more, there are as many or more together.      *)
LEMMA MorePieces ==
  ASSUME NEW S, IsFiniteSet(S), NEW f \in [S -> Nat], NEW g \in [S -> Nat],
         \A x \in S : f[x] <= g[x]
  PROVE  Cardinality(Pieces(f)) <= Cardinality(Pieces(g))
<1>1. \A x \in S : 1 .. f[x] \subseteq 1 .. g[x]
  OBVIOUS
<1>2. Pieces(f) \subseteq Pieces(g)
  BY <1>1, PieceOf
<1> QED BY <1>2, PiecesFinite, FS_Subset

LEMMA OnePieceMore ==
  ASSUME NEW S, IsFiniteSet(S), NEW f \in [S -> Nat], NEW x \in S
  PROVE  Cardinality(Pieces([f EXCEPT ![x] = @ + 1])) = Cardinality(Pieces(f)) + 1
<1> DEFINE g == [f EXCEPT ![x] = @ + 1]
<1>1. g \in [S -> Nat] /\ g[x] = f[x] + 1 /\ \A y \in S : y # x => g[y] = f[y]
  OBVIOUS
<1> HIDE DEF g
<1>2. \A i : i \in 1 .. g[x] <=> i \in 1 .. f[x] \/ i = f[x] + 1
  BY <1>1
<1>3. \A u : u \in Pieces(g) <=> u \in Pieces(f) \/ u = <<x, f[x] + 1>>
  <2> TAKE u
  <2>1. u \in Pieces(g) <=> \E y \in S : \E i \in 1 .. g[y] : u = <<y, i>>
    BY <1>1, PieceOf
  <2>2. u \in Pieces(f) <=> \E y \in S : \E i \in 1 .. f[y] : u = <<y, i>>
    BY PieceOf
  <2> QED BY <1>1, <1>2, <2>1, <2>2
<1>4. Pieces(g) = Pieces(f) \cup {<<x, f[x] + 1>>}
  BY <1>3
<1>5. <<x, f[x] + 1>> \notin Pieces(f)
  <2>1. f[x] + 1 \notin 1 .. f[x]
    OBVIOUS
  <2> QED BY <2>1, PieceOf
<1>6. Cardinality(Pieces(g)) = Cardinality(Pieces(f)) + 1
  BY <1>4, <1>5, PiecesFinite, FS_AddElement
<1> QED BY <1>6 DEF g

LEMMA PiecesDropped ==
  ASSUME NEW S, IsFiniteSet(S), NEW f \in [S -> Nat], NEW x \in S
  PROVE  Cardinality(Pieces(f)) = Cardinality(Pieces([f EXCEPT ![x] = 0])) + f[x]
<1> DEFINE g == [f EXCEPT ![x] = 0]
           D == {x} \X (1 .. f[x])
<1>1. g \in [S -> Nat] /\ 1 .. g[x] = {} /\ \A y \in S : y # x => g[y] = f[y]
  OBVIOUS
<1> HIDE DEF g
<1>2. \A u : u \in Pieces(f) <=> u \in Pieces(g) \/ u \in D
  <2> TAKE u
  <2>1. u \in Pieces(g) <=> \E y \in S : \E i \in 1 .. g[y] : u = <<y, i>>
    BY <1>1, PieceOf
  <2>2. u \in Pieces(f) <=> \E y \in S : \E i \in 1 .. f[y] : u = <<y, i>>
    BY PieceOf
  <2>3. u \in D <=> \E i \in 1 .. f[x] : u = <<x, i>>
    OBVIOUS
  <2> HIDE DEF D
  <2> QED BY <1>1, <2>1, <2>2, <2>3
<1>3. Pieces(g) \cap D = {}
  BY <1>1, PieceOf
<1>4. IsFiniteSet(D) /\ Cardinality(D) = f[x]
  <2>1. /\ IsFiniteSet({x}) /\ Cardinality({x}) = 1
        /\ IsFiniteSet(1 .. f[x]) /\ Cardinality(1 .. f[x]) = f[x]
    <3>1. f[x] \in Nat
      OBVIOUS
    <3>2. f[x] < 1 => f[x] = 0
      BY <3>1
    <3>3. IsFiniteSet(1 .. f[x]) /\ Cardinality(1 .. f[x]) = IF 1 > f[x] THEN 0 ELSE f[x] - 1 + 1
      BY <3>1, FS_Interval
    <3>4. IsFiniteSet({x}) /\ Cardinality({x}) = 1
      BY FS_Singleton
    <3>5. Cardinality(1 .. f[x]) = f[x]
      BY <3>1, <3>2, <3>3
    <3> QED BY <3>3, <3>4, <3>5
  <2>2. IsFiniteSet(D) /\ Cardinality(D) = 1 * f[x]
    BY <2>1, FS_Product
  <2> QED BY <2>2
<1>5. Pieces(f) = Pieces(g) \cup D
  BY <1>2
<1>6. IsFiniteSet(Pieces(g)) /\ Cardinality(Pieces(g)) \in Nat
  BY <1>1, PiecesFinite
<1> HIDE DEF D
<1>7. Cardinality(Pieces(f)) = Cardinality(Pieces(g)) + Cardinality(D) - Cardinality({})
  BY <1>3, <1>4, <1>5, <1>6, FS_Union
<1>8. Cardinality(Pieces(f)) = Cardinality(Pieces(g)) + f[x]
  BY <1>4, <1>6, <1>7, FS_EmptySet
<1> QED BY <1>8 DEF g

-----------------------------------------------------------------------------
(* What was charged and what the loops have yet to charge was sent.        *)
PaidFromSent == charged + Cardinality(Pieces(count)) <= TotalMessages

(* Most steps send nothing and charge nothing; a loop that ends forgets    *)
(* what it had to charge.                                                  *)
Uncharged ==
  /\ charged' = charged
  /\ \A l \in Loop : count'[l] <= count[l]
  /\ \A c \in Contact : messages[c] <= messages'[c]

LEMMA UnchargedStep ==
  ASSUME Shape, Shape', PaidFromSent, Uncharged
  PROVE  PaidFromSent'
<1>1. /\ count \in [Loop -> Nat] /\ count' \in [Loop -> Nat] /\ charged \in Nat
      /\ messages \in [Contact -> Nat] /\ messages' \in [Contact -> Nat]
      /\ IsFiniteSet(Loop) /\ IsFiniteSet(Contact)
  BY CampaignAssumption DEF Shape, TypeOK
<1>2. /\ Cardinality(Pieces(count)) \in Nat /\ Cardinality(Pieces(count')) \in Nat
      /\ Cardinality(Pieces(messages)) \in Nat /\ Cardinality(Pieces(messages')) \in Nat
  BY <1>1, PiecesFinite
<1>3. /\ Cardinality(Pieces(count')) <= Cardinality(Pieces(count))
      /\ Cardinality(Pieces(messages)) <= Cardinality(Pieces(messages'))
  BY <1>1, MorePieces DEF Uncharged
<1>4. charged' + Cardinality(Pieces(count')) <= Cardinality(Pieces(messages'))
  BY <1>1, <1>2, <1>3 DEF PaidFromSent, TotalMessages, Uncharged
<1> QED BY <1>4 DEF PaidFromSent, TotalMessages, Pieces

LEMMA CountStep ==
  ASSUME Shape, PaidFromSent, NEW l \in Loop, Count(l)
  PROVE  PaidFromSent'
<1>1. /\ count \in [Loop -> Nat] /\ charged \in Nat /\ IsFiniteSet(Loop)
      /\ messages \in [Contact -> Nat] /\ IsFiniteSet(Contact)
  BY CampaignAssumption DEF Shape, TypeOK
<1>2. /\ charged' \in charged .. (charged + count[l]) /\ messages' = messages
      /\ count' = [count EXCEPT ![l] = 0]
  BY DEF Count
<1>3. Cardinality(Pieces(count)) = Cardinality(Pieces(count')) + count[l]
  BY <1>1, <1>2, PiecesDropped
<1>4. /\ Cardinality(Pieces(count)) \in Nat /\ Cardinality(Pieces(messages)) \in Nat
  BY <1>1, PiecesFinite
<1>5. count' \in [Loop -> Nat]
  BY <1>1, <1>2
<1>6. Cardinality(Pieces(count')) \in Nat
  BY <1>1, <1>5, PiecesFinite
<1>7. charged + Cardinality(Pieces(count)) <= Cardinality(Pieces(messages))
  BY DEF PaidFromSent, TotalMessages
<1>8. charged' \in Nat /\ charged' <= charged + count[l] /\ count[l] \in Nat
  BY <1>1, <1>2
<1>9. charged' + Cardinality(Pieces(count')) <= Cardinality(Pieces(messages))
  BY <1>1, <1>3, <1>4, <1>6, <1>7, <1>8
<1> QED BY <1>2, <1>9 DEF PaidFromSent, TotalMessages, Pieces

LEMMA ArriveStep ==
  ASSUME Shape, Shape', PaidFromSent, NEW l \in Loop, NEW c \in Contact, Arrive(l, c)
  PROVE  PaidFromSent'
<1>1. /\ count \in [Loop -> Nat] /\ charged \in Nat /\ IsFiniteSet(Loop)
      /\ messages \in [Contact -> Nat] /\ IsFiniteSet(Contact)
  BY CampaignAssumption DEF Shape, TypeOK
<1>2. CASE /\ messages' = [messages EXCEPT ![c] = @ + 1] /\ count' = [count EXCEPT ![l] = @ + 1]
           /\ charged' = charged
  <2>1. /\ Cardinality(Pieces(count')) = Cardinality(Pieces(count)) + 1
        /\ Cardinality(Pieces(messages')) = Cardinality(Pieces(messages)) + 1
    BY <1>1, <1>2, OnePieceMore
  <2>2. /\ Cardinality(Pieces(count)) \in Nat /\ Cardinality(Pieces(messages)) \in Nat
    BY <1>1, PiecesFinite
  <2>3. charged + Cardinality(Pieces(count)) <= Cardinality(Pieces(messages))
    BY DEF PaidFromSent, TotalMessages
  <2>4. charged' + Cardinality(Pieces(count')) <= Cardinality(Pieces(messages'))
    BY <1>1, <1>2, <2>1, <2>2, <2>3
  <2> QED BY <2>4 DEF PaidFromSent, TotalMessages, Pieces
<1>3. CASE Uncharged
  BY <1>3, UnchargedStep
<1> QED BY <1>1, <1>2, <1>3 DEF Arrive, Tallied, Uncharged

LEMMA PaidStep == Shape /\ Shape' /\ PaidFromSent /\ [Next]_vars => PaidFromSent'
<1> SUFFICES ASSUME Shape, Shape', PaidFromSent, [Next]_vars PROVE PaidFromSent'
    OBVIOUS
<1>1. ASSUME NEW l \in Loop, Enter(l) PROVE PaidFromSent'
  <2> Uncharged
      BY <1>1 DEF Enter, db, work, buffers, history, Goto, Shape, TypeOK, Uncharged
  <2> QED BY UnchargedStep
<1>2. ASSUME NEW l \in Loop, ResetQueued(l) PROVE PaidFromSent'
  <2> Uncharged
      BY <1>2
         DEF ResetQueued, memory, work, buffers, Goto, Requeue, Queued, OldBut, Shape,
             TypeOK, Uncharged
  <2> QED BY UnchargedStep
<1>3. ASSUME NEW l \in Loop, CheckStatus(l) PROVE PaidFromSent'
  <2> Uncharged
      BY <1>3
         DEF CheckStatus, db, memory, work, buffers, history, Goto, Shape, TypeOK, Uncharged
  <2> QED BY UnchargedStep
<1>4. ASSUME NEW l \in Loop, Claim(l) PROVE PaidFromSent'
  <2> Uncharged
      BY <1>4 DEF Claim, memory, buffers, Goto, Shape, TypeOK, Uncharged
  <2> QED BY UnchargedStep
<1>5. ASSUME NEW l \in Loop, ClaimNothing(l) PROVE PaidFromSent'
  <2> Uncharged
      BY <1>5
         DEF ClaimNothing, db, memory, work, buffers, history, Goto, Shape, TypeOK, Uncharged
  <2> QED BY UnchargedStep
<1>6. ASSUME NEW l \in Loop, Halt(l) PROVE PaidFromSent'
  <2> Uncharged
      BY <1>6
         DEF Halt, db, memory, buffers, history, Goto, Shape, TypeOK, Uncharged
  <2> QED BY UnchargedStep
<1>7. ASSUME NEW l \in Loop, HaltDone(l) PROVE PaidFromSent'
  <2> Uncharged
      BY <1>7
         DEF HaltDone, db, memory, work, buffers, history, Goto, AfterHalt, Shape, TypeOK,
             Uncharged
  <2> QED BY UnchargedStep
<1>8. ASSUME NEW l \in Loop, BatchDone(l) PROVE PaidFromSent'
  <2> Uncharged
      BY <1>8
         DEF BatchDone, db, memory, work, buffers, history, Goto, Shape, TypeOK, Uncharged
  <2> QED BY UnchargedStep
<1>9. ASSUME NEW l \in Loop, Flush(l) PROVE PaidFromSent'
  <2> Uncharged
      BY <1>9
         DEF Flush, memory, work, history, WriteOutcomes, Written, OldBut, Shape, TypeOK,
             Uncharged
  <2> QED BY UnchargedStep
<1>10. ASSUME NEW l \in Loop, AutoPauseFlush(l) PROVE PaidFromSent'
  <2> Uncharged
      BY <1>10
         DEF AutoPauseFlush, memory, history, Goto, WriteOutcomes, Written, OldBut, Shape,
             TypeOK, Uncharged
  <2> QED BY UnchargedStep
<1>11. ASSUME NEW l \in Loop, Exit(l) PROVE PaidFromSent'
  <2> Uncharged
      BY <1>11 DEF Exit, db, memory, work, history, Goto, Shape, TypeOK, Uncharged
  <2> QED BY UnchargedStep
<1>12. ASSUME NEW l \in Loop, FinalFlush(l) PROVE PaidFromSent'
  <2> Uncharged
      BY <1>12
         DEF FinalFlush, memory, work, history, Goto, WriteOutcomes, Written, OldBut, Shape,
             TypeOK, Uncharged
  <2> QED BY UnchargedStep
<1>13. ASSUME NEW l \in Loop, Count(l) PROVE PaidFromSent'
  BY <1>13, CountStep
<1>14. ASSUME NEW l \in Loop, ReadLatest(l) PROVE PaidFromSent'
  <2> Uncharged
      BY <1>14
         DEF ReadLatest, db, memory, work, buffers, history, Goto, Shape, TypeOK, Uncharged
  <2> QED BY UnchargedStep
<1>15. ASSUME NEW l \in Loop, Complete(l) PROVE PaidFromSent'
  <2> Uncharged
      BY <1>15
         DEF Complete, memory, work, buffers, history, Goto, Shape, TypeOK, Uncharged
  <2> QED BY UnchargedStep
<1>16. ASSUME NEW l \in Loop, Leave(l) PROVE PaidFromSent'
  <2> Uncharged
      BY <1>16 DEF Leave, db, Goto, Freed, Shape, TypeOK, Uncharged
  <2> QED BY UnchargedStep
<1>17. ASSUME NEW l \in Loop, OrphanEnds(l) PROVE PaidFromSent'
  <2> Uncharged
      BY <1>17 DEF OrphanEnds, db, memory, Goto, Freed, Shape, TypeOK, Uncharged
  <2> QED BY UnchargedStep
<1>18. ASSUME NEW l \in Loop, Refuse(l) PROVE PaidFromSent'
  <2> Uncharged
      BY <1>18
         DEF Refuse, memory, work, buffers, Goto, Fault, Shape, TypeOK, Uncharged
  <2> QED BY UnchargedStep
<1>19. ASSUME NEW l \in Loop, AutoPause(l) PROVE PaidFromSent'
  <2> Uncharged
      BY <1>19
         DEF AutoPause, memory, work, buffers, Goto, Fault, Shape, TypeOK, Uncharged
  <2> QED BY UnchargedStep
<1>20. ASSUME NEW l \in Loop, Throw(l) PROVE PaidFromSent'
  <2> Uncharged
      BY <1>20 DEF Throw, work, buffers, Goto, Fault, Shape, TypeOK, Uncharged
  <2> QED BY UnchargedStep
<1>21. ASSUME NEW l \in Loop, NEW c \in Contact, Begin(l, c) PROVE PaidFromSent'
  <2> Uncharged
      BY <1>21 DEF Begin, db, memory, buffers, history, Shape, TypeOK, Uncharged
  <2> QED BY UnchargedStep
<1>22. ASSUME NEW l \in Loop, NEW c \in Contact, Arrive(l, c) PROVE PaidFromSent'
  BY <1>22, ArriveStep
<1>23. ASSUME NEW s \in Server, Run(s) PROVE PaidFromSent'
  <2> Uncharged
      BY <1>23
         DEF Run, work, buffers, history, Goto, Answer, Spawn, Shape, TypeOK, Uncharged
  <2> QED BY UnchargedStep
<1>24. ASSUME NEW s \in Server, PauseWrite(s) PROVE PaidFromSent'
  <2> Uncharged
      BY <1>24
         DEF PauseWrite, work, buffers, history, Answer, Shape, TypeOK, Uncharged
  <2> QED BY UnchargedStep
<1>25. ASSUME NEW s \in Server, RetryRows(s) PROVE PaidFromSent'
  <2> Uncharged
      BY <1>25
         DEF RetryRows, work, buffers, Requeue, OldBut, Answer, Shape, TypeOK, Uncharged
  <2> QED BY UnchargedStep
<1>26. ASSUME NEW s \in Server, Recover(s) PROVE PaidFromSent'
  <2> Uncharged
      BY <1>26
         DEF Recover, work, buffers, Requeue, Queued, OldBut, Shape, TypeOK, Uncharged
  <2> QED BY UnchargedStep
<1>27. ASSUME NEW s \in Server, RecoverRun(s) PROVE PaidFromSent'
  <2> Uncharged
      BY <1>27
         DEF RecoverRun, db, work, buffers, history, Goto, Spawn, Shape, TypeOK, Uncharged
  <2> QED BY UnchargedStep
<1>28. ASSUME NEW s \in Server, RecoverClose(s) PROVE PaidFromSent'
  <2> Uncharged
      BY <1>28 DEF RecoverClose, work, buffers, history, Shape, TypeOK, Uncharged
  <2> QED BY UnchargedStep
<1>29. ASSUME NEW s \in Server, Crash(s) PROVE PaidFromSent'
  <2>1. \A c \in Contact : messages[c] <= messages'[c]
    <3>1. messages \in [Contact -> Nat]
      BY DEF Shape, TypeOK
    <3> SUFFICES ASSUME NEW c \in Contact PROVE messages[c] <= messages'[c]
      OBVIOUS
    <3>2. PICK got \in SUBSET (Loop \X Contact) :
            LET R == {l \in Loop : <<l, c>> \in got}
            IN  Cardinality(R) \in Nat /\ messages'[c] = messages[c] + Cardinality(R)
      BY <1>29, Reached
    <3> DEFINE n == Cardinality({l \in Loop : <<l, c>> \in got})
    <3>3. n \in Nat /\ messages'[c] = messages[c] + n /\ messages[c] \in Nat
      BY <3>1, <3>2
    <3> HIDE DEF n
    <3> QED BY <3>3
  <2>2. charged' = charged /\ \A l \in Loop : count'[l] <= count[l]
    BY <1>29 DEF Crash, Shape, TypeOK
  <2>3. Uncharged
    BY <2>1, <2>2 DEF Uncharged
  <2> QED BY <2>3, UnchargedStep
<1>30. ASSUME NEW s \in Server, StartRefused(s) PROVE PaidFromSent'
  <2> Uncharged
      BY <1>30
         DEF StartRefused, db, work, buffers, history, Shape, TypeOK, Uncharged
  <2> QED BY UnchargedStep
<1>31. ASSUME NEW s \in Server, NEW kind \in Ops, Call(s, kind) PROVE PaidFromSent'
  <2> Uncharged
      BY <1>31 DEF Call, db, work, buffers, Shape, TypeOK, Uncharged
  <2> QED BY UnchargedStep
<1>32. ASSUME NEW c \in Contact, GrowOld(c) PROVE PaidFromSent'
  <2> Uncharged
      BY <1>32 DEF GrowOld, memory, work, buffers, Fault, Shape, TypeOK, Uncharged
  <2> QED BY UnchargedStep
<1>33. CASE UNCHANGED vars
  <2> Uncharged
      BY <1>33
         DEF vars, db, memory, work, buffers, history, Shape, TypeOK, Uncharged
  <2> QED BY UnchargedStep
<1> QED
        BY <1>1, <1>2, <1>3, <1>4, <1>5, <1>6, <1>7, <1>8, <1>9, <1>10, <1>11, <1>12, <1>13,
       <1>14, <1>15, <1>16, <1>17, <1>18, <1>19, <1>20, <1>21, <1>22, <1>23, <1>24, <1>25,
       <1>26, <1>27, <1>28, <1>29, <1>30, <1>31, <1>32, <1>33
       DEF Next, LoopStep, ServerStep

(* However loops overlap, stop and crash, no more is charged than was sent *)
(* (ChargedAtMostSent).                                                    *)
THEOREM NeverOvercharged == Spec => []ChargedAtMostSent
<1>1. Init => PaidFromSent
  <2> SUFFICES ASSUME Init PROVE PaidFromSent
    OBVIOUS
  <2>1. \A l \in Loop : 1 .. count[l] = {}
    BY DEF Init
  <2>2. count \in [Loop -> Nat] /\ messages \in [Contact -> Nat]
    BY DEF Init
  <2>3. Pieces(count) = {}
    BY <2>1, <2>2, PieceOf
  <2>4. Cardinality(Pieces(messages)) \in Nat
    BY <2>2, PiecesFinite, CampaignAssumption
  <2>5. Cardinality(Pieces(count)) = 0 /\ charged = 0
    BY <2>3, FS_EmptySet DEF Init
  <2>6. charged + Cardinality(Pieces(count)) <= Cardinality(Pieces(messages))
    BY <2>4, <2>5
  <2> QED BY <2>6 DEF PaidFromSent, TotalMessages
<1>2. Shape /\ PaidFromSent => ChargedAtMostSent
  <2> SUFFICES ASSUME Shape, PaidFromSent PROVE charged <= TotalMessages
    BY DEF ChargedAtMostSent
  <2>1. /\ Cardinality(Pieces(count)) \in Nat /\ Cardinality(Pieces(messages)) \in Nat
    BY PiecesFinite, CampaignAssumption DEF Shape, TypeOK
  <2>2. charged \in Nat
    BY DEF Shape, TypeOK
  <2> QED BY <2>1, <2>2 DEF PaidFromSent, TotalMessages
<1>3. Init /\ [][Next]_vars => []Shape
      BY ShapeInit, ShapeStep, PTL
<1> QED BY <1>1, <1>2, <1>3, PaidStep, PTL DEF Spec

==============================================================================
