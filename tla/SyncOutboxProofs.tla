-------------------------- MODULE SyncOutboxProofs --------------------------
(***************************************************************************)
(* What is true of SyncOutbox for all sets of things, states and runs, all *)
(* bounds and all faults.                                                  *)
(***************************************************************************)
EXTENDS SyncOutbox, FiniteSetTheorems, TLAPS

(* A batch is claimed only while there are attempts and batches left. *)
AttemptsLeft == \A t \in Thing : row[t].status = "PENDING" => row[t].attempts < MaxAttempts

BatchesLeft == \A r \in Run :
  /\ pc[r] \in {"idle", "started", "find", "upsert"} => batches[r] = 0
  /\ pc[r] = "claim" => batches[r] < MaxBatches

(* What a run is working on exists. *)
AtWork == \A r \in Run :
  /\ pc[r] = "upsert" => item[r] \in Thing /\ got[r][item[r]] # Nothing
  /\ \A t \in Thing : reply[r][t] # "none" => row[t].status # "none"

Bounds == TypeOK /\ AttemptsLeft /\ BatchesLeft /\ AtWork

LEMMA BoundsInit == Init => Bounds
BY SyncAssumption DEF Init, Bounds, TypeOK, AttemptsLeft, BatchesLeft, AtWork, Each, NoRow, State,
   Row, Replies, Thing, Run

LEMMA PayloadsType ==
  ASSUME TypeOK, NEW r \in Run, NEW things, Payloads(r, things)
  PROVE  /\ got' \in [Run -> [Thing -> State]]
         /\ \A q \in Run : q # r => got'[q] = got[q]
         /\ \A t \in Thing : got'[r][t] = IF t \in things THEN source[t] ELSE Nothing
<1> DEFINE f == [t \in Thing |-> IF t \in things THEN source[t] ELSE Nothing]
<1>1. f \in [Thing -> State]
      BY DEF TypeOK, State
<1>2. got' = [got EXCEPT ![r] = f]
      BY DEF Payloads
<1> HIDE DEF f
<1>3. got' \in [Run -> [Thing -> State]] /\ got'[r] = f /\ \A q \in Run : q # r => got'[q] = got[q]
      BY <1>1, <1>2 DEF TypeOK
<1> QED BY <1>3 DEF f

LEMMA EachType ==
  /\ Each(Nothing) \in [Thing -> State] /\ Each(0) \in [Thing -> 0 .. MaxAttempts - 1]
  /\ Each("none") \in [Thing -> Replies] /\ \A t \in Thing : Each("none")[t] = "none"
BY SyncAssumption DEF Each, State, Replies

(* What TeamOS holds once it has handled a batch. *)
LEMMA AppliedType ==
  ASSUME TypeOK, NEW r \in Run, NEW refused, Apply(r, refused)
  PROVE  /\ teamos' \in [Thing -> State]
         /\ \A t \in Thing : teamos'[t] = IF t \in Taken(r, refused) THEN sent[r][t] ELSE teamos[t]
BY DEF Apply, TypeOK

(* An answer gives each event of the batch a result, and others none. *)
LEMMA AnswerReplies ==
  ASSUME TypeOK, NEW r \in Run, Answer(r)
  PROVE  \E w \in [Thing -> Replies] :
           /\ reply' = [reply EXCEPT ![r] = w]
           /\ \A t \in Thing : w[t] # "none" => reply[r][t] # "none"
<1>1. ASSUME NEW refused
      PROVE  /\ Results(r, refused) \in [Thing -> Replies]
             /\ \A t \in Thing : Results(r, refused)[t] # "none" => reply[r][t] # "none"
      BY DEF Results, Replies, Batch
<1>2. ASSUME NEW refused, NEW t \in Batch(r)
      PROVE  LET w == [Results(r, refused) EXCEPT ![t] = "retry"] IN
             w \in [Thing -> Replies] /\ \A u \in Thing : w[u] # "none" => reply[r][u] # "none"
      BY <1>1 DEF Replies, Batch
<1>3. ASSUME NEW answer \in {"retry", "never"}
      PROVE  /\ AllGet(r, answer) \in [Thing -> Replies]
             /\ \A t \in Thing : AllGet(r, answer)[t] # "none" => reply[r][t] # "none"
      BY DEF AllGet, Replies, Batch
<1>4. \/ \E refused : reply' = [reply EXCEPT ![r] = Results(r, refused)]
      \/ \E refused : \E t \in Batch(r) :
            reply' = [reply EXCEPT ![r] = [Results(r, refused) EXCEPT ![t] = "retry"]]
      \/ \E answer \in {"retry", "never"} : reply' = [reply EXCEPT ![r] = AllGet(r, answer)]
  <2>1. CASE reply' = [reply EXCEPT ![r] = Results(r, {})]
        BY <2>1
  <2>2. CASE \E t \in Batch(r) : reply' = [reply EXCEPT ![r] = Results(r, {t})]
        BY <2>2
  <2>3. CASE \E t \in Batch(r) : \E refused \in {{}, {t}} :
               reply' = [reply EXCEPT ![r] = [Results(r, refused) EXCEPT ![t] = "retry"]]
        BY <2>3
  <2>4. CASE \E answer \in {"retry", "never"} : reply' = [reply EXCEPT ![r] = AllGet(r, answer)]
        BY <2>4
  <2> QED BY <2>1, <2>2, <2>3, <2>4 DEF Answer, Unreadable
<1> QED BY <1>1, <1>2, <1>3, <1>4

LEMMA BoundsStep == Bounds /\ [Next]_vars => Bounds'
<1> SUFFICES ASSUME Bounds, [Next]_vars PROVE Bounds'
    OBVIOUS
<1> USE DEF Bounds
<1>1. ASSUME NEW t \in Thing, Commit(t) PROVE Bounds'
  <2>1. source' \in [Thing -> State] /\ writing' \in [Thing -> State]
        BY <1>1 DEF Commit, TypeOK, State
  <2>2. UNCHANGED <<changes, window, outbox, teamos, lease, pc, reading, sending, faults, past>>
        BY <1>1 DEF Commit
  <2>3. TypeOK'
        BY <2>1, <2>2 DEF TypeOK, window, outbox, reading, sending, past
  <2>4. (AttemptsLeft /\ BatchesLeft /\ AtWork)'
        BY <2>2 DEF AttemptsLeft, BatchesLeft, AtWork, window, outbox, reading, sending
  <2> QED BY <2>3, <2>4
<1>2. ASSUME NEW t \in Thing, BackOff(t) PROVE Bounds'
  <2>1. row' = [row EXCEPT ![t].due = "now"]
        BY <1>2 DEF BackOff
  <2>2. row' \in [Thing -> Row]
        BY <2>1 DEF TypeOK, Row
  <2>3. \A u \in Thing : /\ row'[u].status = row[u].status /\ row'[u].value = row[u].value
                         /\ row'[u].attempts = row[u].attempts
        BY <2>1 DEF TypeOK, Row
  <2>4. UNCHANGED <<database, window, born, teamos, lease, pc, reading, sending, faults, past>>
        BY <1>2 DEF BackOff
  <2>5. TypeOK'
        BY <2>2, <2>3, <2>4 DEF TypeOK, database, window, reading, sending, past
  <2>6. (AttemptsLeft /\ BatchesLeft /\ AtWork)'
        BY <2>3, <2>4 DEF AttemptsLeft, BatchesLeft, AtWork, window, reading, sending
  <2> QED BY <2>5, <2>6
<1>3. ASSUME NEW t \in Thing, NEW v \in Value, Stamp(t, v) PROVE Bounds'
  <2>1. changes' \in 0 .. MaxChanges /\ writing' \in [Thing -> State]
        BY <1>3, SyncAssumption DEF Stamp, TypeOK, State
  <2>2. fresh' \subseteq Money /\ history' \subseteq Money /\ since' \in [Run -> SUBSET Money]
    <3>1. CASE t \in Money
      <4>1. /\ fresh' = IF cursor = "set" THEN fresh \cup {t} ELSE fresh
            /\ since' = [q \in Run |-> IF Projecting(q) THEN since[q] \cup {t} ELSE {}]
            /\ history' = history \ {t}
            BY <1>3, <3>1 DEF Stamp
      <4>2. \A q \in Run : (IF Projecting(q) THEN since[q] \cup {t} ELSE {}) \in SUBSET Money
            BY <3>1 DEF TypeOK
      <4>3. since' \in [Run -> SUBSET Money]
            BY <4>1, <4>2
      <4>4. fresh' \subseteq Money /\ history' \subseteq Money
            BY <3>1, <4>1 DEF TypeOK
      <4> QED BY <4>3, <4>4
    <3>2. CASE t \notin Money
          BY <1>3, <3>2 DEF Stamp, TypeOK
    <3> QED BY <3>1, <3>2
  <2>3. UNCHANGED <<source, cursor, outbox, teamos, lease, pc, writes, got, item, sending, faults, past>>
        BY <1>3 DEF Stamp
  <2>4. TypeOK'
        BY <2>1, <2>2, <2>3 DEF TypeOK, outbox, sending, past
  <2>5. (AttemptsLeft /\ BatchesLeft /\ AtWork)'
        BY <2>3 DEF AttemptsLeft, BatchesLeft, AtWork, outbox, sending
  <2> QED BY <2>4, <2>5
<1>4. ASSUME NEW r \in Run, Start(r) PROVE Bounds'
  <2>1. /\ lease' \in Scheduled \cup {Nothing} /\ since' \in [Run -> SUBSET Money]
        /\ pc' = [pc EXCEPT ![r] = "started"] /\ pc[r] = "idle"
        BY <1>4 DEF Start, Goes, Lookback, TypeOK, Run
  <2>2. UNCHANGED <<database, window, outbox, teamos, writes, got, item, sending, faults, past>>
        BY <1>4 DEF Start
  <2>3. TypeOK'
        BY <2>1, <2>2 DEF TypeOK, database, window, outbox, sending, past
  <2>4. (AttemptsLeft /\ BatchesLeft /\ AtWork)'
        BY <2>1, <2>2 DEF TypeOK, AttemptsLeft, BatchesLeft, AtWork, outbox, sending
  <2> QED BY <2>3, <2>4
<1>5. ASSUME NEW r \in Run, Project(r) PROVE Bounds'
  <2>1. /\ cursor' \in {"unset", "set"} /\ fresh' \subseteq Money /\ history' \subseteq Money
        /\ writes' \in [Run -> {"cursor", "nothing"}]
    <3>1. CASE cursor = "unset"
          BY <1>5, <3>1 DEF Project, TypeOK
    <3>2. CASE cursor # "unset"
          BY <1>5, <3>2 DEF Project, TypeOK, window
    <3> QED BY <3>1, <3>2
  <2>2. got' \in [Run -> [Thing -> State]] /\ \A q \in Run : q # r => got'[q] = got[q]
        BY <1>5, PayloadsType DEF Project
  <2>3. /\ UNCHANGED <<database, outbox, teamos, lease, since, item, sending, faults, past>>
        /\ pc' = [pc EXCEPT ![r] = "find"] /\ pc[r] = "started"
        BY <1>5 DEF Project, Goes
  <2>5. TypeOK'
        BY <2>1, <2>2, <2>3 DEF TypeOK, database, outbox, sending, past
  <2>6. (AttemptsLeft /\ BatchesLeft /\ AtWork)'
        BY <2>2, <2>3 DEF TypeOK, AttemptsLeft, BatchesLeft, AtWork, outbox, sending
  <2> QED BY <2>5, <2>6
<1>6. ASSUME NEW r \in Run, Chunk(r) PROVE Bounds'
  <2>1. got' \in [Run -> [Thing -> State]] /\ \A q \in Run : q # r => got'[q] = got[q]
        BY <1>6, PayloadsType DEF Chunk
  <2>2. /\ UNCHANGED <<database, window, outbox, teamos, lease, writes, item, sending, faults, past>>
        /\ pc' = [pc EXCEPT ![r] = "find"] /\ pc[r] = "idle" /\ since' \in [Run -> SUBSET Money]
        BY <1>6 DEF Chunk, Goes, Lookback, TypeOK
  <2>3. TypeOK'
        BY <2>1, <2>2 DEF TypeOK, database, window, outbox, sending, past
  <2>4. (AttemptsLeft /\ BatchesLeft /\ AtWork)'
        BY <2>1, <2>2 DEF TypeOK, AttemptsLeft, BatchesLeft, AtWork, outbox, sending
  <2> QED BY <2>3, <2>4
<1>7. ASSUME NEW r \in Run, NEW t \in Thing, Find(r, t) PROVE Bounds'
  <2>1. /\ pc[r] = "find" /\ got[r][t] # Nothing
        /\ UNCHANGED <<database, window, outbox, teamos, lease, since, writes, sending, faults, past>>
        BY <1>7 DEF Find
  <2>2. CASE Same(t, got[r][t])
    <3>1. got' = [got EXCEPT ![r][t] = Nothing] /\ UNCHANGED <<pc, item>>
          BY <1>7, <2>2 DEF Find
    <3>2. got' \in [Run -> [Thing -> State]] /\ \A q \in Run : q # r => got'[q] = got[q]
          BY <3>1 DEF TypeOK, State
    <3>3. TypeOK'
          BY <2>1, <3>1, <3>2 DEF TypeOK, database, window, outbox, sending, past
    <3>4. (AttemptsLeft /\ BatchesLeft /\ AtWork)'
          BY <2>1, <3>1, <3>2 DEF AttemptsLeft, BatchesLeft, AtWork, outbox, sending
    <3> QED BY <3>3, <3>4
  <2>3. CASE ~ Same(t, got[r][t])
    <3>1. /\ pc' = [pc EXCEPT ![r] = "upsert"] /\ item' = [item EXCEPT ![r] = t]
          /\ UNCHANGED got
          BY <1>7, <2>3 DEF Find
    <3>2. TypeOK'
          BY <2>1, <3>1 DEF TypeOK, database, window, outbox, sending, past
    <3>3. (AttemptsLeft /\ BatchesLeft /\ AtWork)'
          BY <2>1, <3>1 DEF TypeOK, AttemptsLeft, BatchesLeft, AtWork, outbox, sending
    <3> QED BY <3>2, <3>3
  <2> QED BY <2>2, <2>3
<1>8. ASSUME NEW r \in Run, Upsert(r) PROVE Bounds'
  <2> DEFINE t == item[r]
  <2>1. /\ t \in Thing /\ got[r][t] \in Value /\ pc[r] = "upsert"
        BY <1>8 DEF Upsert, Goes, AtWork, TypeOK, State
  <2>2. /\ row' = [row EXCEPT ![t] = Queued(t, got[r][t])]
        /\ born' = IF born[t] > 0 THEN born
                   ELSE [born EXCEPT ![t] = 1 + Cardinality({u \in Thing : born[u] > 0})]
        /\ got' = [got EXCEPT ![r][t] = Nothing] /\ item' = [item EXCEPT ![r] = Nothing]
        /\ pc' = [pc EXCEPT ![r] = "find"]
        /\ replaced' \subseteq Thing /\ behind' \subseteq Money
        /\ UNCHANGED <<database, window, teamos, lease, since, writes, sending, faults>>
        BY <1>8, <2>1 DEF Upsert, Goes, OutOfDate, TypeOK
  <2>3. /\ row' \in [Thing -> Row] /\ row'[t].status = "PENDING" /\ row'[t].value # Nothing
        /\ row'[t].attempts = 0 /\ \A u \in Thing : u # t => row'[u] = row[u]
        BY <2>1, <2>2, SyncAssumption DEF Queued, TypeOK, Row, State
  <2>4. Cardinality({u \in Thing : born[u] > 0}) \in Nat
        BY SyncAssumption, FS_Subset, FS_CardinalityType
  <2>5. /\ born' \in [Thing -> Nat] /\ born'[t] # 0
        /\ \A u \in Thing : u # t => born'[u] = born[u]
        BY <2>1, <2>2, <2>4 DEF TypeOK
  <2>6. /\ got' \in [Run -> [Thing -> State]] /\ item' \in [Run -> Thing \cup {Nothing}]
        /\ \A q \in Run : q # r => got'[q] = got[q] /\ item'[q] = item[q]
        BY <2>2 DEF TypeOK, State
  <2>7. TypeOK'
    <3>1. pc' \in [Run -> {"idle", "started", "find", "upsert", "claim", "sent", "answered", "release"}]
          BY <2>2 DEF TypeOK
    <3>2. \A u \in Thing : /\ row'[u].status = "none" <=> row'[u].value = Nothing
                           /\ row'[u].status = "none" <=> born'[u] = 0
      <4> HIDE DEF t
      <4>1. \A u \in Thing : row[u].status = "none" <=> row[u].value = Nothing
            BY DEF TypeOK
      <4>2. \A u \in Thing : row[u].status = "none" <=> born[u] = 0
            BY DEF TypeOK
      <4> QED BY <2>3, <2>5, <4>1, <4>2
    <3> QED BY <2>2, <2>3, <2>5, <2>6, <3>1, <3>2 DEF TypeOK, database, window, sending
  <2>8. (AttemptsLeft /\ BatchesLeft /\ AtWork)'
        BY <2>1, <2>2, <2>3, <2>6, SyncAssumption DEF TypeOK, AttemptsLeft, BatchesLeft, AtWork, sending
  <2> QED BY <2>7, <2>8
<1>9. ASSUME NEW r \in Run, WriteCursor(r) PROVE Bounds'
  <2>1. /\ fresh' \subseteq Money /\ writes' \in [Run -> {"cursor", "nothing"}]
        /\ since' \in [Run -> SUBSET Money]
        BY <1>9 DEF WriteCursor, TypeOK
  <2>2. /\ UNCHANGED <<database, cursor, history, outbox, teamos, lease, got, item, sending, faults, past>>
        /\ pc' = [pc EXCEPT ![r] = "claim"] /\ pc[r] = "find"
        BY <1>9 DEF WriteCursor, Goes
  <2>3. TypeOK'
        BY <2>1, <2>2 DEF TypeOK, database, outbox, sending, past
  <2>4. (AttemptsLeft /\ BatchesLeft /\ AtWork)'
        BY <2>2, SyncAssumption DEF TypeOK, AttemptsLeft, BatchesLeft, AtWork, outbox, sending
  <2> QED BY <2>3, <2>4
<1>10. ASSUME NEW r \in Run, Claim(r) PROVE Bounds'
  <2> DEFINE batch == Oldest(Due)
  <2>1. batch \subseteq Thing /\ \A t \in batch : row[t].status = "PENDING"
        BY DEF Oldest, Due
  <2>2. /\ UNCHANGED <<database, window, outbox, teamos, lease, reading, faults, past>>
        /\ pc[r] = "claim"
        BY <1>10 DEF Claim
  <2>3. CASE batch = {}
    <3>1. pc' = [pc EXCEPT ![r] = "release"] /\ UNCHANGED sending
          BY <1>10, <2>3 DEF Claim
    <3>2. TypeOK'
          BY <2>2, <3>1 DEF TypeOK, database, window, outbox, reading, sending, past
    <3>3. (AttemptsLeft /\ BatchesLeft /\ AtWork)'
          BY <2>2, <3>1 DEF TypeOK, AttemptsLeft, BatchesLeft, AtWork, outbox, reading, sending
    <3> QED BY <3>2, <3>3
  <2>4. CASE batch # {}
    <3> DEFINE s == [t \in Thing |-> IF t \in batch THEN row[t].value ELSE Nothing]
               a == [t \in Thing |-> IF t \in batch THEN row[t].attempts ELSE 0]
               w == [t \in Thing |-> IF t \in batch THEN "sent" ELSE "none"]
    <3>1. /\ pc' = [pc EXCEPT ![r] = "sent"] /\ sent' = [sent EXCEPT ![r] = s]
          /\ tries' = [tries EXCEPT ![r] = a] /\ reply' = [reply EXCEPT ![r] = w]
          /\ batches' = [batches EXCEPT ![r] = @ + 1]
          BY <1>10, <2>4 DEF Claim
    <3>2. s \in [Thing -> State] /\ w \in [Thing -> Replies]
          BY <2>1 DEF TypeOK, Row, State, Replies
    <3>3. \A t \in batch : row[t].attempts \in 0 .. MaxAttempts - 1
          BY <2>1, SyncAssumption DEF TypeOK, Row, AttemptsLeft
    <3>4. a \in [Thing -> 0 .. MaxAttempts - 1]
          BY <3>3, SyncAssumption
    <3>5. batches[r] + 1 \in 0 .. MaxBatches
          BY <2>2, SyncAssumption DEF TypeOK, BatchesLeft
    <3>6. \A t \in Thing : w[t] # "none" => row[t].status # "none"
          BY <2>1
    <3> HIDE DEF s, a, w
    <3>7. TypeOK'
          BY <2>2, <3>1, <3>2, <3>4, <3>5 DEF TypeOK, database, window, outbox, reading, past
    <3>8. (AttemptsLeft /\ BatchesLeft /\ AtWork)'
          BY <2>2, <3>1, <3>6 DEF TypeOK, AttemptsLeft, BatchesLeft, AtWork, outbox, reading
    <3> QED BY <3>7, <3>8
  <2> QED BY <2>3, <2>4
<1>11. ASSUME NEW r \in Run, Answer(r) PROVE Bounds'
  <2>1. /\ UNCHANGED <<database, window, outbox, lease, reading, tries, batches, past>>
        /\ pc' = [pc EXCEPT ![r] = "answered"] /\ pc[r] = "sent" /\ faults' \in 0 .. MaxFaults
        BY <1>11, SyncAssumption DEF Answer, Goes, Fault, TypeOK
  <2>2. teamos' \in [Thing -> State]
        BY <1>11, AppliedType DEF Answer, TypeOK
  <2>3. PICK w \in [Thing -> Replies] :
          /\ reply' = [reply EXCEPT ![r] = w]
          /\ \A t \in Thing : w[t] # "none" => reply[r][t] # "none"
        BY <1>11, AnswerReplies
  <2>4. sent' \in [Run -> [Thing -> State]]
        BY <1>11, EachType DEF Answer, TypeOK
  <2>5. TypeOK'
        BY <2>1, <2>2, <2>3, <2>4 DEF TypeOK, database, window, outbox, reading, past
  <2>6. (AttemptsLeft /\ BatchesLeft /\ AtWork)'
        BY <2>1, <2>3 DEF TypeOK, AttemptsLeft, BatchesLeft, AtWork, outbox, reading
  <2> QED BY <2>5, <2>6
<1>12. ASSUME NEW r \in Run, NEW t \in Thing, MarkFailed(r, t) PROVE Bounds'
  <2>1. /\ row' = [row EXCEPT ![t] =
                     [status |-> IF Parked(r, t) THEN "DEAD" ELSE "PENDING",
                      value |-> row[t].value, attempts |-> tries[r][t] + 1, due |-> "later"]]
        /\ reply' = [reply EXCEPT ![r][t] = "noted"] /\ reply[r][t] # "none"
        /\ UNCHANGED <<database, window, born, teamos, lease, pc, reading, sent, tries, batches, faults, past>>
        BY <1>12 DEF MarkFailed
  <2>2. tries[r][t] + 1 \in 0 .. MaxAttempts /\ (~ Parked(r, t) => tries[r][t] + 1 < MaxAttempts)
        BY SyncAssumption DEF TypeOK, Parked
  <2>3. row[t].status # "none" /\ row[t].value \in State /\ row[t].value # Nothing
        BY <2>1 DEF AtWork, TypeOK, Row
  <2>4. /\ row' \in [Thing -> Row] /\ row'[t].value = row[t].value
        /\ row'[t].status # "none" /\ row'[t].attempts = tries[r][t] + 1
        /\ (row'[t].status = "PENDING" => ~ Parked(r, t))
        /\ \A u \in Thing : u # t => row'[u] = row[u]
        BY <2>1, <2>2, <2>3 DEF TypeOK, Row
  <2>5. reply' \in [Run -> [Thing -> Replies]]
        BY <2>1 DEF TypeOK, Replies
  <2>6. \A q \in Run, u \in Thing : reply'[q][u] # "none" => reply[q][u] # "none"
        BY <2>1 DEF TypeOK
  <2>7. TypeOK'
        BY <2>1, <2>3, <2>4, <2>5 DEF TypeOK, database, window, reading, past
  <2>8. AttemptsLeft'
        BY <2>2, <2>4 DEF AttemptsLeft
  <2>9. (BatchesLeft /\ AtWork)'
        BY <2>1, <2>4, <2>6 DEF BatchesLeft, AtWork, reading
  <2> QED BY <2>7, <2>8, <2>9
<1>13. ASSUME NEW r \in Run, MarkDelivered(r) PROVE Bounds'
  <2> DEFINE done == {t \in Thing : reply[r][t] = "done"}
             more == done # {} /\ Cardinality(Batch(r)) = BatchSize /\ batches[r] < MaxBatches
  <2>1. /\ row' = [t \in Thing |-> IF t \in done THEN [row[t] EXCEPT !.status = "DELIVERED"] ELSE row[t]]
        /\ pc' = [pc EXCEPT ![r] = IF more THEN "claim" ELSE "release"]
        /\ tries' = [tries EXCEPT ![r] = Each(0)]
        /\ reply' = [reply EXCEPT ![r] = Each("none")] /\ pc[r] = "answered"
        /\ UNCHANGED <<database, window, born, teamos, lease, reading, sent, batches, faults, past>>
        BY <1>13 DEF MarkDelivered
  <2>2. \A t \in done : row[t].status # "none"
        BY DEF AtWork
  <2>3. /\ row' \in [Thing -> Row]
        /\ \A t \in Thing : /\ row'[t].value = row[t].value /\ row'[t].attempts = row[t].attempts
                           /\ row'[t].status = IF t \in done THEN "DELIVERED" ELSE row[t].status
        BY <2>1 DEF TypeOK, Row
  <2>4. /\ Each(Nothing) \in [Thing -> State] /\ Each(0) \in [Thing -> 0 .. MaxAttempts - 1]
        /\ Each("none") \in [Thing -> Replies] /\ \A t \in Thing : Each("none")[t] = "none"
        BY EachType
  <2>5. TypeOK'
    <3>1. pc' \in [Run -> {"idle", "started", "find", "upsert", "claim", "sent", "answered", "release"}]
          BY <2>1 DEF TypeOK
    <3> QED BY <2>1, <2>2, <2>3, <2>4, <3>1 DEF TypeOK, database, window, reading, past
  <2>6. AttemptsLeft'
        BY <2>3 DEF AttemptsLeft
  <2>7. BatchesLeft'
    <3>1. CASE more
          BY <2>1, <3>1 DEF BatchesLeft, TypeOK
    <3>2. CASE ~ more
          BY <2>1, <3>2 DEF BatchesLeft, TypeOK
    <3> QED BY <3>1, <3>2
  <2>8. AtWork'
    <3>1. \A q \in Run : pc'[q] = "upsert" => pc[q] = "upsert"
          BY <2>1 DEF TypeOK
    <3>2. \A q \in Run, t \in Thing : reply'[q][t] # "none" => reply[q][t] # "none"
          BY <2>1, <2>4 DEF TypeOK
    <3> QED BY <2>1, <2>2, <2>3, <3>1, <3>2 DEF AtWork, reading
  <2> QED BY <2>5, <2>6, <2>7, <2>8
<1>14. ASSUME NEW r \in Run, Forget(r), pc' = [pc EXCEPT ![r] = "idle"],
              lease' \in {lease, Released(r)}, teamos' \in [Thing -> State], faults' \in 0 .. MaxFaults,
              UNCHANGED <<database, window, outbox, past>>
       PROVE  Bounds'
  <2>1. /\ Each(Nothing) \in [Thing -> State] /\ Each(0) \in [Thing -> 0 .. MaxAttempts - 1]
        /\ Each("none") \in [Thing -> Replies] /\ \A t \in Thing : Each("none")[t] = "none"
        BY EachType
  <2>2. lease' \in Scheduled \cup {Nothing}
        BY <1>14 DEF Released, TypeOK
  <2>3. TypeOK'
        BY <1>14, <2>1, <2>2, SyncAssumption DEF Forget, TypeOK, database, window, outbox, past
  <2>4. \A q \in Run : q # r => /\ got'[q] = got[q] /\ item'[q] = item[q] /\ reply'[q] = reply[q]
                               /\ batches'[q] = batches[q] /\ pc'[q] = pc[q]
        BY <1>14 DEF Forget, TypeOK
  <2>5. pc'[r] = "idle" /\ batches'[r] = 0 /\ \A t \in Thing : reply'[r][t] = "none"
        BY <1>14, <2>1 DEF Forget, TypeOK
  <2>6. (AttemptsLeft /\ BatchesLeft /\ AtWork)'
        BY <1>14, <2>4, <2>5 DEF AttemptsLeft, BatchesLeft, AtWork, outbox
  <2> QED BY <2>3, <2>6
<1>15. ASSUME NEW r \in Run, Release(r) PROVE Bounds'
       BY <1>14, <1>15 DEF Release, Goes, TypeOK
<1>16. ASSUME NEW r \in Run, Abort(r) PROVE Bounds'
  <2>1. teamos' \in [Thing -> State]
        BY <1>16, AppliedType DEF Abort, TypeOK
  <2>2. faults' \in 0 .. MaxFaults
        BY <1>16, SyncAssumption DEF Abort, Fault, TypeOK
  <2>3. /\ Forget(r) /\ pc' = [pc EXCEPT ![r] = "idle"] /\ lease' \in {lease, Released(r)}
        /\ UNCHANGED <<database, window, outbox, past>>
        BY <1>16 DEF Abort
  <2> QED BY <1>14, <2>1, <2>2, <2>3
<1>17. ASSUME Expire PROVE Bounds'
  <2>1. /\ lease' = Nothing
        /\ UNCHANGED <<database, window, outbox, teamos, pc, reading, sending, faults, past>>
        BY <1>17 DEF Expire
  <2>2. TypeOK'
        BY <2>1 DEF TypeOK, database, window, outbox, reading, sending, past
  <2>3. (AttemptsLeft /\ BatchesLeft /\ AtWork)'
        BY <2>1 DEF AttemptsLeft, BatchesLeft, AtWork, outbox, reading, sending
  <2> QED BY <2>2, <2>3
<1>18. ASSUME Revive PROVE Bounds'
  <2>1. /\ row' = [t \in Thing |-> IF row[t].status = "DEAD" THEN Queued(t, row[t].value) ELSE row[t]]
        /\ faults' \in 0 .. MaxFaults
        /\ UNCHANGED <<database, window, born, teamos, lease, pc, reading, sending, past>>
        BY <1>18, SyncAssumption DEF Revive, Fault, TypeOK
  <2>2. \A t \in Thing : Queued(t, row[t].value) \in Row
        BY SyncAssumption DEF Queued, TypeOK, Row
  <2>3. /\ row' \in [Thing -> Row]
        /\ \A t \in Thing : /\ row'[t].value = row[t].value
                           /\ row'[t].status = (IF row[t].status = "DEAD" THEN "PENDING" ELSE row[t].status)
                           /\ row'[t].attempts = (IF row[t].status = "DEAD" THEN 0 ELSE row[t].attempts)
        BY <2>1, <2>2 DEF TypeOK, Queued
  <2>4. TypeOK'
        BY <2>1, <2>3 DEF TypeOK, database, window, reading, sending, past
  <2>5. (AttemptsLeft /\ BatchesLeft /\ AtWork)'
        BY <2>1, <2>3, SyncAssumption DEF AttemptsLeft, BatchesLeft, AtWork, reading, sending
  <2> QED BY <2>4, <2>5
<1>19. ASSUME UNCHANGED vars PROVE Bounds'
  <2>1. TypeOK'
        BY <1>19 DEF vars, TypeOK, database, window, outbox, reading, sending, past
  <2>2. (AttemptsLeft /\ BatchesLeft /\ AtWork)'
        BY <1>19 DEF vars, AttemptsLeft, BatchesLeft, AtWork, outbox, reading, sending
  <2> QED BY <2>1, <2>2
<1> QED
  BY <1>1, <1>2, <1>3, <1>4, <1>5, <1>6, <1>7, <1>8, <1>9, <1>10, <1>11, <1>12, <1>13, <1>15,
     <1>16, <1>17, <1>18, <1>19 DEF Next, Step

(* Every variable keeps its type, no row is tried more than MaxAttempts     *)
(* times, and no run sends more than MaxBatches batches (TypeOK).          *)
THEOREM TypeCorrect == Spec => []TypeOK
<1>1. Bounds => TypeOK
      BY DEF Bounds
<1> QED BY <1>1, BoundsInit, BoundsStep, PTL DEF Spec

-----------------------------------------------------------------------------
(* Nothing is marked delivered that TeamOS does not hold, however many     *)
(* runs are under way, unless the row was written anew in between.         *)

(* What a run has sent, and has still to mark, is what is in the row, and  *)
(* what it has learned was done is what TeamOS holds.                      *)
SentIsQueued == \A r \in Run, t \in Thing : reply[r][t] # "none" =>
  /\ pc[r] \in {"sent", "answered"} /\ (pc[r] = "sent" <=> reply[r][t] = "sent")
  /\ t \notin replaced => /\ reply[r][t] = "sent" => sent[r][t] = row[t].value
                          /\ reply[r][t] = "done" => teamos[t] = row[t].value

Delivery == Bounds /\ SentIsQueued /\ DeliveredIsThere

(* What does not concern delivery. *)
LEMMA Quiet ==
  ASSUME SentIsQueued, DeliveredIsThere, UNCHANGED <<teamos, sending, replaced>>,
         \A t \in Thing : row'[t].status = row[t].status /\ row'[t].value = row[t].value,
         \A r \in Run : pc[r] \in {"sent", "answered"} => pc'[r] = pc[r]
  PROVE  (SentIsQueued /\ DeliveredIsThere)'
<1>1. SentIsQueued'
      BY DEF SentIsQueued, sending
<1>2. DeliveredIsThere'
      BY DEF DeliveredIsThere
<1> QED BY <1>1, <1>2

(* TeamOS may have handled what was sent, whatever is made of it: of a row *)
(* that was not written anew it then holds what is in the row.             *)
LEMMA Handled ==
  ASSUME TypeOK, SentIsQueued, NEW r \in Run, pc[r] = "sent",
         UNCHANGED teamos \/ \E refused : Apply(r, refused)
  PROVE  \A t \in Thing \ replaced : teamos'[t] = teamos[t] \/ teamos'[t] = row[t].value
<1>1. ASSUME NEW refused, Apply(r, refused), NEW t \in Thing \ replaced
      PROVE  teamos'[t] = teamos[t] \/ teamos'[t] = row[t].value
  <2>1. CASE t \in Taken(r, refused)
    <3>1. reply[r][t] = "sent" /\ sent[r][t] = row[t].value
          BY <2>1 DEF Taken, Batch, SentIsQueued
    <3> QED BY <1>1, <2>1, <3>1, AppliedType
  <2>2. CASE t \notin Taken(r, refused)
        BY <1>1, <2>2, AppliedType
  <2> QED BY <2>1, <2>2
<1> QED BY <1>1

(* After an answer, what is done is in TeamOS, and nothing is under way.   *)
LEMMA Answered ==
  ASSUME TypeOK, SentIsQueued, DeliveredIsThere, NEW r \in Run, Answer(r)
  PROVE  (SentIsQueued /\ DeliveredIsThere)'
<1>1. /\ UNCHANGED <<outbox, past>> /\ pc' = [pc EXCEPT ![r] = "answered"] /\ pc[r] = "sent"
      /\ sent' = [sent EXCEPT ![r] = Each(Nothing)]
      BY DEF Answer, Goes
<1>2. PICK w \in [Thing -> Replies] :
        /\ reply' = [reply EXCEPT ![r] = w]
        /\ \A t \in Thing : w[t] # "none" => reply[r][t] # "none"
      BY AnswerReplies
<1>3. UNCHANGED teamos \/ \E refused : Apply(r, refused)
      BY DEF Answer
<1>4. \A t \in Thing \ replaced : teamos'[t] = teamos[t] \/ teamos'[t] = row[t].value
      BY <1>1, <1>3, Handled
<1>5. DeliveredIsThere'
      BY <1>1, <1>4 DEF DeliveredIsThere, outbox, past
<1>6. \A t \in Thing : /\ w[t] # "sent"
                       /\ w[t] = "done" => \E refused : Apply(r, refused) /\ t \in Taken(r, refused)
  <2> SUFFICES ASSUME NEW t \in Thing
               PROVE  /\ w[t] # "sent"
                      /\ w[t] = "done" => \E refused : Apply(r, refused) /\ t \in Taken(r, refused)
      OBVIOUS
  <2>1. reply'[r] = w
        BY <1>2 DEF TypeOK
  <2>2. /\ \A refused : reply' = [reply EXCEPT ![r] = Results(r, refused)] => w = Results(r, refused)
        /\ \A answer : reply' = [reply EXCEPT ![r] = AllGet(r, answer)] => w = AllGet(r, answer)
        /\ \A u, refused : reply' = [reply EXCEPT ![r] = [Results(r, refused) EXCEPT ![u] = "retry"]]
                          => w = [Results(r, refused) EXCEPT ![u] = "retry"]
        BY <2>1 DEF TypeOK
  <2>3. \A refused : /\ Results(r, refused)[t] # "sent"
                     /\ Results(r, refused)[t] = "done" => t \in Taken(r, refused)
        BY DEF Results
  <2>4. \A u, refused : LET z == [Results(r, refused) EXCEPT ![u] = "retry"] IN
                        z[t] # "sent" /\ (z[t] = "done" => t \in Taken(r, refused))
        BY <2>3 DEF Results
  <2>5. \A answer \in {"retry", "never"} : AllGet(r, answer)[t] \notin {"sent", "done"}
        BY DEF AllGet
  <2>6. ASSUME NEW refused, Apply(r, refused), reply' = [reply EXCEPT ![r] = Results(r, refused)]
        PROVE  w[t] # "sent" /\ (w[t] = "done" => Apply(r, refused) /\ t \in Taken(r, refused))
        BY <2>2, <2>3, <2>6
  <2>7. ASSUME NEW refused, NEW u, Apply(r, refused),
               reply' = [reply EXCEPT ![r] = [Results(r, refused) EXCEPT ![u] = "retry"]]
        PROVE  w[t] # "sent" /\ (w[t] = "done" => Apply(r, refused) /\ t \in Taken(r, refused))
        BY <2>2, <2>4, <2>7
  <2>8. ASSUME NEW answer \in {"retry", "never"}, reply' = [reply EXCEPT ![r] = AllGet(r, answer)]
        PROVE  w[t] \notin {"sent", "done"}
        BY <2>2, <2>5, <2>8
  <2>9. \/ \E refused : Apply(r, refused) /\ reply' = [reply EXCEPT ![r] = Results(r, refused)]
        \/ \E u, refused : /\ Apply(r, refused)
                           /\ reply' = [reply EXCEPT ![r] = [Results(r, refused) EXCEPT ![u] = "retry"]]
        \/ reply' = [reply EXCEPT ![r] = AllGet(r, "retry")]
        \/ reply' = [reply EXCEPT ![r] = AllGet(r, "never")]
        BY Zenon DEF Answer, Unreadable
  <2>10. CASE \E refused : Apply(r, refused) /\ reply' = [reply EXCEPT ![r] = Results(r, refused)]
        BY Zenon, <2>6, <2>10
  <2>11. CASE \E u, refused : /\ Apply(r, refused)
                             /\ reply' = [reply EXCEPT ![r] = [Results(r, refused) EXCEPT ![u] = "retry"]]
        BY Zenon, <2>7, <2>11
  <2>12. CASE reply' = [reply EXCEPT ![r] = AllGet(r, "retry")] \/ reply' = [reply EXCEPT ![r] = AllGet(r, "never")]
        BY <2>8, <2>12
  <2> QED BY Zenon, <2>9, <2>10, <2>11, <2>12
<1>7. \A t \in Thing \ replaced : w[t] = "done" => teamos'[t] = row[t].value
  <2> SUFFICES ASSUME NEW t \in Thing \ replaced, w[t] = "done" PROVE teamos'[t] = row[t].value
      OBVIOUS
  <2>1. PICK refused : Apply(r, refused) /\ t \in Taken(r, refused)
        BY <1>6
  <2>2. sent[r][t] = row[t].value
        BY <1>1, <2>1 DEF Taken, Batch, SentIsQueued
  <2> QED BY <2>1, <2>2, AppliedType
<1>8. SentIsQueued'
  <2> SUFFICES ASSUME NEW q \in Run, NEW t \in Thing, reply'[q][t] # "none"
               PROVE  /\ pc'[q] \in {"sent", "answered"} /\ (pc'[q] = "sent" <=> reply'[q][t] = "sent")
                      /\ t \notin replaced => /\ reply'[q][t] = "sent" => sent'[q][t] = row[t].value
                                              /\ reply'[q][t] = "done" => teamos'[t] = row[t].value
      BY <1>1 DEF SentIsQueued, outbox, past
  <2>1. CASE q = r
    <3>1. pc'[r] = "answered" /\ reply'[r][t] = w[t]
          BY <1>1, <1>2 DEF TypeOK
    <3>2. w[t] # "sent" /\ (t \notin replaced /\ w[t] = "done" => teamos'[t] = row[t].value)
          BY <1>6, <1>7
    <3> QED BY <2>1, <3>1, <3>2
  <2>2. CASE q # r
    <3>1. pc'[q] = pc[q] /\ reply'[q] = reply[q] /\ sent'[q] = sent[q]
          BY <1>1, <1>2, <2>2 DEF TypeOK
    <3> QED BY <1>4, <3>1 DEF SentIsQueued
  <2> QED BY <2>1, <2>2
<1> QED BY <1>5, <1>8

(* The end of a run, however it ends. *)
LEMMA Forgotten ==
  ASSUME TypeOK, SentIsQueued, DeliveredIsThere, NEW r \in Run, Forget(r),
         pc' = [pc EXCEPT ![r] = "idle"], UNCHANGED <<outbox, past>>,
         UNCHANGED teamos \/ (pc[r] = "sent" /\ Apply(r, {}))
  PROVE  (SentIsQueued /\ DeliveredIsThere)'
<1>1. \A t \in Thing \ replaced : teamos'[t] = teamos[t] \/ teamos'[t] = row[t].value
      BY Handled
<1>2. DeliveredIsThere'
      BY <1>1 DEF DeliveredIsThere, outbox, past
<1>3. /\ \A t \in Thing : reply'[r][t] = "none"
      /\ \A q \in Run : q # r => pc'[q] = pc[q] /\ reply'[q] = reply[q] /\ sent'[q] = sent[q]
      BY EachType DEF Forget, TypeOK
<1>4. SentIsQueued'
      BY <1>1, <1>3 DEF SentIsQueued, outbox, past
<1> QED BY <1>2, <1>4

LEMMA DeliveryStep == Delivery /\ [Next]_vars => (SentIsQueued /\ DeliveredIsThere)'
<1> SUFFICES ASSUME Delivery, [Next]_vars PROVE (SentIsQueued /\ DeliveredIsThere)'
    OBVIOUS
<1> USE DEF Delivery, Bounds
<1>1. ASSUME NEW t \in Thing, Commit(t) \/ BackOff(t) \/ \E v \in Value : Stamp(t, v)
      PROVE  (SentIsQueued /\ DeliveredIsThere)'
  <2>1. /\ UNCHANGED <<teamos, sending, pc, replaced>>
        /\ UNCHANGED row \/ row' = [row EXCEPT ![t].due = "now"]
        BY <1>1 DEF Commit, BackOff, Stamp, outbox, past
  <2>2. \A u \in Thing : row'[u].status = row[u].status /\ row'[u].value = row[u].value
    <3>1. CASE UNCHANGED row
          BY <3>1
    <3>2. CASE row' = [row EXCEPT ![t].due = "now"]
          BY <3>2 DEF TypeOK, Row
    <3> QED BY <2>1, <3>1, <3>2
  <2> QED BY <2>1, <2>2, Quiet
<1>2. ASSUME NEW r \in Run, Start(r) \/ Project(r) \/ Chunk(r) \/ WriteCursor(r) \/ \E t \in Thing : Find(r, t)
      PROVE  (SentIsQueued /\ DeliveredIsThere)'
  <2>1. UNCHANGED <<teamos, sending, row, replaced>>
        BY <1>2 DEF Start, Project, Chunk, WriteCursor, Find, outbox, past
  <2>2. /\ pc[r] \notin {"sent", "answered"}
        /\ UNCHANGED pc \/ \E to \in {"started", "find", "claim", "upsert"} : pc' = [pc EXCEPT ![r] = to]
        BY <1>2 DEF Start, Project, Chunk, WriteCursor, Find, Goes
  <2>3. \A q \in Run : pc[q] \in {"sent", "answered"} => pc'[q] = pc[q]
        BY <2>2 DEF TypeOK
  <2> QED BY <2>1, <2>3, Quiet
<1>3. ASSUME NEW r \in Run, Upsert(r) PROVE (SentIsQueued /\ DeliveredIsThere)'
  <2> DEFINE t == item[r]
  <2>1. /\ row' = [row EXCEPT ![t] = Queued(t, got[r][t])] /\ pc[r] = "upsert" /\ t \in Thing
        /\ pc' = [pc EXCEPT ![r] = "find"] /\ UNCHANGED <<teamos, sending>>
        /\ replaced' = IF OnItsWay(r, t) THEN replaced \cup {t} ELSE replaced \ {t}
        BY <1>3 DEF Upsert, Goes, AtWork
  <2>2. row'[t].status = "PENDING" /\ \A u \in Thing : u # t => row'[u] = row[u]
        BY <2>1 DEF TypeOK, Queued
  <2>3. \A u \in Thing : reply[r][u] = "none"
        BY <2>1 DEF SentIsQueued
  <2> HIDE DEF t
  <2>4. \A q \in Run : reply[q][t] \in {"sent", "done"} => t \in replaced'
        BY <2>1, <2>3 DEF OnItsWay
  <2>5. \A u \in Thing : u # t => (u \in replaced <=> u \in replaced')
        BY <2>1
  <2>6. DeliveredIsThere'
        BY <2>1, <2>2, <2>5 DEF DeliveredIsThere
  <2>7. \A q \in Run : pc[q] \in {"sent", "answered"} => pc'[q] = pc[q]
        BY <2>1 DEF TypeOK
  <2>8. SentIsQueued'
        BY <2>1, <2>2, <2>4, <2>5, <2>7 DEF SentIsQueued, sending
  <2> QED BY <2>6, <2>8
<1>4. ASSUME NEW r \in Run, Claim(r) PROVE (SentIsQueued /\ DeliveredIsThere)'
  <2> DEFINE batch == Oldest(Due)
  <2>1. UNCHANGED <<row, teamos, replaced>> /\ pc[r] = "claim"
        BY <1>4 DEF Claim, outbox, past
  <2>2. CASE batch = {}
    <3>1. pc' = [pc EXCEPT ![r] = "release"] /\ UNCHANGED sending
          BY <1>4, <2>2 DEF Claim
    <3> QED BY <2>1, <3>1, Quiet DEF TypeOK
  <2>3. CASE batch # {}
    <3>1. /\ pc' = [pc EXCEPT ![r] = "sent"]
          /\ sent' = [sent EXCEPT ![r] = [t \in Thing |-> IF t \in batch THEN row[t].value ELSE Nothing]]
          /\ reply' = [reply EXCEPT ![r] = [t \in Thing |-> IF t \in batch THEN "sent" ELSE "none"]]
          BY <1>4, <2>3 DEF Claim
    <3> HIDE DEF batch
    <3>2. /\ pc'[r] = "sent"
          /\ \A t \in Thing : reply'[r][t] # "none" => reply'[r][t] = "sent" /\ sent'[r][t] = row[t].value
          /\ \A q \in Run : q # r => pc'[q] = pc[q] /\ reply'[q] = reply[q] /\ sent'[q] = sent[q]
          BY <3>1 DEF TypeOK
    <3>3. SentIsQueued'
          BY <2>1, <3>2 DEF SentIsQueued
    <3>4. DeliveredIsThere'
          BY <2>1 DEF DeliveredIsThere
    <3> QED BY <3>3, <3>4
  <2> QED BY <2>2, <2>3
<1>5. ASSUME NEW r \in Run, Answer(r) PROVE (SentIsQueued /\ DeliveredIsThere)'
      BY <1>5, Answered
<1>6. ASSUME NEW r \in Run, NEW t \in Thing, MarkFailed(r, t) PROVE (SentIsQueued /\ DeliveredIsThere)'
  <2>1. /\ row' = [row EXCEPT ![t] =
                     [status |-> IF Parked(r, t) THEN "DEAD" ELSE "PENDING",
                      value |-> row[t].value, attempts |-> tries[r][t] + 1, due |-> "later"]]
        /\ reply' = [reply EXCEPT ![r][t] = "noted"] /\ pc[r] = "answered"
        /\ UNCHANGED <<teamos, pc, sent, replaced>>
        BY <1>6 DEF MarkFailed, past
  <2>2. /\ row'[t].status # "DELIVERED" /\ row'[t].value = row[t].value
        /\ \A u \in Thing : u # t => row'[u] = row[u]
        BY <2>1 DEF TypeOK
  <2>3. \A q \in Run, u \in Thing :
          reply'[q][u] = reply[q][u] \/ (q = r /\ u = t /\ reply'[q][u] = "noted")
        BY <2>1 DEF TypeOK
  <2>4. SentIsQueued'
        BY <2>1, <2>2, <2>3 DEF SentIsQueued
  <2>5. DeliveredIsThere'
        BY <2>1, <2>2 DEF DeliveredIsThere
  <2> QED BY <2>4, <2>5
<1>7. ASSUME NEW r \in Run, MarkDelivered(r) PROVE (SentIsQueued /\ DeliveredIsThere)'
  <2> DEFINE done == {t \in Thing : reply[r][t] = "done"}
  <2>1. /\ row' = [t \in Thing |-> IF t \in done THEN [row[t] EXCEPT !.status = "DELIVERED"] ELSE row[t]]
        /\ reply' = [reply EXCEPT ![r] = Each("none")] /\ UNCHANGED <<teamos, sent, replaced>>
        /\ \A q \in Run : q # r => pc'[q] = pc[q]
        BY <1>7 DEF MarkDelivered, TypeOK, past
  <2>2. \A t \in Thing : row'[t].value = row[t].value /\ (t \notin done => row'[t] = row[t])
        BY <2>1 DEF TypeOK, Row
  <2>3. \A t \in done \ replaced : teamos[t] = row[t].value
        BY DEF SentIsQueued
  <2>4. DeliveredIsThere'
        BY <2>1, <2>2, <2>3 DEF DeliveredIsThere
  <2>5. /\ \A t \in Thing : reply'[r][t] = "none"
        /\ \A q \in Run : q # r => reply'[q] = reply[q]
        BY <2>1, EachType DEF TypeOK
  <2>6. SentIsQueued'
        BY <2>1, <2>2, <2>5 DEF SentIsQueued
  <2> QED BY <2>4, <2>6
<1>8. ASSUME NEW r \in Run, Release(r) \/ Abort(r) PROVE (SentIsQueued /\ DeliveredIsThere)'
      BY <1>8, Forgotten DEF Release, Abort, Goes
<1>9. CASE Expire \/ UNCHANGED vars
      BY <1>9, Quiet DEF Expire, vars, outbox, past
<1>10. CASE Revive
  <2>1. /\ row' = [t \in Thing |-> IF row[t].status = "DEAD" THEN Queued(t, row[t].value) ELSE row[t]]
        /\ UNCHANGED <<teamos, pc, sending, replaced>>
        BY <1>10 DEF Revive, past
  <2>2. \A t \in Thing : /\ row'[t].value = row[t].value
                         /\ row'[t].status = "DELIVERED" => row[t].status = "DELIVERED"
        BY <2>1 DEF Queued
  <2>3. SentIsQueued'
        BY <2>1, <2>2 DEF SentIsQueued, sending
  <2>4. DeliveredIsThere'
        BY <2>1, <2>2 DEF DeliveredIsThere
  <2> QED BY <2>3, <2>4
<1> QED
  BY <1>1, <1>2, <1>3, <1>4, <1>5, <1>6, <1>7, <1>8, <1>9, <1>10 DEF Next, Step

LEMMA DeliveryInit == Init => Delivery
<1> SUFFICES ASSUME Init PROVE Delivery
    OBVIOUS
<1>1. Bounds
      BY BoundsInit
<1>2. SentIsQueued /\ DeliveredIsThere
      BY DEF Init, SentIsQueued, DeliveredIsThere, Each, NoRow
<1> QED BY <1>1, <1>2 DEF Delivery

(* What is marked DELIVERED is in TeamOS as it is in its row, whatever is  *)
(* lost, refused or left out, whenever a run dies and however many runs    *)
(* are under way, unless the row was written anew between its sending and  *)
(* its marking (DeliveredIsThere).                                         *)
THEOREM DeliveredMeansThere == Spec => []DeliveredIsThere
<1>1. Delivery /\ [Next]_vars => Delivery'
      BY BoundsStep, DeliveryStep DEF Delivery, Bounds
<1>2. Delivery => DeliveredIsThere
      BY DEF Delivery
<1> QED BY <1>1, <1>2, DeliveryInit, PTL DEF Spec

-----------------------------------------------------------------------------
(* The window.                                                             *)

(* A run has something in hand only while it projects. *)
NothingOutside == \A r \in Run :
  /\ ~ Projecting(r) => got[r] = Each(Nothing)
  /\ writes[r] = "cursor" => cursor = "set" /\ pc[r] \in {"find", "upsert"}

(* A change that is not committed yet was stamped since.                   *)
WritingIsFresh == \A t \in Money : writing[t] # Nothing =>
  /\ cursor = "set" => t \in fresh
  /\ \A r \in Run : Projecting(r) => t \in since[r]

NeverNothing == \A t \in Thing : source[t] = Nothing =>
  row[t].value = Nothing /\ \A r \in Run : got[r][t] = Nothing

(* What changed after a run read it was stamped since.                     *)
GotIsThere == \A r \in Run, t \in Money :
  got[r][t] # Nothing /\ t \notin since[r] => got[r][t] = source[t]

(* A run that will write the cursor has enqueued, or will, all that was    *)
(* not stamped since.                                                      *)
CursorMayMove == \A r \in Run, t \in Money :
  writes[r] = "cursor" /\ t \notin since[r] /\ got[r][t] = Nothing =>
    source[t] = row[t].value \/ t \in history \cup behind

Window == /\ NothingOutside /\ WritingIsFresh /\ NeverNothing
          /\ GotIsThere /\ CursorMayMove /\ NothingMissed

(* What does not concern the window: a run goes on with what it has read,  *)
(* or is over.                                                             *)
LEMMA Unread ==
  ASSUME TypeOK, Window, UNCHANGED <<database, window, behind>>,
         \A t \in Thing : row'[t].value = row[t].value,
         \A r \in Run :
           \/ /\ since'[r] = since[r] /\ got'[r] = got[r] /\ writes'[r] = writes[r]
              /\ pc'[r] = pc[r] \/ {pc[r], pc'[r]} \cap {"started", "find", "upsert"} = {}
           \/ pc'[r] = "idle" /\ got'[r] = Each(Nothing) /\ writes'[r] = "nothing"
  PROVE  Window'
<1> USE DEF Window, Projecting, database, window
<1>1. NothingOutside'
      BY DEF NothingOutside
<1>2. WritingIsFresh'
      BY DEF WritingIsFresh
<1>3. NeverNothing'
      BY EachType DEF NeverNothing, Each
<1>4. GotIsThere'
      BY DEF GotIsThere, Each, Thing
<1>5. CursorMayMove'
      BY DEF CursorMayMove, Thing
<1>6. NothingMissed'
      BY DEF NothingMissed, Thing
<1> QED BY <1>1, <1>2, <1>3, <1>4, <1>5, <1>6

(* Whoever has something in hand, or will write the cursor, is projecting. *)
LEMMA InHand ==
  ASSUME NothingOutside, NEW r \in Run, NEW t \in Thing
  PROVE  /\ writes[r] = "cursor" => cursor = "set" /\ Projecting(r)
         /\ got[r][t] # Nothing => Projecting(r)
BY DEF NothingOutside, Each, Projecting

LEMMA CommitWindow ==
  ASSUME TypeOK, Window, NEW t \in Thing, Commit(t)
  PROVE  Window'
<1> USE DEF Window, Thing
<1>1. /\ source' = [source EXCEPT ![t] = writing[t]] /\ writing' = [writing EXCEPT ![t] = Nothing]
      /\ writing[t] # Nothing
      /\ UNCHANGED <<cursor, fresh, history, row, pc, since, writes, got, behind>>
      BY DEF Commit, window, outbox, reading, past
<1>2. /\ source'[t] = writing[t] /\ writing'[t] = Nothing
      /\ \A u \in Thing : u # t => source'[u] = source[u] /\ writing'[u] = writing[u]
      BY <1>1 DEF TypeOK
<1>3. t \in Money => \A r \in Run : Projecting(r) => t \in since[r]
      BY <1>1 DEF WritingIsFresh
<1>4. NothingOutside'
      BY <1>1 DEF NothingOutside, Projecting
<1>5. WritingIsFresh'
      BY <1>1, <1>2 DEF WritingIsFresh, Projecting
<1>6. NeverNothing'
      BY <1>1, <1>2 DEF NeverNothing
<1>7. GotIsThere'
      BY <1>1, <1>2, <1>3, InHand DEF GotIsThere
<1>8. CursorMayMove'
      BY <1>1, <1>2, <1>3, InHand DEF CursorMayMove
<1>9. NothingMissed'
      BY <1>1, <1>2 DEF NothingMissed, WritingIsFresh
<1> QED BY <1>4, <1>5, <1>6, <1>7, <1>8, <1>9

LEMMA StampWindow ==
  ASSUME TypeOK, Window, NEW t \in Thing, NEW v \in Value, Stamp(t, v)
  PROVE  Window'
<1> USE DEF Window
<1>1. /\ writing' = [writing EXCEPT ![t] = v]
      /\ UNCHANGED <<source, cursor, row, pc, writes, got, behind>>
      BY DEF Stamp, outbox, past
<1>2. NothingOutside' /\ NeverNothing'
      BY <1>1 DEF NothingOutside, NeverNothing, Projecting
<1>3. CASE t \in Money
  <2>1. /\ fresh' = IF cursor = "set" THEN fresh \cup {t} ELSE fresh
        /\ since' = [r \in Run |-> IF Projecting(r) THEN since[r] \cup {t} ELSE {}]
        /\ history' = history \ {t}
        BY <1>3 DEF Stamp
  <2>2. \A u \in Money : u # t => writing'[u] = writing[u]
        BY <1>1 DEF TypeOK
  <2>3. \A r \in Run : Projecting(r) => since'[r] = since[r] \cup {t}
        BY <2>1
  <2>4. WritingIsFresh'
        BY <1>1, <2>1, <2>2, <2>3 DEF WritingIsFresh, Projecting
  <2>5. GotIsThere'
        BY <1>1, <2>3, InHand DEF GotIsThere, Thing
  <2>6. CursorMayMove'
        BY <1>1, <2>1, <2>3, InHand DEF CursorMayMove, Thing
  <2>7. NothingMissed'
        BY <1>1, <2>1 DEF NothingMissed
  <2> QED BY <1>2, <2>4, <2>5, <2>6, <2>7
<1>4. CASE t \notin Money
  <2>1. UNCHANGED <<fresh, since, history>>
        BY <1>4 DEF Stamp
  <2>2. \A u \in Money : writing'[u] = writing[u]
        BY <1>1, <1>4 DEF TypeOK
  <2>3. WritingIsFresh'
        BY <1>1, <2>1, <2>2 DEF WritingIsFresh, Projecting
  <2>4. (GotIsThere /\ CursorMayMove /\ NothingMissed)'
        BY <1>1, <2>1 DEF GotIsThere, CursorMayMove, NothingMissed
  <2> QED BY <1>2, <2>3, <2>4
<1> QED BY <1>3, <1>4

(* A run that begins to project looks back over what is being written. *)
LEMMA StartWindow ==
  ASSUME TypeOK, Window, NEW r \in Run, Start(r)
  PROVE  Window'
<1> USE DEF Window
<1>1. /\ pc[r] = "idle" /\ pc' = [pc EXCEPT ![r] = "started"] /\ since' = [since EXCEPT ![r] = Lookback]
      /\ UNCHANGED <<source, writing, cursor, fresh, history, row, writes, got, behind>>
      BY DEF Start, Goes, database, window, outbox, past
<1>2. /\ pc'[r] = "started" /\ since'[r] = Lookback
      /\ \A q \in Run : q # r => pc'[q] = pc[q] /\ since'[q] = since[q]
      BY <1>1 DEF TypeOK
<1>3. got[r] = Each(Nothing) /\ writes[r] # "cursor"
      BY <1>1 DEF NothingOutside, Projecting
<1>4. NothingOutside'
      BY <1>1, <1>2, <1>3 DEF NothingOutside, Projecting
<1>5. WritingIsFresh'
      BY <1>1, <1>2 DEF WritingIsFresh, Projecting, Lookback
<1>6. (NeverNothing /\ NothingMissed)'
      BY <1>1 DEF NeverNothing, NothingMissed
<1>7. GotIsThere'
      BY <1>1, <1>2, <1>3 DEF GotIsThere, Each, Thing
<1>8. CursorMayMove'
      BY <1>1, <1>2, <1>3 DEF CursorMayMove
<1> QED BY <1>4, <1>5, <1>6, <1>7, <1>8

LEMMA ProjectWindow ==
  ASSUME TypeOK, Window, NEW r \in Run, Project(r)
  PROVE  Window'
<1> USE DEF Window, Thing
<1>1. /\ pc[r] = "started" /\ pc' = [pc EXCEPT ![r] = "find"]
      /\ UNCHANGED <<source, writing, row, since, behind>>
      BY DEF Project, Goes, database, outbox, past
<1>2. /\ pc'[r] = "find" /\ writes[r] = "nothing"
      /\ \A q \in Run : q # r => pc'[q] = pc[q]
      BY <1>1 DEF TypeOK, NothingOutside
<1>3. PICK things :
        /\ Payloads(r, things)
        /\ \/ /\ cursor = "unset" /\ cursor' = "set" /\ fresh' = since[r]
              /\ history' = {t \in Money : source[t] # Nothing} \ since[r]
              /\ UNCHANGED writes
           \/ /\ cursor = "set" /\ things = Client \cup fresh /\ writes' = [writes EXCEPT ![r] = "cursor"]
              /\ UNCHANGED <<cursor, fresh, history>>
      BY DEF Project, TypeOK, window
<1>4. /\ \A q \in Run : q # r => got'[q] = got[q] /\ writes'[q] = writes[q]
      /\ \A t \in Thing : got'[r][t] = IF t \in things THEN source[t] ELSE Nothing
  <2>1. \A q \in Run : q # r => writes'[q] = writes[q]
        BY <1>3 DEF TypeOK
  <2> QED BY <1>3, <2>1, PayloadsType
<1>5. Projecting(r) /\ \A q \in Run : Projecting(q)' => Projecting(q)
      BY <1>1, <1>2 DEF Projecting
<1>6. cursor' = "set"
      BY <1>3
<1>7. NothingOutside'
      BY <1>2, <1>4, <1>6 DEF NothingOutside, Projecting
<1>8. WritingIsFresh'
      BY <1>1, <1>3, <1>5 DEF WritingIsFresh
<1>9. GotIsThere' /\ NeverNothing'
      BY <1>1, <1>4 DEF GotIsThere, NeverNothing
<1>10. NothingMissed'
      BY <1>1, <1>3 DEF NothingMissed, NeverNothing
<1>11. CursorMayMove'
  <2>1. CASE cursor = "unset"
    <3>1. \A q \in Run : writes'[q] # "cursor"
          BY <1>2, <1>3, <1>4, <2>1 DEF NothingOutside
    <3> QED BY <3>1 DEF CursorMayMove
  <2>2. CASE cursor = "set"
    <3>1. things = Client \cup fresh /\ UNCHANGED <<cursor, fresh, history>>
          BY <1>3, <2>2
    <3>2. \A t \in Money : source[t] = row[t].value \/ t \in fresh \cup history \cup behind
          BY <2>2 DEF NothingMissed
    <3>3. \A t \in Money : got'[r][t] = Nothing => source[t] = row[t].value \/ t \in history \cup behind
          BY <1>4, <3>1, <3>2 DEF NeverNothing
    <3> QED BY <1>1, <1>4, <3>1, <3>3 DEF CursorMayMove
  <2> QED BY <2>1, <2>2 DEF TypeOK
<1> QED BY <1>7, <1>8, <1>9, <1>10, <1>11

LEMMA ChunkWindow ==
  ASSUME TypeOK, Window, NEW r \in Run, Chunk(r)
  PROVE  Window'
<1> USE DEF Window, Thing
<1>1. /\ pc[r] = "idle" /\ pc' = [pc EXCEPT ![r] = "find"] /\ since' = [since EXCEPT ![r] = Lookback]
      /\ UNCHANGED <<source, writing, cursor, fresh, history, row, writes, behind>>
      BY DEF Chunk, Goes, database, outbox, window, past
<1>2. PICK things : Payloads(r, things)
      BY DEF Chunk
<1>3. /\ \A q \in Run : q # r => got'[q] = got[q] /\ pc'[q] = pc[q] /\ since'[q] = since[q]
      /\ pc'[r] = "find" /\ since'[r] = Lookback
      /\ \A t \in Thing : got'[r][t] = Nothing \/ got'[r][t] = source[t]
  <2>1. /\ \A q \in Run : q # r => got'[q] = got[q]
        /\ \A t \in Thing : got'[r][t] = IF t \in things THEN source[t] ELSE Nothing
        BY <1>2, PayloadsType
  <2>2. /\ \A q \in Run : q # r => pc'[q] = pc[q] /\ since'[q] = since[q]
        /\ pc'[r] = "find" /\ since'[r] = Lookback
        BY <1>1 DEF TypeOK
  <2> QED BY <2>1, <2>2
<1>4. writes[r] # "cursor"
      BY <1>1 DEF NothingOutside
<1>5. NothingOutside'
      BY <1>1, <1>3, <1>4 DEF NothingOutside, Projecting
<1>6. WritingIsFresh'
      BY <1>1, <1>3 DEF WritingIsFresh, Projecting, Lookback
<1>7. GotIsThere' /\ NeverNothing'
      BY <1>1, <1>3 DEF GotIsThere, NeverNothing
<1>8. (NothingMissed /\ CursorMayMove)'
      BY <1>1, <1>3, <1>4 DEF NothingMissed, CursorMayMove
<1> QED BY <1>5, <1>6, <1>7, <1>8

(* A payload is found to be that of the row, or its row is upserted with   *)
(* it: either it is as the thing now is, or whoever writes the cursor next *)
(* leaves the thing in the window.                                         *)
LEMMA TakenUp ==
  ASSUME TypeOK, Window, NEW r \in Run, NEW t \in Thing, got[r][t] # Nothing,
         pc[r] \in {"find", "upsert"},
         got' = [got EXCEPT ![r][t] = Nothing], pc' = [pc EXCEPT ![r] = "find"],
         UNCHANGED <<database, window, since, writes>>,
         row'[t].value = got[r][t], \A u \in Thing : u # t => row'[u] = row[u],
         \/ UNCHANGED <<row, behind>>
         \/ behind' = IF OutOfDate(r, t) THEN behind \cup {t} ELSE behind \ {t}
  PROVE  Window'
<1> USE DEF Window, Thing, database, window
<1>1. /\ \A q \in Run : q # r => got'[q] = got[q] /\ pc'[q] = pc[q]
      /\ got'[r][t] = Nothing /\ \A u \in Thing : u # t => got'[r][u] = got[r][u]
      /\ pc'[r] = "find"
      BY DEF TypeOK
<1>2. NothingOutside'
      BY <1>1 DEF NothingOutside, Projecting
<1>3. WritingIsFresh'
      BY <1>1 DEF WritingIsFresh, Projecting
<1>4. NeverNothing'
      BY <1>1 DEF NeverNothing
<1>5. GotIsThere'
      BY <1>1 DEF GotIsThere
<1>6. \A u \in Thing : u # t => (u \in behind <=> u \in behind')
      OBVIOUS
<1>7. ASSUME t \in Money, t \notin since[r] PROVE source[t] = row'[t].value
      BY <1>7 DEF GotIsThere
<1>8. NothingMissed'
  <2>1. ASSUME cursor = "set", t \in Money, t \in since[r] PROVE
           source[t] = row'[t].value \/ t \in fresh \cup history \cup behind'
    <3>1. CASE UNCHANGED <<row, behind>>
          BY <2>1, <3>1 DEF NothingMissed
    <3>2. CASE behind' = IF OutOfDate(r, t) THEN behind \cup {t} ELSE behind \ {t}
          BY <2>1, <3>2 DEF OutOfDate
    <3> QED BY <3>1, <3>2
  <2> QED BY <1>6, <1>7, <2>1 DEF NothingMissed
<1>9. CursorMayMove'
  <2> SUFFICES ASSUME NEW q \in Run, NEW u \in Money,
                      writes[q] = "cursor", u \notin since[q], got'[q][u] = Nothing
               PROVE  source[u] = row'[u].value \/ u \in history \cup behind'
      BY DEF CursorMayMove
  <2>1. CASE u # t
        BY <1>1, <1>6, <2>1 DEF CursorMayMove
  <2>2. CASE u = t /\ q = r
        BY <1>7, <2>2
  <2>3. CASE u = t /\ q # r
    <3>1. got[q][t] = Nothing /\ cursor = "set"
          BY <1>1, <2>3 DEF NothingOutside
    <3>2. CASE UNCHANGED <<row, behind>>
          BY <2>3, <3>1, <3>2 DEF CursorMayMove
    <3>3. CASE behind' = IF OutOfDate(r, t) THEN behind \cup {t} ELSE behind \ {t}
          BY <1>7, <2>3, <3>1, <3>3 DEF OutOfDate
    <3> QED BY <3>2, <3>3
  <2> QED BY <2>1, <2>2, <2>3
<1> QED BY <1>2, <1>3, <1>4, <1>5, <1>8, <1>9

LEMMA WriteCursorWindow ==
  ASSUME TypeOK, Window, NEW r \in Run, WriteCursor(r)
  PROVE  Window'
<1> USE DEF Window, Thing
<1>1. /\ got[r] = Each(Nothing) /\ pc[r] = "find" /\ pc' = [pc EXCEPT ![r] = "claim"]
      /\ fresh' = IF writes[r] = "cursor" THEN since[r] ELSE fresh
      /\ writes' = [writes EXCEPT ![r] = "nothing"] /\ since' = [since EXCEPT ![r] = {}]
      /\ UNCHANGED <<source, writing, cursor, history, row, got, behind>>
      BY DEF WriteCursor, Goes, database, outbox, past
<1>2. /\ pc'[r] = "claim" /\ writes'[r] = "nothing"
      /\ \A q \in Run : q # r => pc'[q] = pc[q] /\ writes'[q] = writes[q] /\ since'[q] = since[q]
      BY <1>1 DEF TypeOK
<1>3. \A t \in Thing : got[r][t] = Nothing
      BY <1>1 DEF Each
<1>4. NothingOutside'
      BY <1>1, <1>2 DEF NothingOutside, Projecting
<1>5. (NeverNothing /\ GotIsThere /\ CursorMayMove)'
      BY <1>1, <1>2, <1>3 DEF NeverNothing, GotIsThere, CursorMayMove
<1>6. WritingIsFresh'
      BY <1>1, <1>2 DEF WritingIsFresh, Projecting
<1>7. NothingMissed'
      BY <1>1, <1>3 DEF NothingMissed, CursorMayMove
<1> QED BY <1>4, <1>5, <1>6, <1>7

LEMMA WindowStep ==
  ASSUME Bounds, Window, [Next]_vars
  PROVE  Window'
<1> USE DEF Bounds
<1>1. ASSUME NEW t \in Thing, BackOff(t) PROVE Window'
  <2>1. \A u \in Thing : row'[u].value = row[u].value
        BY <1>1 DEF BackOff, TypeOK, Row
  <2> QED BY <1>1, <2>1, Unread DEF BackOff, reading, past
<1>2. ASSUME NEW r \in Run, NEW t \in Thing, Find(r, t) PROVE Window'
  <2>1. /\ pc[r] = "find" /\ got[r][t] # Nothing
        /\ UNCHANGED <<database, window, row, since, writes, behind>>
        BY <1>2 DEF Find, outbox, past
  <2>2. CASE Same(t, got[r][t])
    <3>1. got' = [got EXCEPT ![r][t] = Nothing] /\ UNCHANGED pc
          BY <1>2, <2>2 DEF Find
    <3>2. pc' = [pc EXCEPT ![r] = "find"]
          BY <2>1, <3>1 DEF TypeOK
    <3> QED BY <2>1, <2>2, <3>1, <3>2, TakenUp DEF Same
  <2>3. CASE ~ Same(t, got[r][t])
    <3>1. pc' = [pc EXCEPT ![r] = "upsert"] /\ UNCHANGED got
          BY <1>2, <2>3 DEF Find
    <3>2. \A q \in Run : pc'[q] = IF q = r THEN "upsert" ELSE pc[q]
          BY <3>1 DEF TypeOK
    <3>3. NothingOutside'
          BY <2>1, <3>1, <3>2 DEF Window, NothingOutside, Projecting, window
    <3>4. WritingIsFresh'
          BY <2>1, <3>2 DEF Window, WritingIsFresh, Projecting, database, window
    <3>5. (NeverNothing /\ GotIsThere /\ CursorMayMove /\ NothingMissed)'
          BY <2>1, <3>1 DEF Window, NeverNothing, GotIsThere, CursorMayMove, NothingMissed, database, window
    <3> QED BY <3>3, <3>4, <3>5 DEF Window
  <2> QED BY <2>2, <2>3
<1>3. ASSUME NEW r \in Run, Upsert(r) PROVE Window'
  <2> DEFINE t == item[r]
  <2>1. /\ row' = [row EXCEPT ![t] = Queued(t, got[r][t])] /\ pc[r] = "upsert"
        /\ t \in Thing /\ got[r][t] # Nothing
        /\ got' = [got EXCEPT ![r][t] = Nothing] /\ pc' = [pc EXCEPT ![r] = "find"]
        /\ behind' = IF OutOfDate(r, t) THEN behind \cup {t} ELSE behind \ {t}
        /\ UNCHANGED <<database, window, since, writes>>
        BY <1>3 DEF Upsert, Goes, AtWork
  <2>2. row'[t].value = got[r][t] /\ \A u \in Thing : u # t => row'[u] = row[u]
        BY <2>1 DEF TypeOK, Queued
  <2> HIDE DEF t
  <2> QED BY <2>1, <2>2, TakenUp
<1>4. ASSUME NEW r \in Run, Claim(r) \/ Answer(r) PROVE Window'
  <2>1. /\ UNCHANGED <<database, window, row, reading, behind>> /\ pc[r] \in {"claim", "sent"}
        /\ \E to \in {"release", "sent", "answered"} : pc' = [pc EXCEPT ![r] = to]
        BY <1>4 DEF Claim, Answer, Goes, outbox, past
  <2> QED BY <2>1, Unread DEF reading, TypeOK
<1>5. ASSUME NEW r \in Run, NEW t \in Thing, MarkFailed(r, t) PROVE Window'
  <2>1. \A u \in Thing : row'[u].value = row[u].value
        BY <1>5 DEF MarkFailed, TypeOK, Row
  <2> QED BY <1>5, <2>1, Unread DEF MarkFailed, reading, past
<1>6. ASSUME NEW r \in Run, MarkDelivered(r) PROVE Window'
  <2>1. \A u \in Thing : row'[u].value = row[u].value
        BY <1>6 DEF MarkDelivered, TypeOK, Row
  <2>2. pc[r] = "answered" /\ \E to \in {"claim", "release"} : pc' = [pc EXCEPT ![r] = to]
        BY <1>6 DEF MarkDelivered
  <2>3. UNCHANGED <<database, window, reading, behind>>
        BY <1>6 DEF MarkDelivered, past
  <2> QED BY <2>1, <2>2, <2>3, Unread DEF reading, TypeOK
<1>7. ASSUME NEW r \in Run, Release(r) \/ Abort(r) PROVE Window'
  <2>1. /\ UNCHANGED <<database, window, row, behind>> /\ pc' = [pc EXCEPT ![r] = "idle"] /\ Forget(r)
        BY <1>7 DEF Release, Abort, Goes, outbox, past
  <2>2. \A q \in Run :
          \/ since'[q] = since[q] /\ got'[q] = got[q] /\ writes'[q] = writes[q] /\ pc'[q] = pc[q]
          \/ pc'[q] = "idle" /\ got'[q] = Each(Nothing) /\ writes'[q] = "nothing"
        BY <2>1 DEF Forget, TypeOK
  <2> QED BY <2>1, <2>2, Unread
<1>8. CASE Revive
  <2>1. \A u \in Thing : row'[u].value = row[u].value
        BY <1>8 DEF Revive, Queued
  <2> QED BY <1>8, <2>1, Unread DEF Revive, reading, past
<1>9. CASE Expire \/ UNCHANGED vars
      BY <1>9, Unread DEF Expire, vars, reading, outbox, past
<1> QED
  BY <1>1, <1>2, <1>3, <1>4, <1>5, <1>6, <1>7, <1>8, <1>9, CommitWindow, StampWindow, StartWindow,
     ProjectWindow, ChunkWindow, WriteCursorWindow DEF Next, Step

LEMMA WindowInit == Init => Window
BY DEF Init, Window, NothingOutside, WritingIsFresh, NeverNothing, GotIsThere,
   CursorMayMove, NothingMissed, Each, NoRow, Thing

(* Once the cursor is stored, money whose state is not that of its row is  *)
(* in the window of the next run, or from before the first run, wherever a *)
(* run dies, whatever commits late and however many runs are under way,    *)
(* unless a run enqueued what was out of date where the window had passed  *)
(* (NothingMissed).                                                        *)
THEOREM WindowMissesNothing == Spec => []NothingMissed
<1> DEFINE Inv == Bounds /\ Window
<1>1. Init => Inv
      BY BoundsInit, WindowInit
<1>2. Inv /\ [Next]_vars => Inv'
      BY BoundsStep, WindowStep
<1>3. Inv => NothingMissed
      BY DEF Window
<1> QED BY <1>1, <1>2, <1>3, PTL DEF Spec
=============================================================================
