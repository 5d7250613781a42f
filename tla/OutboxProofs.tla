----------------------------- MODULE OutboxProofs -----------------------------
(***************************************************************************)
(* Proofs about the outbox, for every set of intents, owners and clocks.   *)
(***************************************************************************)
EXTENDS Outbox, FiniteSetTheorems, TLAPS

(***************************************************************************)
(* What holds of single records whatever the order of appends.  Attempts:  *)
(* every state past PENDING has been claimed at least once.                *)
(***************************************************************************)
Attempts ==
    \A d \in Data :
        /\ records[d].state \in {"ABSENT", "PENDING"} => records[d].attempt_count = 0
        /\ records[d].state \notin {"ABSENT", "PENDING"} => records[d].attempt_count > 0

RecordInv == TypeOK /\ LeaseConsistent /\ Attempts /\ PoisonQuarantined

\* The initial state satisfies RecordInv.
LEMMA RecordInit == Init => RecordInv
  BY NoneAssumption
  DEF Init, RecordInv, TypeOK, LeaseConsistent, Attempts, PoisonQuarantined, AbsentRecord,
      NoCheckpoint, OutboxRecord, Checkpoint

\* append preserves RecordInv.
LEMMA RecordAppend ==
  ASSUME RecordInv, NEW d \in Data, append(d)
  PROVE  RecordInv'
<1>1. NewRecord \in OutboxRecord
  BY DEF NewRecord, AbsentRecord, OutboxRecord, OutboxState
<1>2. /\ NewRecord.state = "PENDING" /\ NewRecord.attempt_count = 0
      /\ NewRecord.lease = None
  BY DEF NewRecord, AbsentRecord
<1>3. TypeOK'
  BY <1>1 DEF RecordInv, TypeOK, append
<1>4. \A e \in Data : records'[e] = IF e = d THEN NewRecord ELSE records[e]
  BY DEF RecordInv, TypeOK, append
<1>5. LeaseConsistent' /\ Attempts' /\ PoisonQuarantined'
  BY <1>2, <1>4 DEF RecordInv, LeaseConsistent, Attempts, PoisonQuarantined
<1> QED
  BY <1>3, <1>5 DEF RecordInv

\* A claimed record: leased, one attempt older, with a lease for that attempt.
LEMMA ClaimResult ==
  ASSUME NEW r \in OutboxRecord, NEW owner \in Owner, NEW now \in Time
  PROVE  /\ Claim(r, owner, now) \in OutboxRecord
         /\ Claim(r, owner, now).state = "LEASED"
         /\ Claim(r, owner, now).attempt_count = r.attempt_count + 1
         /\ Claim(r, owner, now).lease \in OutboxLease
         /\ Claim(r, owner, now).lease.attempt = r.attempt_count + 1
         /\ Claim(r, owner, now).failure = FALSE
         /\ Claim(r, owner, now).target_fingerprint = r.target_fingerprint
<1> DEFINE lease == [owner |-> owner, expires_at |-> now + LeaseDuration,
                     attempt |-> r.attempt_count + 1]
<1>1. lease \in OutboxLease
  BY TimeAssumption, LeaseAssumption DEF OutboxLease, OutboxRecord
<1>2. Claim(r, owner, now) = [state |-> "LEASED", attempt_count |-> r.attempt_count + 1,
                              lease |-> lease, failure |-> FALSE,
                              target_fingerprint |-> r.target_fingerprint]
  BY DEF Claim, OutboxRecord
<1> HIDE DEF lease
<1>3. Claim(r, owner, now) \in OutboxRecord
  BY <1>1, <1>2 DEF OutboxRecord, OutboxState
<1>4. Claim(r, owner, now).lease.attempt = r.attempt_count + 1
  BY <1>2 DEF lease
<1> QED
  BY <1>1, <1>2, <1>3, <1>4

\* atomic_claim preserves RecordInv.
LEMMA RecordClaim ==
  ASSUME RecordInv, NEW owner \in Owner, NEW limit \in Limit, NEW now \in Time,
         atomic_claim(owner, limit, now)
  PROVE  RecordInv'
<1>1. \A d \in Data : records[d] \in OutboxRecord
  BY DEF RecordInv, TypeOK
<1>2. \A d \in Data : records'[d] = IF d \in ClaimSet(limit, now)
                                    THEN Claim(records[d], owner, now) ELSE records[d]
  BY DEF atomic_claim
<1>3. \A d \in Data : records'[d] \in OutboxRecord
  BY <1>1, <1>2, ClaimResult
<1>4. TypeOK'
  BY <1>3 DEF RecordInv, TypeOK, atomic_claim
<1>5. LeaseConsistent' /\ Attempts' /\ PoisonQuarantined'
  <2> SUFFICES ASSUME NEW d \in Data
               PROVE  /\ records'[d].lease # None <=> records'[d].state = "LEASED"
                      /\ records'[d].state = "LEASED"
                            => records'[d].lease.attempt = records'[d].attempt_count
                      /\ records'[d].state \in {"ABSENT", "PENDING"}
                            => records'[d].attempt_count = 0
                      /\ records'[d].state \notin {"ABSENT", "PENDING"}
                            => records'[d].attempt_count > 0
                      /\ records'[d].state = "RETRYABLE" /\ records'[d].failure
                            => records'[d].attempt_count < PoisonThreshold
    BY DEF LeaseConsistent, Attempts, PoisonQuarantined
  <2>1. CASE d \in ClaimSet(limit, now)
    <3>1. records'[d] = Claim(records[d], owner, now)
      BY <1>2, <2>1
    <3>2. records[d] \in OutboxRecord /\ records[d].attempt_count \in Nat
      BY <1>1 DEF OutboxRecord
    <3>3. /\ records'[d].state = "LEASED"
          /\ records'[d].attempt_count = records[d].attempt_count + 1
          /\ records'[d].lease \in OutboxLease
          /\ records'[d].lease.attempt = records[d].attempt_count + 1
      <4>1. records[d] \in OutboxRecord
        BY <3>2
      <4>2. /\ Claim(records[d], owner, now).state = "LEASED"
            /\ Claim(records[d], owner, now).attempt_count = records[d].attempt_count + 1
            /\ Claim(records[d], owner, now).lease \in OutboxLease
            /\ Claim(records[d], owner, now).lease.attempt = records[d].attempt_count + 1
        BY <4>1, ClaimResult, Zenon
      <4> QED
        BY <3>1, <4>2, Zenon
    <3> QED
      BY <3>2, <3>3, NoneAssumption
  <2>2. CASE d \notin ClaimSet(limit, now)
    BY <1>2, <2>2 DEF RecordInv, LeaseConsistent, Attempts, PoisonQuarantined
  <2> QED
    BY <2>1, <2>2
<1> QED
  BY <1>4, <1>5 DEF RecordInv

\* complete preserves RecordInv.
LEMMA RecordComplete ==
  ASSUME RecordInv, NEW d \in Data, NEW owner \in Owner, NEW version, NEW now \in Time,
         NEW fingerprint \in Fingerprint, complete(d, owner, version, fingerprint, now)
  PROVE  RecordInv'
<1> DEFINE new == [state |-> "COMPLETED", attempt_count |-> records[d].attempt_count,
                   lease |-> None, failure |-> FALSE, target_fingerprint |-> fingerprint]
<1>1. records[d] \in OutboxRecord /\ records[d].state = "LEASED"
  BY DEF RecordInv, TypeOK, complete, LeasedRecord
<1>2. /\ new.state = "COMPLETED" /\ new.lease = None /\ new.failure = FALSE
      /\ new.attempt_count = records[d].attempt_count
  OBVIOUS
<1>4. new \in OutboxRecord
  BY <1>1 DEF OutboxRecord, OutboxState
<1>3. records' = [records EXCEPT ![d] = new]
  BY DEF complete
<1> HIDE DEF new
<1>5. d.partition_key \in Partition
  BY DataAssumption DEF OutboxDataV1
<1>6. TypeOK'
  <2>1. checkpoints[d.partition_key].revision + 1 \in Nat
    BY <1>5 DEF RecordInv, TypeOK, Checkpoint
  <2>2. [revision |-> checkpoints[d.partition_key].revision + 1, data |-> d,
         target_fingerprint |-> fingerprint] \in Checkpoint
    BY <2>1 DEF Checkpoint
  <2>3. checkpoints' \in [Partition -> Checkpoint]
    BY <2>2, <1>5 DEF RecordInv, TypeOK, complete
  <2> QED
    BY <2>3, <1>3, <1>4 DEF RecordInv, TypeOK
<1>7. \A e \in Data : records'[e] = IF e = d THEN new ELSE records[e]
  BY <1>3 DEF RecordInv, TypeOK
<1>8. records[d].attempt_count > 0
  BY <1>1 DEF RecordInv, Attempts
<1>9. LeaseConsistent' /\ Attempts' /\ PoisonQuarantined'
  BY <1>2, <1>7, <1>8 DEF RecordInv, LeaseConsistent, Attempts, PoisonQuarantined
<1> QED
  BY <1>6, <1>9 DEF RecordInv

\* release preserves RecordInv.
LEMMA RecordRelease ==
  ASSUME RecordInv, NEW d \in Data, NEW owner \in Owner, NEW retryable \in BOOLEAN,
         NEW now \in Time, release(d, owner, retryable, now)
  PROVE  RecordInv'
<1> DEFINE state == IF ~retryable \/ records[d].attempt_count >= PoisonThreshold
                    THEN "QUARANTINED" ELSE "RETRYABLE"
           new == [state |-> state, attempt_count |-> records[d].attempt_count,
                   lease |-> None, failure |-> TRUE,
                   target_fingerprint |-> records[d].target_fingerprint]
<1>1. records[d] \in OutboxRecord /\ records[d].state = "LEASED"
  BY DEF RecordInv, TypeOK, release, LeasedRecord
<1>2. /\ new.state = state /\ new.lease = None
      /\ new.attempt_count = records[d].attempt_count
  OBVIOUS
<1>3. records' = [records EXCEPT ![d] = new]
  BY DEF release
<1>4. /\ state \in {"QUARANTINED", "RETRYABLE"}
      /\ state = "RETRYABLE" => records[d].attempt_count < PoisonThreshold
  BY <1>1, ThresholdAssumption DEF OutboxRecord
<1>5. new \in OutboxRecord
  BY <1>1, <1>4 DEF OutboxRecord, OutboxState
<1> HIDE DEF new, state
<1>6. TypeOK'
  BY <1>3, <1>5 DEF RecordInv, TypeOK, release
<1>7. \A e \in Data : records'[e] = IF e = d THEN new ELSE records[e]
  BY <1>3 DEF RecordInv, TypeOK
<1>8. records[d].attempt_count > 0
  BY <1>1 DEF RecordInv, Attempts
<1>9. LeaseConsistent' /\ Attempts' /\ PoisonQuarantined'
  BY <1>2, <1>4, <1>7, <1>8 DEF RecordInv, LeaseConsistent, Attempts, PoisonQuarantined
<1> QED
  BY <1>6, <1>9 DEF RecordInv

\* operator_retry preserves RecordInv.
LEMMA RecordRetry ==
  ASSUME RecordInv, NEW d \in Data, operator_retry(d)
  PROVE  RecordInv'
<1> DEFINE new == [state |-> "RETRYABLE", attempt_count |-> records[d].attempt_count,
                   lease |-> records[d].lease, failure |-> FALSE,
                   target_fingerprint |-> records[d].target_fingerprint]
<1>1. records[d] \in OutboxRecord /\ records[d].state = "QUARANTINED"
  BY DEF RecordInv, TypeOK, operator_retry
<1>2. /\ new.state = "RETRYABLE" /\ new.failure = FALSE /\ new.lease = records[d].lease
      /\ new.attempt_count = records[d].attempt_count
  OBVIOUS
<1>3. records' = [records EXCEPT ![d] = new]
  BY DEF operator_retry
<1>4. new \in OutboxRecord
  BY <1>1 DEF OutboxRecord, OutboxState
<1> HIDE DEF new
<1>5. TypeOK'
  BY <1>3, <1>4 DEF RecordInv, TypeOK, operator_retry
<1>6. \A e \in Data : records'[e] = IF e = d THEN new ELSE records[e]
  BY <1>3 DEF RecordInv, TypeOK
<1>7. records[d].attempt_count > 0 /\ records[d].lease = None
  BY <1>1 DEF RecordInv, Attempts, LeaseConsistent
<1>8. LeaseConsistent' /\ Attempts' /\ PoisonQuarantined'
  BY <1>2, <1>6, <1>7 DEF RecordInv, LeaseConsistent, Attempts, PoisonQuarantined
<1> QED
  BY <1>5, <1>8 DEF RecordInv

\* compare_and_set_checkpoint preserves RecordInv.
LEMMA RecordFixture ==
  ASSUME RecordInv, FixtureStep
  PROVE  RecordInv'
<1>1. PICK p \in Partition, d \in Data, fingerprint \in Fingerprint :
        /\ checkpoints' = [checkpoints EXCEPT ![p] =
               [revision |-> checkpoints[p].revision + 1, data |-> d,
                target_fingerprint |-> fingerprint]]
        /\ UNCHANGED records
  BY DEF FixtureStep, compare_and_set_checkpoint
<1>2. checkpoints[p].revision + 1 \in Nat
  BY DEF RecordInv, TypeOK, Checkpoint
<1>3. [revision |-> checkpoints[p].revision + 1, data |-> d,
       target_fingerprint |-> fingerprint] \in Checkpoint
  BY <1>2 DEF Checkpoint
<1>4. checkpoints' \in [Partition -> Checkpoint]
  BY <1>1, <1>3 DEF RecordInv, TypeOK
<1> QED
  BY <1>1, <1>4 DEF RecordInv, TypeOK, LeaseConsistent, Attempts, PoisonQuarantined

\* Workers and the operator preserve RecordInv.
LEMMA RecordWorkers ==
  ASSUME RecordInv, WorkerStep \/ OperatorStep
  PROVE  RecordInv'
<1>1. CASE WorkerStep
  BY <1>1, RecordClaim, RecordComplete, RecordRelease DEF WorkerStep
<1>2. CASE OperatorStep
  BY <1>2, RecordRetry DEF OperatorStep
<1> QED
  BY <1>1, <1>2

\* A stuttering step preserves RecordInv.
LEMMA RecordStutter ==
  ASSUME RecordInv, UNCHANGED vars
  PROVE  RecordInv'
  BY DEF vars, RecordInv, TypeOK, LeaseConsistent, Attempts, PoisonQuarantined

(***************************************************************************)
(* Whatever the order of appends and whatever clocks callers pass, the     *)
(* state is well formed, snapshots are valid and the poison bound holds.   *)
(***************************************************************************)
THEOREM RecordsCorrect == Spec => [](TypeOK /\ LeaseConsistent /\ PoisonQuarantined)
<1>1. RecordInv /\ [Next]_vars => RecordInv'
  BY RecordAppend, RecordWorkers, RecordFixture, RecordStutter DEF Next
<1>2. RecordInv => TypeOK /\ LeaseConsistent /\ PoisonQuarantined
  BY DEF RecordInv
<1> QED
  BY RecordInit, <1>1, <1>2, PTL DEF Spec

(***************************************************************************)
(* Every record and checkpoint the store makes is a valid one.             *)
(***************************************************************************)
THEOREM StoreTyped == Spec => []TypeOK
  BY RecordsCorrect, PTL

(***************************************************************************)
(* No snapshot is refused for a state and a lease that disagree, and a     *)
(* lease carries the number of the latest attempt.                         *)
(***************************************************************************)
THEOREM LeasesAgree == Spec => []LeaseConsistent
  BY RecordsCorrect, PTL

(***************************************************************************)
(* No operation changes a completed record.                                *)
(***************************************************************************)
THEOREM CompletedRecordsFinal == Spec => CompletedIsFinal
<1> DEFINE Final == \A d \in Data : Completed(d) => records'[d] = records[d]
<1>1. ASSUME RecordInv, [Next]_vars PROVE Final
  <2> SUFFICES ASSUME NEW d \in Data, records[d].state = "COMPLETED"
               PROVE  records'[d] = records[d]
    BY DEF Completed
  <2>0. records \in [Data -> OutboxRecord]
    BY <1>1 DEF RecordInv, TypeOK
  <2>1. ASSUME NEW e \in Data, append(e) PROVE records'[d] = records[d]
    <3>1. e # d
      BY <2>1 DEF append, Present
    <3> QED
      BY <2>0, <2>1, <3>1 DEF append
  <2>2. CASE WorkerStep
    <3>1. ASSUME NEW now \in Time, NEW owner \in Owner, NEW limit \in Limit,
                 atomic_claim(owner, limit, now)
          PROVE  records'[d] = records[d]
      <4>1. d \notin ClaimSet(limit, now)
        BY DEF ClaimSet, Claimable, PartitionHead, Incomplete, Completed
      <4> QED
        BY <3>1, <4>1 DEF atomic_claim
    <3>2. ASSUME NEW now \in Time, NEW owner \in Owner, NEW e \in Data, NEW version,
                 NEW fingerprint, complete(e, owner, version, fingerprint, now)
          PROVE  records'[d] = records[d]
      BY <2>0, <3>2 DEF complete, LeasedRecord
    <3>3. ASSUME NEW now \in Time, NEW owner \in Owner, NEW e \in Data, NEW retryable,
                 release(e, owner, retryable, now)
          PROVE  records'[d] = records[d]
      BY <2>0, <3>3 DEF release, LeasedRecord
    <3> QED
      BY <2>2, <3>1, <3>2, <3>3 DEF WorkerStep
  <2>3. CASE OperatorStep
    BY <2>0, <2>3 DEF OperatorStep, operator_retry
  <2>4. CASE FixtureStep
    BY <2>4 DEF FixtureStep, compare_and_set_checkpoint
  <2> QED
    BY <1>1, <2>1, <2>2, <2>3, <2>4 DEF Next, vars
<1>2. RecordInv /\ [Next]_vars => RecordInv'
  BY RecordAppend, RecordWorkers, RecordFixture, RecordStutter DEF Next
<1>3. RecordInv /\ [Next]_vars => [Final]_vars
  BY <1>1
<1> QED
  BY RecordInit, <1>2, <1>3, PTL DEF Spec, CompletedIsFinal

--------------------------------------------------------------------------------
(***************************************************************************)
(* Ordered behaviours.  NoSilentSkip is inductive with two facts: event    *)
(* ids identify records, so that the order of a partition is total, and    *)
(* what was never claimed has no attempts (Attempts).                      *)
(***************************************************************************)
UniqueIds ==
    \A d, e \in Data : Present(d) /\ Present(e) /\ d.event_id = e.event_id => d = e

OrderInv == RecordInv /\ UniqueIds /\ NoSilentSkip /\ CheckpointIsFrontier

\* Intents carry numbers.
LEMMA DataTypes ==
  ASSUME NEW d \in Data
  PROVE  d.event_id \in Nat /\ d.occurred_at \in Nat /\ d.partition_key \in Partition
  BY DataAssumption DEF OutboxDataV1

\* Before is a strict order.
LEMMA BeforeAsymmetric ==
  ASSUME NEW d \in Data, NEW e \in Data, Before(d, e)
  PROVE  ~Before(e, d)
  BY DataTypes DEF Before

\* Before orders any two intents with different event ids.
LEMMA BeforeTotal ==
  ASSUME NEW d \in Data, NEW e \in Data, d.event_id # e.event_id
  PROVE  Before(d, e) \/ Before(e, d)
  BY DataTypes DEF Before

\* In an ordered state the completed intents of a partition precede its others.
LEMMA CompletedFirst ==
  ASSUME OrderInv, NEW d \in Data, NEW e \in Data, Completed(e), Incomplete(d),
         d.partition_key = e.partition_key
  PROVE  Before(e, d)
<1>1. d # e /\ Present(d) /\ Present(e)
  BY DEF Completed, Incomplete, Present
<1>2. d.event_id # e.event_id
  BY <1>1 DEF OrderInv, UniqueIds
<1>3. records[e].attempt_count > 0
  BY DEF OrderInv, RecordInv, Attempts, Completed
<1>4. ~Before(d, e)
  BY <1>1, <1>3 DEF OrderInv, NoSilentSkip, Earlier, Incomplete
<1> QED
  BY <1>2, <1>4, BeforeTotal

\* A step that completes nothing leaves every partition's frontier alone.
LEMMA FrontierKept ==
  ASSUME CheckpointIsFrontier, UNCHANGED checkpoints,
         \A d \in Data : Completed(d)' <=> Completed(d),
         \A d \in Data : Completed(d)
             => records'[d].target_fingerprint = records[d].target_fingerprint
  PROVE  CheckpointIsFrontier'
<1>1. \A p : CompletedIn(p)' = CompletedIn(p)
  BY DEF CompletedIn
<1> QED
  BY <1>1, ZenonT(30) DEF CheckpointIsFrontier, CompletedIn

\* The initial state is ordered.
LEMMA OrderInit == Init => OrderInv
<1> SUFFICES ASSUME Init PROVE OrderInv
  OBVIOUS
<1>1. \A d \in Data : records[d].state = "ABSENT" /\ records[d].attempt_count = 0
  BY DEF Init, AbsentRecord
<1>2. \A p : CompletedIn(p) = {}
  BY <1>1 DEF CompletedIn, Completed
<1>3. CheckpointIsFrontier
  BY <1>2, FS_EmptySet DEF CheckpointIsFrontier, Init, NoCheckpoint
<1> QED
  BY <1>1, <1>3, RecordInit DEF OrderInv, UniqueIds, NoSilentSkip, Present

\* Appending in order keeps the order.
LEMMA OrderAppend ==
  ASSUME OrderInv, NEW d \in Data, AppendInOrder(d)
  PROVE  OrderInv'
<1>0. append(d)
  BY DEF AppendInOrder
<1>1. RecordInv'
  BY <1>0, RecordAppend DEF OrderInv
<1>2. \A e \in Data : records'[e] = IF e = d THEN NewRecord ELSE records[e]
  BY <1>0 DEF OrderInv, RecordInv, TypeOK, append
<1>3. NewRecord.state = "PENDING" /\ NewRecord.attempt_count = 0
  BY DEF NewRecord
<1>4. ~Present(d)
  BY <1>0 DEF append
<1>5. UniqueIds'
  BY <1>0, <1>2 DEF OrderInv, UniqueIds, Present, append
<1>6. NoSilentSkip'
  <2> SUFFICES ASSUME NEW x \in Data, NEW y \in Data, records'[x].attempt_count > 0,
                      Present(y)', Earlier(y, x)
               PROVE  Completed(y)'
    BY DEF NoSilentSkip, Earlier, Before
  <2>1. x # d /\ records[x].attempt_count > 0
    BY <1>2, <1>3
  <2>2. Present(x)
    BY <2>1 DEF OrderInv, RecordInv, Attempts, Present
  <2>3. CASE y = d
    <3>1. Before(x, d)
      BY <2>2, <2>3 DEF AppendInOrder, Earlier
    <3> QED
      BY <3>1, <2>3, BeforeAsymmetric DEF Earlier
  <2>4. CASE y # d
    BY <2>1, <2>4, <1>2 DEF OrderInv, NoSilentSkip, Present, Completed
  <2> QED
    BY <2>3, <2>4
<1>7. CheckpointIsFrontier'
  <2>1. \A e \in Data : Completed(e)' <=> Completed(e)
    BY <1>2, <1>3, <1>4 DEF Completed, Present
  <2>2. \A e \in Data : Completed(e)
            => records'[e].target_fingerprint = records[e].target_fingerprint
    BY <1>2, <1>4 DEF Completed, Present
  <2>3. UNCHANGED checkpoints
    BY <1>0 DEF append
  <2> QED
    BY <2>1, <2>2, <2>3, FrontierKept DEF OrderInv
<1> QED
  BY <1>1, <1>5, <1>6, <1>7 DEF OrderInv

\* A claim publishes and completes nothing.
LEMMA ClaimVisible ==
  ASSUME NEW owner, NEW limit, NEW now, atomic_claim(owner, limit, now)
  PROVE  \A d \in Data : /\ Present(d)' <=> Present(d)
                         /\ Completed(d)' <=> Completed(d)
                         /\ records'[d].target_fingerprint = records[d].target_fingerprint
<1>2. \A d \in Data : records'[d] = IF d \in ClaimSet(limit, now)
                                    THEN Claim(records[d], owner, now) ELSE records[d]
  BY DEF atomic_claim
<1>3. \A d \in ClaimSet(limit, now) : d \in Data /\ PartitionHead(d)
  BY DEF ClaimSet, Claimable
<1> TAKE d \in Data
<1>4. CASE d \in ClaimSet(limit, now)
  <2>1. records[d].state # "ABSENT" /\ records[d].state # "COMPLETED"
    BY <1>3, <1>4 DEF PartitionHead, Incomplete, Present, Completed
  <2>2. records'[d] = Claim(records[d], owner, now)
    BY <1>2, <1>4
  <2>3. /\ records'[d].state = "LEASED"
        /\ records'[d].target_fingerprint = records[d].target_fingerprint
    BY <2>2 DEF Claim
  <2> QED
    BY <2>1, <2>3 DEF Present, Completed
<1>5. CASE d \notin ClaimSet(limit, now)
  BY <1>2, <1>5 DEF Present, Completed
<1> QED
  BY <1>4, <1>5

\* Only heads of partitions are claimed, so claims keep the order.
LEMMA OrderClaim ==
  ASSUME OrderInv, NEW owner \in Owner, NEW limit \in Limit, NEW now \in Time,
         atomic_claim(owner, limit, now)
  PROVE  OrderInv'
<1>1. RecordInv'
  BY RecordClaim DEF OrderInv
<1>2. \A d \in Data : records'[d] = IF d \in ClaimSet(limit, now)
                                    THEN Claim(records[d], owner, now) ELSE records[d]
  BY DEF atomic_claim
<1>3. \A d \in ClaimSet(limit, now) : d \in Data /\ PartitionHead(d)
  BY DEF ClaimSet, Claimable
<1>4. \A d \in Data : /\ Present(d)' <=> Present(d)
                      /\ Completed(d)' <=> Completed(d)
                      /\ records'[d].target_fingerprint = records[d].target_fingerprint
  BY ClaimVisible
<1>5. UniqueIds'
  BY <1>4 DEF OrderInv, UniqueIds
<1>6. NoSilentSkip'
  <2> SUFFICES ASSUME NEW x \in Data, NEW y \in Data, records'[x].attempt_count > 0,
                      Present(y), Earlier(y, x)
               PROVE  Completed(y)
    BY <1>4 DEF NoSilentSkip, Earlier, Before
  <2>1. CASE x \in ClaimSet(limit, now)
    BY <1>3, <2>1 DEF PartitionHead, Incomplete
  <2>2. CASE x \notin ClaimSet(limit, now)
    BY <1>2, <2>2 DEF OrderInv, NoSilentSkip
  <2> QED
    BY <2>1, <2>2
<1>7. UNCHANGED checkpoints
  BY DEF atomic_claim
<1>8. CheckpointIsFrontier'
  BY <1>4, <1>7, FrontierKept DEF OrderInv
<1> QED
  BY <1>1, <1>5, <1>6, <1>8 DEF OrderInv

\* Releases and operator retries complete nothing and attempt nothing.
LEMMA OrderKept ==
  ASSUME OrderInv, RecordInv', UNCHANGED checkpoints, NEW d \in Data,
         ~Completed(d), Present(d), ~Completed(d)', Present(d)',
         records'[d].attempt_count = records[d].attempt_count,
         \A e \in Data : e # d => records'[e] = records[e]
  PROVE  OrderInv'
<1>1. \A e \in Data : /\ Present(e)' <=> Present(e)
                      /\ Completed(e)' <=> Completed(e)
                      /\ records'[e].attempt_count = records[e].attempt_count
  BY DEF Present, Completed
<1>2. UniqueIds'
  BY <1>1 DEF OrderInv, UniqueIds
<1>3. NoSilentSkip'
  BY <1>1 DEF OrderInv, NoSilentSkip, Earlier, Before
<1>4. \A e \in Data : Completed(e)
            => records'[e].target_fingerprint = records[e].target_fingerprint
  OBVIOUS
<1>5. CheckpointIsFrontier'
  BY <1>1, <1>4, FrontierKept DEF OrderInv
<1> QED
  BY <1>2, <1>3, <1>5 DEF OrderInv
\* release keeps the order.
LEMMA OrderRelease ==
  ASSUME OrderInv, NEW d \in Data, NEW owner \in Owner, NEW retryable \in BOOLEAN,
         NEW now \in Time, release(d, owner, retryable, now)
  PROVE  OrderInv'
<1>1. RecordInv'
  BY RecordRelease DEF OrderInv
<1>2. records \in [Data -> OutboxRecord]
  BY DEF OrderInv, RecordInv, TypeOK
<1>3. /\ records'[d].state \in {"QUARANTINED", "RETRYABLE"}
      /\ records'[d].attempt_count = records[d].attempt_count
      /\ \A e \in Data : e # d => records'[e] = records[e]
  BY <1>2 DEF release
<1>4. records[d].state = "LEASED" /\ UNCHANGED checkpoints
  BY DEF release, LeasedRecord
<1> QED
  BY <1>1, <1>3, <1>4, OrderKept DEF Present, Completed

\* operator_retry keeps the order.
LEMMA OrderRetry ==
  ASSUME OrderInv, NEW d \in Data, operator_retry(d)
  PROVE  OrderInv'
<1>1. RecordInv'
  BY RecordRetry DEF OrderInv
<1>2. records \in [Data -> OutboxRecord]
  BY DEF OrderInv, RecordInv, TypeOK
<1>3. /\ records'[d].state = "RETRYABLE"
      /\ records'[d].attempt_count = records[d].attempt_count
      /\ \A e \in Data : e # d => records'[e] = records[e]
  BY <1>2 DEF operator_retry
<1>4. records[d].state = "QUARANTINED" /\ UNCHANGED checkpoints
  BY DEF operator_retry
<1> QED
  BY <1>1, <1>3, <1>4, OrderKept DEF Present, Completed

\* What complete does, seen from the records and the checkpoints.
Completes(d, fingerprint) ==
    /\ Incomplete(d) /\ records[d].attempt_count > 0
    /\ \A e \in Data : /\ Present(e)' <=> Present(e)
                       /\ Completed(e)' <=> Completed(e) \/ e = d
                       /\ records'[e].attempt_count = records[e].attempt_count
                       /\ e # d => records'[e] = records[e]
    /\ records'[d].target_fingerprint = fingerprint
    /\ checkpoints' = [checkpoints EXCEPT ![d.partition_key] =
           [revision |-> checkpoints[d.partition_key].revision + 1, data |-> d,
            target_fingerprint |-> fingerprint]]

\* complete completes the record it is called for.
LEMMA CompleteEffect ==
  ASSUME OrderInv, NEW d \in Data, NEW owner \in Owner, NEW version, NEW now \in Time,
         NEW fingerprint \in Fingerprint, complete(d, owner, version, fingerprint, now)
  PROVE  Completes(d, fingerprint)
<1>1. records \in [Data -> OutboxRecord]
  BY DEF OrderInv, RecordInv, TypeOK
<1>2. records[d].state = "LEASED"
  BY DEF complete, LeasedRecord
<1>3. /\ records'[d].state = "COMPLETED"
      /\ records'[d].attempt_count = records[d].attempt_count
      /\ records'[d].target_fingerprint = fingerprint
      /\ \A e \in Data : e # d => records'[e] = records[e]
  BY <1>1 DEF complete
<1>4. records[d].attempt_count > 0
  BY <1>2 DEF OrderInv, RecordInv, Attempts
<1> QED
  BY <1>2, <1>3, <1>4 DEF Completes, complete, Present, Completed, Incomplete

\* complete keeps the order and moves the frontier to the completed intent.
LEMMA OrderComplete ==
  ASSUME OrderInv, NEW d \in Data, NEW owner \in Owner, NEW version, NEW now \in Time,
         NEW fingerprint \in Fingerprint, complete(d, owner, version, fingerprint, now)
  PROVE  OrderInv'
<1>1. RecordInv'
  BY RecordComplete DEF OrderInv
<1>0. Completes(d, fingerprint)
  BY CompleteEffect
<1>2. /\ Incomplete(d) /\ records[d].attempt_count > 0
      /\ \A e \in Data : /\ Present(e)' <=> Present(e)
                         /\ Completed(e)' <=> Completed(e) \/ e = d
                         /\ records'[e].attempt_count = records[e].attempt_count
                         /\ e # d => records'[e] = records[e]
      /\ records'[d].target_fingerprint = fingerprint
  BY <1>0 DEF Completes
<1>3. UniqueIds'
  BY <1>2 DEF OrderInv, UniqueIds
<1>4. NoSilentSkip'
  BY <1>2 DEF OrderInv, NoSilentSkip, Earlier, Before
<1>5. CheckpointIsFrontier'
  <2> DEFINE q == d.partition_key
             new == [revision |-> checkpoints[q].revision + 1, data |-> d,
                     target_fingerprint |-> fingerprint]
  <2>1. q \in Partition
    BY DataTypes
  <2>2. checkpoints' = [checkpoints EXCEPT ![q] = new]
    BY <1>0 DEF Completes
  <2>3. checkpoints'[q] = new /\ \A p \in Partition : p # q => checkpoints'[p] = checkpoints[p]
    BY <2>1, <2>2 DEF OrderInv, RecordInv, TypeOK
  <2>4. /\ new.revision = checkpoints[q].revision + 1
        /\ new.data = d
        /\ new.target_fingerprint = fingerprint
    OBVIOUS
  <2>5. CompletedIn(q)' = CompletedIn(q) \cup {d}
    BY <1>2 DEF CompletedIn
  <2>6. \A p : p # q => CompletedIn(p)' = CompletedIn(p)
    BY <1>2 DEF CompletedIn
  <2> HIDE DEF new, q
  <2> SUFFICES ASSUME NEW p \in Partition
               PROVE  /\ checkpoints'[p].revision = Cardinality(CompletedIn(p)')
                      /\ CompletedIn(p)' = {} => checkpoints'[p] = NoCheckpoint
                      /\ CompletedIn(p)' # {} =>
                          /\ checkpoints'[p].data \in CompletedIn(p)'
                          /\ checkpoints'[p].target_fingerprint
                                 = records'[checkpoints'[p].data].target_fingerprint
                          /\ \A e \in CompletedIn(p)' :
                                 e = checkpoints'[p].data \/ Before(e, checkpoints'[p].data)
    BY DEF CheckpointIsFrontier, Before, NoCheckpoint
  <2>7. CASE p = q
    <3>1. d \notin CompletedIn(q) /\ IsFiniteSet(CompletedIn(q))
      BY <1>2, DataAssumption, FS_Subset DEF CompletedIn, Incomplete
    <3>2. Cardinality(CompletedIn(q) \cup {d}) = Cardinality(CompletedIn(q)) + 1
      BY <3>1, FS_AddElement
    <3>3. checkpoints[q].revision = Cardinality(CompletedIn(q))
      BY <2>1 DEF OrderInv, CheckpointIsFrontier
    <3>4. \A e \in CompletedIn(q) : Before(e, d)
      BY <1>2, CompletedFirst DEF CompletedIn, q
    <3> QED
      BY <2>7, <2>3, <2>4, <2>5, <1>2, <3>2, <3>3, <3>4
  <2>8. CASE p # q
    <3>1. checkpoints'[p] = checkpoints[p] /\ CompletedIn(p)' = CompletedIn(p)
      BY <2>3, <2>6, <2>8
    <3>2. \A e \in CompletedIn(p) : records'[e] = records[e]
      BY <1>2 DEF CompletedIn, Incomplete
    <3> QED
      BY <3>1, <3>2 DEF OrderInv, CheckpointIsFrontier
  <2> QED
    BY <2>7, <2>8
<1> QED
  BY <1>1, <1>3, <1>4, <1>5 DEF OrderInv

\* Every step of an ordered behaviour preserves OrderInv.
LEMMA OrderStep == OrderInv /\ [OrderedNext]_vars => OrderInv'
<1> SUFFICES ASSUME OrderInv, [OrderedNext]_vars PROVE OrderInv'
  OBVIOUS
<1>1. CASE \E d \in Data : AppendInOrder(d)
  BY <1>1, OrderAppend
<1>2. CASE WorkerStep
  BY <1>2, OrderClaim, OrderComplete, OrderRelease DEF WorkerStep
<1>3. CASE OperatorStep
  BY <1>3, OrderRetry DEF OperatorStep
<1>4. CASE UNCHANGED vars
  <2>1. RecordInv'
    BY <1>4, RecordStutter DEF OrderInv
  <2>2. \A d \in Data : Completed(d)' <=> Completed(d)
    BY <1>4 DEF vars, Completed
  <2>3. CheckpointIsFrontier'
    BY <1>4, <2>2, FrontierKept DEF OrderInv, vars
  <2> QED
    BY <1>4, <2>1, <2>3
    DEF OrderInv, vars, UniqueIds, NoSilentSkip, Present, Completed, Earlier, Before
<1> QED
  BY <1>1, <1>2, <1>3, <1>4 DEF OrderedNext

\* At most one intent of a partition is leased in an ordered state.
LEMMA OneLease == OrderInv => OneLeasePerPartition
<1> SUFFICES ASSUME OrderInv, NEW d \in Data, NEW e \in Data,
                    records[d].state = "LEASED", records[e].state = "LEASED",
                    d.partition_key = e.partition_key, d # e
             PROVE  FALSE
  BY DEF OneLeasePerPartition
<1>1. d.event_id # e.event_id
  BY DEF OrderInv, UniqueIds, Present
<1>2. records[d].attempt_count > 0 /\ records[e].attempt_count > 0
  BY DEF OrderInv, RecordInv, Attempts
<1>3. ~Before(d, e) /\ ~Before(e, d)
  BY <1>2 DEF OrderInv, NoSilentSkip, Earlier, Present, Completed
<1> QED
  BY <1>1, <1>3, BeforeTotal

(***************************************************************************)
(* If producers append in order, no intent of a partition is handed out    *)
(* before those in front of it are completed, no two are out at once, and  *)
(* the checkpoint is exactly the frontier of what is completed.            *)
(***************************************************************************)
THEOREM OrderingCorrect ==
  OrderedSpec => [](NoSilentSkip /\ OneLeasePerPartition /\ CheckpointIsFrontier)
<1>1. OrderInv => NoSilentSkip /\ OneLeasePerPartition /\ CheckpointIsFrontier
  BY OneLease DEF OrderInv
<1> QED
  BY OrderInit, OrderStep, <1>1, PTL DEF OrderedSpec

(***************************************************************************)
(* Two workers never hold leases of one partition.                         *)
(***************************************************************************)
THEOREM LeasesApart == OrderedSpec => []OneLeasePerPartition
  BY OrderingCorrect, PTL

(***************************************************************************)
(* The checkpoint of a partition is the last of its completed intents.     *)
(***************************************************************************)
THEOREM CheckpointsAtFrontier == OrderedSpec => []CheckpointIsFrontier
  BY OrderingCorrect, PTL

--------------------------------------------------------------------------------
(***************************************************************************)
(* The refinement, step by step.                                           *)
(***************************************************************************)
published == {d \in Data : Present(d)}
delivered == {d \in Data : Completed(d)}
position  == [p \in Partition |-> checkpoints[p].data]

\* A step that publishes and completes nothing and moves no checkpoint stutters.
LEMMA DeliveryStutter ==
  ASSUME UNCHANGED checkpoints,
         \A d \in Data : (Present(d)' <=> Present(d)) /\ (Completed(d)' <=> Completed(d))
  PROVE  UNCHANGED Delivery!vars
<1>1. published' = published
  BY DEF published
<1>2. delivered' = delivered
  BY DEF delivered
<1>3. position' = position
  BY DEF position
<1> QED
  BY <1>1, <1>2, <1>3 DEF Delivery!vars, published, delivered, position

\* Appending in order publishes.
LEMMA DeliveryPublish ==
  ASSUME OrderInv, NEW d \in Data, AppendInOrder(d)
  PROVE  Delivery!Publish(d)
<1>1. append(d)
  BY DEF AppendInOrder
<1>2. \A e \in Data : records'[e] = IF e = d THEN NewRecord ELSE records[e]
  BY <1>1 DEF OrderInv, RecordInv, TypeOK, append
<1>3. NewRecord.state = "PENDING"
  BY DEF NewRecord
<1>4. ~Present(d)
  BY <1>1 DEF append
<1>5. published' = published \cup {d}
  BY <1>2, <1>3 DEF published, Present
<1>6. delivered' = delivered
  BY <1>2, <1>3, <1>4 DEF delivered, Completed, Present
<1>7. position' = position
  BY <1>1 DEF position, append
<1>8. \A e \in published : d.event_id # e.event_id
  BY <1>1 DEF append, published
<1>9. \A e \in published : e.partition_key = d.partition_key => Before(e, d)
  BY DEF AppendInOrder, published
<1> QED
  BY <1>5, <1>6, <1>7, <1>8, <1>9
  DEF Delivery!Publish, Delivery!Before, Before, published, delivered, position

\* Completing delivers.
LEMMA DeliveryDeliver ==
  ASSUME OrderInv, NEW d \in Data, NEW fingerprint, Completes(d, fingerprint)
  PROVE  Delivery!Deliver(d)
<1> DEFINE q == d.partition_key
           new == [revision |-> checkpoints[q].revision + 1, data |-> d,
                   target_fingerprint |-> fingerprint]
<1>1. q \in Partition
  BY DataTypes
<1>2. checkpoints' = [checkpoints EXCEPT ![q] = new] /\ new.data = d
  BY DEF Completes
<1>3. /\ Incomplete(d) /\ records[d].attempt_count > 0
      /\ \A e \in Data : /\ Present(e)' <=> Present(e)
                         /\ Completed(e)' <=> Completed(e) \/ e = d
  BY DEF Completes
<1>4. published' = published
  BY <1>3 DEF published
<1>5. delivered' = delivered \cup {d}
  BY <1>3 DEF delivered
<1> HIDE DEF new
<1>6. position' = [position EXCEPT ![q] = d]
  BY <1>1, <1>2 DEF position, OrderInv, RecordInv, TypeOK
<1>7. d \in published \ delivered
  BY <1>3 DEF published, delivered, Incomplete
<1>8. \A e \in published : Earlier(e, d) => e \in delivered
  BY <1>3 DEF OrderInv, NoSilentSkip, published, delivered
<1> QED
  BY <1>4, <1>5, <1>6, <1>7, <1>8
  DEF Delivery!Deliver, Delivery!Earlier, Delivery!Before, Earlier, Before,
      published, delivered, position

(***************************************************************************)
(* The outbox delivers every partition once and in order: each of its      *)
(* steps publishes an intent, delivers the oldest undelivered one of a     *)
(* partition and moves the checkpoint to it, or is invisible.              *)
(***************************************************************************)
THEOREM ImplementsOrderedDelivery == OrderedSpec => DeliverySpec
<1>1. Init => Delivery!Init
  <2> SUFFICES ASSUME Init PROVE Delivery!Init
    OBVIOUS
  <2>1. \A d \in Data : records[d].state = "ABSENT"
    BY DEF Init, AbsentRecord
  <2>2. \A p \in Partition : checkpoints[p].data = None
    BY DEF Init, NoCheckpoint
  <2> QED
    BY <2>1, <2>2 DEF Delivery!Init, Present, Completed
<1>2. OrderInv /\ [OrderedNext]_vars => [Delivery!Next]_(Delivery!vars)
  <2> SUFFICES ASSUME OrderInv, [OrderedNext]_vars
               PROVE  [Delivery!Next]_(Delivery!vars)
    OBVIOUS
  <2>1. CASE \E d \in Data : AppendInOrder(d)
    BY <2>1, DeliveryPublish DEF Delivery!Next
  <2>2. ASSUME NEW now \in Time, NEW owner \in Owner, NEW limit \in Limit,
               atomic_claim(owner, limit, now)
        PROVE  UNCHANGED Delivery!vars
    <3>1. \A d \in Data : (Present(d)' <=> Present(d)) /\ (Completed(d)' <=> Completed(d))
      BY <2>2, ClaimVisible
    <3> QED
      BY <2>2, <3>1, DeliveryStutter DEF atomic_claim
  <2>3. ASSUME NEW now \in Time, NEW owner \in Owner, NEW d \in Data, NEW version \in Version,
               NEW fingerprint \in Fingerprint, complete(d, owner, version, fingerprint, now)
        PROVE  Delivery!Deliver(d)
    BY <2>3, CompleteEffect, DeliveryDeliver
  <2>4. ASSUME NEW now \in Time, NEW owner \in Owner, NEW d \in Data,
               NEW retryable \in BOOLEAN, release(d, owner, retryable, now)
        PROVE  UNCHANGED Delivery!vars
    <3>1. records \in [Data -> OutboxRecord] /\ UNCHANGED checkpoints
      BY <2>4 DEF OrderInv, RecordInv, TypeOK, release
    <3>2. records[d].state = "LEASED" /\ records'[d].state \in {"QUARANTINED", "RETRYABLE"}
      BY <2>4, <3>1 DEF release, LeasedRecord
    <3>3. \A e \in Data : e # d => records'[e] = records[e]
      BY <2>4, <3>1 DEF release
    <3> QED
      BY <3>1, <3>2, <3>3, DeliveryStutter DEF Present, Completed
  <2>5. ASSUME NEW d \in Data, operator_retry(d)
        PROVE  UNCHANGED Delivery!vars
    <3>1. records \in [Data -> OutboxRecord] /\ UNCHANGED checkpoints
      BY <2>5 DEF OrderInv, RecordInv, TypeOK, operator_retry
    <3>2. records[d].state = "QUARANTINED" /\ records'[d].state = "RETRYABLE"
      BY <2>5, <3>1 DEF operator_retry
    <3>3. \A e \in Data : e # d => records'[e] = records[e]
      BY <2>5, <3>1 DEF operator_retry
    <3> QED
      BY <3>1, <3>2, <3>3, DeliveryStutter DEF Present, Completed
  <2>6. CASE UNCHANGED vars
    BY <2>6, DeliveryStutter DEF vars, Present, Completed
  <2> QED
    BY <2>1, <2>2, <2>3, <2>4, <2>5, <2>6
    DEF OrderedNext, WorkerStep, OperatorStep, Delivery!Next
<1> QED
  BY OrderInit, OrderStep, <1>1, <1>2, PTL DEF OrderedSpec, DeliverySpec, Delivery!Spec
================================================================================
