----------------------------- MODULE RunnerProofs -----------------------------
(***************************************************************************)
(* Proofs about workers and store together, for every number of workers,   *)
(* every skew of their clocks and every number of faults.                  *)
(***************************************************************************)
EXTENDS ProjectionRunner, OutboxProofs

\* A clock shows a time.
LEMMA ReadingsAreTimes ==
  ASSUME NEW now \in Readings
  PROVE  now \in Time
  BY DEF Readings

\* What is in a batch is about an intent.
LEMMA BatchTypes ==
  ASSUME RTypeOK, NEW w \in Worker, NEW s \in batch[w]
  PROVE  s \in Snapshot /\ s.data \in Data /\ s.attempt \in Nat
  BY DEF RTypeOK, Snapshot

\* What workers, host and operator do; producers are left out.
Projecting ==
    \/ \E w \in Worker : WorkerAction(w) \/ Crash(w) \/ Restart(w)
    \/ SetStop \/ Operate \/ Tick \/ SlowTick

\* To the store, it is what workers and the operator do there, or nothing.
LEMMA ProjectingStoreStep ==
  ASSUME RTypeOK, Projecting
  PROVE  [WorkerStep \/ OperatorStep]_vars
<1>1. ASSUME NEW w \in Worker, StartCycle(w) PROVE WorkerStep
  <2>1. PICK now \in Readings : atomic_claim(OwnerOf[w], BatchSize, now)
    BY <1>1 DEF StartCycle
  <2>2. now \in Time /\ OwnerOf[w] \in Owner /\ BatchSize \in Limit
    BY OwnerAssumption, BatchAssumption, ReadingsAreTimes
  <2> QED
    BY <2>1, <2>2 DEF WorkerStep
<1>2. ASSUME NEW w \in Worker, Complete(w) \/ CompleteWithoutEvidence(w) PROVE WorkerStep
  <2>1. PICK s \in batch[w], now \in Readings, fingerprint \in Fingerprint :
             complete(s.data, OwnerOf[w], acknowledged[w], fingerprint, now)
    BY <1>2 DEF Complete, CompleteWithoutEvidence
  <2>2. now \in Time /\ OwnerOf[w] \in Owner /\ s.data \in Data
    BY OwnerAssumption, ReadingsAreTimes, BatchTypes
  <2>3. acknowledged[w] \in Version
    BY <2>1, <2>2, DataAssumption DEF complete, OutboxDataV1
  <2> QED
    BY <2>1, <2>2, <2>3 DEF WorkerStep
<1>3. ASSUME NEW w \in Worker, Release(w) \/ ReleaseWithoutEvidence(w) PROVE WorkerStep
  <2>1. PICK s \in batch[w], now \in Readings :
             release(s.data, OwnerOf[w], retryable[w], now)
    BY <1>3 DEF Release, ReleaseWithoutEvidence
  <2>2. now \in Time /\ OwnerOf[w] \in Owner /\ s.data \in Data
    BY OwnerAssumption, ReadingsAreTimes, BatchTypes
  <2>3. retryable[w] \in BOOLEAN
    BY DEF RTypeOK
  <2> QED
    BY <2>1, <2>2, <2>3 DEF WorkerStep
<1>4. ASSUME NEW w \in Worker,
             \/ AttemptFails(w) \/ Execute(w) \/ CompleteRejected(w) \/ ReleaseRejected(w)
             \/ StopWorker(w) \/ Crash(w) \/ Restart(w)
      PROVE  UNCHANGED vars
  BY <1>4 DEF AttemptFails, Execute, CompleteRejected, ReleaseRejected, StopWorker, Crash, Restart
<1>5. CASE SetStop \/ Tick \/ SlowTick
  BY <1>5 DEF SetStop, Tick, SlowTick
<1>6. CASE Operate
  BY <1>6 DEF Operate, OperatorStep
<1> QED
  BY <1>1, <1>2, <1>3, <1>4, <1>5, <1>6 DEF Projecting, WorkerAction

\* With its producers, a step of an ordered behaviour.
LEMMA RunnerStoreStep ==
  ASSUME RTypeOK, [RNext]_rvars
  PROVE  [OrderedNext]_vars
<1>1. CASE Projecting
  BY <1>1, ProjectingStoreStep DEF OrderedNext
<1>2. CASE Produce
  BY <1>2 DEF Produce, OrderedNext
<1>3. CASE UNCHANGED rvars
  BY <1>3 DEF rvars, vars
<1> QED
  BY <1>1, <1>2, <1>3 DEF RNext, Projecting

--------------------------------------------------------------------------------
\* The runner's own variables keep their types.
LEMMA RunnerTypes ==
  ASSUME RTypeOK, TypeOK', [RNext]_rvars
  PROVE  RTypeOK'
<1> USE DEF RTypeOK, Location
<1>0. Nat \in SUBSET Int /\ \A n \in Nat : n > 0 => n - 1 \in Nat
  OBVIOUS
<1>1. ASSUME NEW w \in Worker, StartCycle(w) PROVE RTypeOK'
  <2>1. PICK now \in Readings :
          batch' = [batch EXCEPT ![w] =
             {[data |-> d, attempt |-> records[d].attempt_count + 1]
                 : d \in ClaimSet(BatchSize, now)}]
    BY <1>1 DEF StartCycle
  <2>2. \A d \in Data : [data |-> d, attempt |-> records[d].attempt_count + 1] \in Snapshot
    BY DEF Snapshot, TypeOK, OutboxRecord
  <2>3. ClaimSet(BatchSize, now) \subseteq Data
    BY DEF ClaimSet
  <2>4. batch' \in [Worker -> SUBSET Snapshot]
    BY <2>1, <2>2, <2>3
  <2> QED
    BY <1>1, <2>4 DEF StartCycle, Goto
<1>2. ASSUME NEW w \in Worker, AttemptFails(w) PROVE RTypeOK'
  BY <1>2, BatchTypes DEF AttemptFails, Goto
<1>3. ASSUME NEW w \in Worker, Execute(w) PROVE RTypeOK'
  BY <1>3, BatchTypes, ZenonT(30) DEF Execute, Goto
<1>4. ASSUME NEW w \in Worker, Complete(w) \/ Release(w) PROVE RTypeOK'
  <2>1. /\ \E s \in batch[w] : NextRecord(w, s)
        /\ UNCHANGED <<clock, target, stop, faults>>
    BY <1>4 DEF Complete, Release
  <2>2. PICK s \in batch[w] : NextRecord(w, s)
    BY <2>1
  <2>3. batch' = [batch EXCEPT ![w] = batch[w] \ {s}]
    BY <2>2 DEF NextRecord
  <2>4. batch' \in [Worker -> SUBSET Snapshot]
    BY <2>3
  <2>5. pc' \in [Worker -> Location]
    BY <2>2 DEF NextRecord, Goto
  <2>6. /\ acknowledged' \in [Worker -> Version \cup {None}]
        /\ retryable' \in [Worker -> BOOLEAN]
    BY <2>2 DEF NextRecord, Forget
  <2> QED
    BY <2>1, <2>4, <2>5, <2>6
<1>5. ASSUME NEW w \in Worker, CompleteWithoutEvidence(w) \/ CompleteRejected(w) PROVE RTypeOK'
  BY <1>0, <1>5 DEF CompleteWithoutEvidence, CompleteRejected, Forget, Fault, Goto
<1>6. ASSUME NEW w \in Worker,
             ReleaseWithoutEvidence(w) \/ ReleaseRejected(w) \/ Crash(w)
      PROVE  RTypeOK'
  BY <1>0, <1>6 DEF ReleaseWithoutEvidence, ReleaseRejected, Crash, Abort, Forget, Fault, Goto
<1>7. ASSUME NEW w \in Worker, StopWorker(w) \/ Restart(w) PROVE RTypeOK'
  BY <1>7 DEF StopWorker, Restart, Goto
<1>8. CASE SetStop
  BY <1>8 DEF SetStop, workerVars
<1>11. CASE Tick \/ SlowTick
  <2>1. /\ UNCHANGED <<workerVars, target, stop>>
        /\ clock' = clock + 1
        /\ UNCHANGED faults \/ Fault
    BY <1>11 DEF Tick, SlowTick
  <2>2. clock' \in Nat /\ faults' \in Nat
    BY <1>0, <2>1 DEF Fault
  <2> QED
    BY <2>1, <2>2 DEF workerVars
<1>9. CASE Produce \/ Operate
  BY <1>9 DEF Produce, Operate, workerVars
<1>10. CASE UNCHANGED rvars
  BY <1>10 DEF rvars
<1> QED
  BY <1>1, <1>2, <1>3, <1>4, <1>5, <1>6, <1>7, <1>8, <1>9, <1>10, <1>11
  DEF RNext, WorkerAction

\* Workers and store keep their types, the store its order.
LEMMA RunnerOrder ==
  ASSUME RTypeOK, OrderInv, [RNext]_rvars
  PROVE  RTypeOK' /\ OrderInv'
<1>1. OrderInv'
  BY RunnerStoreStep, OrderStep
<1>2. TypeOK'
  BY <1>1 DEF OrderInv, RecordInv
<1> QED
  BY <1>1, <1>2, RunnerTypes

\* The initial state.
LEMMA RunnerInit == RInit => RTypeOK /\ OrderInv
<1> SUFFICES ASSUME RInit PROVE RTypeOK /\ OrderInv
  OBVIOUS
<1>1. OrderInv
  BY OrderInit DEF RInit
<1>2. RTypeOK
  BY <1>1, BoundAssumption DEF RInit, RTypeOK, Location, OrderInv, RecordInv
<1> QED
  BY <1>1, <1>2

(***************************************************************************)
(* The store under any number of workers that crash, lose leases and are   *)
(* told lies by the target behaves as an ordered behaviour of Outbox, and  *)
(* so each partition is delivered once and in order.                       *)
(***************************************************************************)
THEOREM RunnerDelivers == RSpec => OrderedSpec /\ DeliverySpec
<1>1. RTypeOK /\ OrderInv /\ [RNext]_rvars => (RTypeOK /\ OrderInv)' /\ [OrderedNext]_vars
  BY RunnerOrder, RunnerStoreStep
<1>2. RInit => Init
  BY DEF RInit
<1>3. RSpec => OrderedSpec
  BY RunnerInit, <1>1, <1>2, PTL DEF RSpec, OrderedSpec
<1> QED
  BY <1>3, ImplementsOrderedDelivery

--------------------------------------------------------------------------------
(***************************************************************************)
(* What ties the workers to the store.  A snapshot in a batch is of an     *)
(* attempt that was made, and the lease its worker holds on the record, if *)
(* any, is of that very attempt: leases are compared by owner only, but a  *)
(* worker claims with an empty batch and nobody claims under its name.     *)
(***************************************************************************)
BatchFenced ==
    \A w \in Worker : \A s \in batch[w] :
        /\ s.attempt > 0 /\ records[s.data].attempt_count >= s.attempt
        /\ records[s.data].state = "LEASED" /\ records[s.data].lease.owner = OwnerOf[w]
              => records[s.data].lease.attempt = s.attempt

\* The target holds only rows of intents that some worker has claimed.
TargetClaimed == \A d \in target : records[d].attempt_count > 0

\* A worker about to complete with the right version has had its row applied.
AckHeld ==
    \A w \in Worker : \A s \in batch[w] :
        /\ pc[w] = "complete" /\ Current(w, s)
        /\ s.data.source_version # None /\ acknowledged[w] = s.data.source_version
        => s.data \in target

RunnerInv ==
    RTypeOK /\ RecordInv /\ BatchFenced /\ TargetClaimed /\ AckHeld /\ CompletionAcknowledged

\* A step of the store that grants no lease and takes no attempt back.
NoGrant ==
    \A d \in Data :
        /\ records'[d].attempt_count >= records[d].attempt_count
        /\ records'[d].state = "LEASED" => records'[d] = records[d]

NoCompletion == \A d \in Data : Completed(d)' => Completed(d)

\* A step of which a worker that stands before complete sees nothing.
Unseen ==
    \A w \in Worker : pc'[w] = "complete" =>
        pc[w] = "complete" /\ batch'[w] = batch[w] /\ acknowledged'[w] = acknowledged[w]

\* append, release, operator_retry and complete grant nothing.
LEMMA GrantsNothing ==
  ASSUME RecordInv, NEW d \in Data, NEW owner, NEW retry, NEW now, NEW version, NEW fingerprint,
         \/ append(d) \/ release(d, owner, retry, now) \/ operator_retry(d)
         \/ complete(d, owner, version, fingerprint, now)
  PROVE  NoGrant
<1>1. records \in [Data -> OutboxRecord]
  BY DEF RecordInv, TypeOK
<1>2. \A e \in Data : records[e].attempt_count \in Nat
  BY <1>1 DEF OutboxRecord
<1>3. CASE append(d)
  <2>1. records[d].state = "ABSENT"
    BY <1>3 DEF append, Present
  <2>2. records[d].attempt_count = 0
    BY <2>1 DEF RecordInv, Attempts
  <2> QED
    BY <1>1, <1>2, <1>3, <2>2 DEF append, NewRecord, NoGrant
<1>4. CASE release(d, owner, retry, now)
  BY <1>1, <1>2, <1>4 DEF release, NoGrant
<1>5. CASE operator_retry(d)
  BY <1>1, <1>2, <1>5 DEF operator_retry, NoGrant
<1>6. CASE complete(d, owner, version, fingerprint, now)
  BY <1>1, <1>2, <1>6 DEF complete, NoGrant
<1> QED
  BY <1>3, <1>4, <1>5, <1>6

\* append, release and operator_retry complete nothing.
LEMMA CompletesNothing ==
  ASSUME RecordInv, NEW d \in Data, NEW owner, NEW retry, NEW now,
         append(d) \/ release(d, owner, retry, now) \/ operator_retry(d)
  PROVE  NoCompletion
<1>1. records \in [Data -> OutboxRecord]
  BY DEF RecordInv, TypeOK
<1>2. CASE append(d)
  BY <1>1, <1>2 DEF append, NewRecord, NoCompletion, Completed
<1>3. CASE release(d, owner, retry, now)
  BY <1>1, <1>3 DEF release, NoCompletion, Completed
<1>4. CASE operator_retry(d)
  BY <1>1, <1>4 DEF operator_retry, NoCompletion, Completed
<1> QED
  BY <1>2, <1>3, <1>4

\* Neither does a step that leaves the store alone.
LEMMA StoreUntouched ==
  ASSUME RecordInv, UNCHANGED vars
  PROVE  NoGrant /\ NoCompletion
<1>1. \A d \in Data : records[d].attempt_count \in Nat
  BY DEF RecordInv, TypeOK, OutboxRecord
<1> QED
  BY <1>1 DEF vars, NoGrant, NoCompletion, Completed

\* Batches that only shrink stay fenced while no lease is granted.
LEMMA FencedKept ==
  ASSUME RTypeOK, RecordInv, BatchFenced, RTypeOK', RecordInv', NoGrant,
         \A w \in Worker : batch'[w] \subseteq batch[w]
  PROVE  BatchFenced'
<1> SUFFICES ASSUME NEW w \in Worker, NEW s \in batch'[w]
             PROVE  /\ s.attempt > 0 /\ records'[s.data].attempt_count >= s.attempt
                    /\ records'[s.data].state = "LEASED"
                          /\ records'[s.data].lease.owner = OwnerOf[w]
                       => records'[s.data].lease.attempt = s.attempt
  BY DEF BatchFenced
<1>1. s \in batch[w] /\ s.data \in Data /\ s.attempt \in Nat
  BY BatchTypes
<1>2. records[s.data].attempt_count \in Nat /\ records'[s.data].attempt_count \in Nat
  BY <1>1 DEF RecordInv, TypeOK, OutboxRecord
<1>3. /\ s.attempt > 0 /\ records[s.data].attempt_count >= s.attempt
      /\ records[s.data].state = "LEASED" /\ records[s.data].lease.owner = OwnerOf[w]
            => records[s.data].lease.attempt = s.attempt
  BY <1>1 DEF BatchFenced
<1>4. /\ records'[s.data].attempt_count >= records[s.data].attempt_count
      /\ records'[s.data].state = "LEASED" => records'[s.data] = records[s.data]
  BY <1>1 DEF NoGrant
<1> QED
  BY <1>1, <1>2, <1>3, <1>4

\* The target's rows stay claimed, a row a worker adds is of its batch.
LEMMA TargetKept ==
  ASSUME RTypeOK, RecordInv, RecordInv', TargetClaimed, BatchFenced,
         \A d \in Data : records'[d].attempt_count >= records[d].attempt_count,
         \/ target' = target
         \/ \E w \in Worker : \E s \in batch[w] : target' = target \cup {s.data}
  PROVE  TargetClaimed'
<1>1. \A d \in Data : records[d].attempt_count \in Nat /\ records'[d].attempt_count \in Nat
  BY DEF RecordInv, TypeOK, OutboxRecord
<1>2. \A w \in Worker : \A s \in batch[w] : s.data \in Data /\ records[s.data].attempt_count > 0
  BY <1>1, BatchTypes DEF BatchFenced
<1>3. target \subseteq Data
  BY DEF RTypeOK
<1> QED
  BY <1>1, <1>2, <1>3 DEF TargetClaimed

\* Nor does a step unseen by the workers at complete disturb what they hold.
LEMMA AckKept ==
  ASSUME AckHeld, Unseen, target \subseteq target'
  PROVE  AckHeld'
<1> SUFFICES ASSUME NEW w \in Worker, NEW s \in batch'[w], pc'[w] = "complete",
                    Current(w, s)', s.data.source_version # None,
                    acknowledged'[w] = s.data.source_version
             PROVE  s.data \in target'
  BY DEF AckHeld
<1>1. /\ pc[w] = "complete" /\ batch'[w] = batch[w]
      /\ acknowledged[w] = s.data.source_version
  BY DEF Unseen
<1>2. Current(w, s)
  BY <1>1 DEF Current
<1> QED
  BY <1>1, <1>2 DEF AckHeld

\* The same of what is completed.
LEMMA AcknowledgedKept ==
  ASSUME CompletionAcknowledged, NoCompletion, target \subseteq target'
  PROVE  CompletionAcknowledged'
  BY DEF CompletionAcknowledged, NoCompletion

\* All parts together, for a step that grants and completes nothing.
LEMMA QuietStep ==
  ASSUME RunnerInv, RTypeOK', RecordInv', NoGrant, NoCompletion, Unseen,
         \A w \in Worker : batch'[w] \subseteq batch[w],
         \/ target' = target
         \/ \E w \in Worker : \E s \in batch[w] : target' = target \cup {s.data}
  PROVE  RunnerInv'
<1>1. BatchFenced'
  BY FencedKept DEF RunnerInv
<1>2. TargetClaimed'
  BY TargetKept DEF RunnerInv, NoGrant
<1>3. target \subseteq target'
  OBVIOUS
<1>4. AckHeld' /\ CompletionAcknowledged'
  BY <1>3, AckKept, AcknowledgedKept DEF RunnerInv
<1> QED
  BY <1>1, <1>2, <1>4 DEF RunnerInv

\* A worker that leaves the place it is at for another than complete is unseen.
LEMMA Moves ==
  ASSUME RTypeOK, RTypeOK', NEW w \in Worker, NEW location \in Location \ {"complete"},
         Goto(w, location),
         \A v \in Worker \ {w} : batch'[v] = batch[v] /\ acknowledged'[v] = acknowledged[v]
  PROVE  Unseen
<1>1. \A v \in Worker : pc'[v] = IF v = w THEN location ELSE pc[v]
  BY DEF Goto, RTypeOK
<1> QED
  BY <1>1 DEF Unseen

\* The end of a turn of the loop, and of a cycle that raised.
LEMMA TurnEnds ==
  ASSUME RTypeOK, RTypeOK', NEW w \in Worker,
         Abort(w) \/ \E s \in batch[w] : NextRecord(w, s)
  PROVE  Unseen /\ \A v \in Worker : batch'[v] \subseteq batch[v]
<1>1. \E location \in Location \ {"complete"} : Goto(w, location)
  BY DEF Abort, NextRecord, Location
<1>2. \A v \in Worker : /\ batch'[v] \subseteq batch[v]
                        /\ v # w => batch'[v] = batch[v] /\ acknowledged'[v] = acknowledged[v]
  <2>1. CASE Abort(w)
    BY <2>1 DEF Abort, Forget, RTypeOK
  <2>2. ASSUME NEW s \in batch[w], NextRecord(w, s)
        PROVE  \A v \in Worker : /\ batch'[v] \subseteq batch[v]
                                 /\ v # w => /\ batch'[v] = batch[v]
                                             /\ acknowledged'[v] = acknowledged[v]
    BY <2>2 DEF NextRecord, Forget, RTypeOK
  <2> QED
    BY <2>1, <2>2
<1> QED
  BY <1>1, <1>2, Moves

\* A worker that claims a batch.
LEMMA RunnerStart ==
  ASSUME RunnerInv, RTypeOK', RecordInv', NEW w \in Worker, StartCycle(w)
  PROVE  RunnerInv'
<1>1. PICK now \in Readings :
         /\ atomic_claim(OwnerOf[w], BatchSize, now)
         /\ batch' = [batch EXCEPT ![w] =
               {[data |-> d, attempt |-> records[d].attempt_count + 1]
                   : d \in ClaimSet(BatchSize, now)}]
         /\ Goto(w, IF ClaimSet(BatchSize, now) = {} THEN "idle" ELSE "project")
  BY DEF StartCycle
<1>2. now \in Time /\ OwnerOf[w] \in Owner
  BY OwnerAssumption, ReadingsAreTimes
<1>3. \A d \in Data : records[d] \in OutboxRecord /\ records[d].attempt_count \in Nat
  BY DEF RunnerInv, RTypeOK, TypeOK, OutboxRecord
<1>4. \A d \in Data :
         /\ d \in ClaimSet(BatchSize, now) =>
               /\ records'[d].attempt_count = records[d].attempt_count + 1
               /\ records'[d].lease.owner = OwnerOf[w]
               /\ records'[d].lease.attempt = records[d].attempt_count + 1
               /\ records'[d].state = "LEASED"
         /\ d \notin ClaimSet(BatchSize, now) => records'[d] = records[d]
  BY <1>1, <1>3 DEF atomic_claim, Claim
<1>5. \A d \in Data : /\ records'[d].attempt_count >= records[d].attempt_count
                      /\ Completed(d)' => Completed(d)
  BY <1>3, <1>4 DEF Completed
<1>6. BatchFenced'
  <2> SUFFICES ASSUME NEW v \in Worker, NEW s \in batch'[v]
               PROVE  /\ s.attempt > 0 /\ records'[s.data].attempt_count >= s.attempt
                      /\ records'[s.data].state = "LEASED"
                            /\ records'[s.data].lease.owner = OwnerOf[v]
                         => records'[s.data].lease.attempt = s.attempt
    BY DEF BatchFenced
  <2>1. CASE v = w
    <3>1. PICK d \in ClaimSet(BatchSize, now) :
             s = [data |-> d, attempt |-> records[d].attempt_count + 1]
      BY <1>1, <2>1 DEF RunnerInv, RTypeOK
    <3>2. d \in Data /\ s.data = d /\ s.attempt = records[d].attempt_count + 1
      BY <3>1 DEF ClaimSet
    <3> QED
      BY <1>3, <1>4, <3>1, <3>2
  <2>2. CASE v # w
    <3>1. s \in batch[v]
      BY <1>1, <2>2 DEF RunnerInv, RTypeOK
    <3>2. s.data \in Data /\ s.attempt \in Nat
      BY <3>1, BatchTypes DEF RunnerInv
    <3>3. /\ s.attempt > 0 /\ records[s.data].attempt_count >= s.attempt
          /\ records[s.data].state = "LEASED" /\ records[s.data].lease.owner = OwnerOf[v]
                => records[s.data].lease.attempt = s.attempt
      BY <3>1 DEF RunnerInv, BatchFenced
    <3>4. OwnerOf[v] # OwnerOf[w]
      BY <2>2, OwnerAssumption
    <3> QED
      BY <1>3, <1>4, <3>2, <3>3, <3>4
  <2> QED
    BY <2>1, <2>2
<1>7. target' = target /\ UNCHANGED acknowledged
  BY DEF StartCycle
<1>8. TargetClaimed'
  BY <1>5, <1>7, TargetKept DEF RunnerInv
<1>9. Unseen
  <2>1. \A v \in Worker \ {w} : batch'[v] = batch[v] /\ acknowledged'[v] = acknowledged[v]
    BY <1>1, <1>7 DEF RunnerInv, RTypeOK
  <2>2. \E location \in Location \ {"complete"} : Goto(w, location)
    BY <1>1 DEF Location
  <2> QED
    BY <2>1, <2>2, Moves DEF RunnerInv
<1>10. NoCompletion
  BY <1>5 DEF NoCompletion
<1>11. AckHeld' /\ CompletionAcknowledged'
  BY <1>7, <1>9, <1>10, AckKept, AcknowledgedKept DEF RunnerInv
<1> QED
  BY <1>6, <1>8, <1>11 DEF RunnerInv

\* A worker whose attempt fails before complete.
LEMMA RunnerFails ==
  ASSUME RunnerInv, RTypeOK', RecordInv', NEW w \in Worker, AttemptFails(w)
  PROVE  RunnerInv'
<1>1. NoGrant /\ NoCompletion
  BY StoreUntouched DEF RunnerInv, AttemptFails
<1>2. UNCHANGED <<batch, acknowledged>> /\ Goto(w, "release")
  BY DEF AttemptFails
<1>3. Unseen
  BY <1>2, Moves DEF RunnerInv, Location
<1>4. \/ target' = target
      \/ \E v \in Worker : \E s \in batch[v] : target' = target \cup {s.data}
  BY DEF AttemptFails
<1> QED
  BY <1>1, <1>2, <1>3, <1>4, QuietStep

\* Of a batch only one snapshot is current.
LEMMA CurrentUnique ==
  ASSUME RTypeOK, NEW w \in Worker, NEW r \in batch[w], NEW s \in batch[w],
         Current(w, r), Current(w, s)
  PROVE  r = s
<1>1. r.data \in Data /\ s.data \in Data
  BY BatchTypes
<1> SUFFICES ASSUME r # s PROVE FALSE
  OBVIOUS
<1>2. Before(r.data, s.data) /\ Before(s.data, r.data)
  BY DEF Current
<1> QED
  BY <1>1, <1>2, BeforeAsymmetric

\* A worker that the target has answered.
LEMMA RunnerExecutes ==
  ASSUME RunnerInv, RTypeOK', RecordInv', NEW w \in Worker, Execute(w)
  PROVE  RunnerInv'
<1>1. PICK s \in batch[w], result \in Version \cup {None}, applied \in BOOLEAN :
         /\ Current(w, s)
         /\ result # None /\ result = s.data.source_version => applied
         /\ target' = IF applied THEN target \cup {s.data} ELSE target
         /\ \/ s.data.source_version = None /\ Goto(w, "complete")
            \/ /\ s.data.source_version # None /\ result # None
               /\ acknowledged' = [acknowledged EXCEPT ![w] = result]
               /\ Goto(w, "complete")
            \/ Goto(w, "release") /\ UNCHANGED acknowledged
  BY DEF Execute
<1>2. NoGrant /\ NoCompletion
  BY StoreUntouched DEF RunnerInv, Execute
<1>3. UNCHANGED batch /\ \A v \in Worker \ {w} : acknowledged'[v] = acknowledged[v]
  BY DEF Execute, RunnerInv, RTypeOK
<1>4. /\ target \subseteq target'
      /\ target' = target \/ target' = target \cup {s.data}
  BY <1>1
<1>5. BatchFenced'
  BY <1>2, <1>3, FencedKept DEF RunnerInv
<1>6. TargetClaimed'
  BY <1>2, <1>4, TargetKept DEF RunnerInv, NoGrant
<1>7. CompletionAcknowledged'
  BY <1>2, <1>4, AcknowledgedKept DEF RunnerInv
<1>8. AckHeld'
  <2> SUFFICES ASSUME NEW v \in Worker, NEW r \in batch'[v], pc'[v] = "complete",
                      Current(v, r)', r.data.source_version # None,
                      acknowledged'[v] = r.data.source_version
               PROVE  r.data \in target'
    BY DEF AckHeld
  <2>1. r \in batch[v] /\ Current(v, r)
    BY <1>3 DEF Current
  <2>2. CASE v # w
    <3>1. pc[v] = "complete"
      BY <1>1, <2>2 DEF Goto, RunnerInv, RTypeOK
    <3> QED
      BY <1>3, <1>4, <2>1, <2>2, <3>1 DEF RunnerInv, AckHeld
  <2>3. CASE v = w
    <3>1. r = s
      BY <1>1, <2>1, <2>3, CurrentUnique DEF RunnerInv
    <3>2. ~Goto(w, "release")
      BY <2>3 DEF Goto, RunnerInv, RTypeOK
    <3>3. result # None /\ acknowledged'[w] = result
      BY <1>1, <3>1, <3>2 DEF RunnerInv, RTypeOK
    <3>4. applied
      BY <1>1, <2>3, <3>1, <3>3
    <3> QED
      BY <1>1, <3>1, <3>4
  <2> QED
    BY <2>2, <2>3
<1> QED
  BY <1>5, <1>6, <1>7, <1>8 DEF RunnerInv

\* A worker that completes, with evidence or without.
LEMMA RunnerCompletes ==
  ASSUME RunnerInv, RTypeOK', RecordInv', NEW w \in Worker,
         Complete(w) \/ CompleteWithoutEvidence(w)
  PROVE  RunnerInv'
<1>1. PICK s \in batch[w], now \in Readings, fingerprint \in Fingerprint :
         /\ Current(w, s) /\ pc[w] = "complete" /\ target' = target
         /\ complete(s.data, OwnerOf[w], acknowledged[w], fingerprint, now)
         /\ NextRecord(w, s) \/ (Forget(w) /\ Goto(w, "release") /\ UNCHANGED batch)
  BY DEF Complete, CompleteWithoutEvidence
<1>2. s.data \in Data /\ now \in Time /\ OwnerOf[w] \in Owner
  BY BatchTypes, ReadingsAreTimes, OwnerAssumption DEF RunnerInv
<1>3. NoGrant
  <2>1. RecordInv
    BY DEF RunnerInv
  <2> QED
    BY <1>1, <1>2, <2>1, GrantsNothing
<1>4. Unseen /\ \A v \in Worker : batch'[v] \subseteq batch[v]
  <2>1. CASE NextRecord(w, s)
    BY <2>1, TurnEnds DEF RunnerInv
  <2>2. CASE Forget(w) /\ Goto(w, "release") /\ UNCHANGED batch
    <3>1. \A v \in Worker \ {w} : batch'[v] = batch[v] /\ acknowledged'[v] = acknowledged[v]
      BY <2>2 DEF Forget, RunnerInv, RTypeOK
    <3> QED
      BY <2>2, <3>1, Moves DEF RunnerInv, Location
  <2> QED
    BY <1>1, <2>1, <2>2
<1>5. BatchFenced'
  BY <1>3, <1>4, FencedKept DEF RunnerInv
<1>6. TargetClaimed'
  BY <1>1, <1>3, TargetKept DEF RunnerInv, NoGrant
<1>7. AckHeld'
  BY <1>1, <1>4, AckKept DEF RunnerInv
<1>8. CompletionAcknowledged'
  <2> SUFFICES ASSUME NEW d \in Data, Completed(d)', d.source_version # None
               PROVE  d \in target
    BY <1>1 DEF CompletionAcknowledged
  <2>1. CASE d = s.data
    <3>1. acknowledged[w] = d.source_version
      BY <1>1, <2>1 DEF complete
    <3> QED
      BY <1>1, <2>1, <3>1 DEF RunnerInv, AckHeld
  <2>2. CASE d # s.data
    <3>1. records'[d] = records[d]
      BY <1>1, <1>2, <2>2 DEF complete, RunnerInv, RTypeOK, TypeOK
    <3> QED
      BY <3>1 DEF RunnerInv, CompletionAcknowledged, Completed
  <2> QED
    BY <2>1, <2>2
<1> QED
  BY <1>5, <1>6, <1>7, <1>8 DEF RunnerInv

\* A worker that releases, with evidence or without.
LEMMA RunnerReleases ==
  ASSUME RunnerInv, RTypeOK', RecordInv', NEW w \in Worker,
         Release(w) \/ ReleaseWithoutEvidence(w)
  PROVE  RunnerInv'
<1>1. PICK s \in batch[w], now \in Readings :
         /\ target' = target
         /\ release(s.data, OwnerOf[w], retryable[w], now)
         /\ NextRecord(w, s) \/ Abort(w)
  BY DEF Release, ReleaseWithoutEvidence
<1>2. NoGrant /\ NoCompletion
  <2>1. RecordInv /\ s.data \in Data
    BY BatchTypes DEF RunnerInv
  <2> QED
    BY <1>1, <2>1, GrantsNothing, CompletesNothing
<1>3. Unseen /\ \A v \in Worker : batch'[v] \subseteq batch[v]
  BY <1>1, TurnEnds DEF RunnerInv
<1> QED
  BY <1>1, <1>2, <1>3, QuietStep

\* A worker that is refused, crashes, restarts or stops.
LEMMA RunnerRefused ==
  ASSUME RunnerInv, RTypeOK', RecordInv', NEW w \in Worker,
         \/ CompleteRejected(w) \/ ReleaseRejected(w)
         \/ StopWorker(w) \/ Crash(w) \/ Restart(w)
  PROVE  RunnerInv'
<1>1. UNCHANGED vars /\ target' = target
  BY DEF CompleteRejected, ReleaseRejected, StopWorker, Crash, Restart
<1>2. NoGrant /\ NoCompletion
  BY <1>1, StoreUntouched DEF RunnerInv
<1>3. Unseen /\ \A v \in Worker : batch'[v] \subseteq batch[v]
  <2>1. CASE ReleaseRejected(w) \/ Crash(w)
    BY <2>1, TurnEnds DEF ReleaseRejected, Crash, RunnerInv
  <2>2. CASE CompleteRejected(w) \/ StopWorker(w) \/ Restart(w)
    <3>1. /\ UNCHANGED batch
          /\ \E location \in Location \ {"complete"} : Goto(w, location)
          /\ \A v \in Worker \ {w} : acknowledged'[v] = acknowledged[v]
      BY <2>2 DEF CompleteRejected, StopWorker, Restart, Forget, Location, RunnerInv, RTypeOK
    <3> QED
      BY <3>1, Moves DEF RunnerInv
  <2> QED
    BY <2>1, <2>2
<1> QED
  BY <1>1, <1>2, <1>3, QuietStep

\* What the host, the operator, the clocks and any producer do.
LEMMA RunnerEnvironment ==
  ASSUME RunnerInv, RTypeOK', RecordInv', UNCHANGED workerVars, target' = target,
         UNCHANGED vars \/ \E d \in Data : append(d) \/ operator_retry(d)
  PROVE  RunnerInv'
<1>1. RecordInv
  BY DEF RunnerInv
<1>2. NoGrant /\ NoCompletion
  <2>1. CASE UNCHANGED vars
    BY <1>1, <2>1, StoreUntouched
  <2>2. ASSUME NEW d \in Data, append(d) \/ operator_retry(d) PROVE NoGrant /\ NoCompletion
    BY <1>1, <2>2, GrantsNothing, CompletesNothing
  <2> QED
    BY <2>1, <2>2
<1>3. Unseen /\ \A v \in Worker : batch'[v] \subseteq batch[v]
  BY DEF Unseen, workerVars
<1> QED
  BY <1>2, <1>3, QuietStep

\* Workers, host and operator preserve RunnerInv.
LEMMA ProjectingStep ==
  ASSUME RunnerInv, Projecting
  PROVE  RunnerInv'
<1>1. RTypeOK /\ RecordInv
  BY DEF RunnerInv
<1>2. RecordInv'
  BY <1>1, ProjectingStoreStep, RecordWorkers, RecordStutter
<1>3. RTypeOK'
  BY <1>1, <1>2, RunnerTypes DEF RecordInv, RNext, Projecting
<1>4. CASE SetStop \/ Operate \/ Tick \/ SlowTick
  <2>1. /\ UNCHANGED workerVars /\ target' = target
        /\ UNCHANGED vars \/ \E d \in Data : operator_retry(d)
    BY <1>4 DEF SetStop, Operate, Tick, SlowTick
  <2> QED
    BY <1>2, <1>3, <2>1, RunnerEnvironment
<1> QED
  BY <1>2, <1>3, <1>4, RunnerStart, RunnerFails, RunnerExecutes, RunnerCompletes,
     RunnerReleases, RunnerRefused
  DEF Projecting, WorkerAction

\* A producer that appends in any order preserves RunnerInv.
LEMMA ProducerStep ==
  ASSUME RunnerInv, NEW d \in Data, append(d),
         UNCHANGED <<workerVars, clock, target, stop, faults>>
  PROVE  RunnerInv'
<1>1. RTypeOK /\ RecordInv
  BY DEF RunnerInv
<1>2. RecordInv'
  BY <1>1, RecordAppend
<1>3. RTypeOK'
  BY <1>1, <1>2 DEF RecordInv, RTypeOK, workerVars
<1> QED
  BY <1>2, <1>3, RunnerEnvironment

\* The initial state satisfies RunnerInv.
LEMMA RunnerInvInit == RInit => RunnerInv
<1> SUFFICES ASSUME RInit PROVE RunnerInv
  OBVIOUS
<1>1. RTypeOK /\ RecordInv
  BY RunnerInit DEF OrderInv
<1>2. BatchFenced /\ TargetClaimed /\ AckHeld
  BY DEF RInit, BatchFenced, TargetClaimed, AckHeld
<1>3. CompletionAcknowledged
  BY DEF RInit, Init, AbsentRecord, CompletionAcknowledged, Completed
<1> QED
  BY <1>1, <1>2, <1>3 DEF RunnerInv

\* Every step of workers and environment preserves RunnerInv and the order of the store.
LEMMA RunnerStep == RunnerInv /\ OrderInv /\ [RNext]_rvars => RunnerInv' /\ OrderInv'
<1> SUFFICES ASSUME RunnerInv, OrderInv, [RNext]_rvars PROVE RunnerInv' /\ OrderInv'
  OBVIOUS
<1>1. RTypeOK' /\ OrderInv'
  BY RunnerOrder DEF RunnerInv
<1>2. CASE Produce
  BY <1>1, <1>2, ProducerStep DEF Produce, AppendInOrder
<1>3. CASE UNCHANGED rvars
  <2>1. UNCHANGED <<workerVars, target, vars>>
    BY <1>3 DEF rvars, workerVars, vars
  <2> QED
    BY <1>1, <2>1, RunnerEnvironment DEF OrderInv
<1> QED
  BY <1>1, <1>2, <1>3, ProjectingStep DEF RNext, Projecting

\* What RunnerInv says of leases and completion, and of the target if the store is in order.
LEMMA RunnerFacts ==
  RunnerInv /\ OrderInv => AttemptFenced /\ TargetNotAhead /\ CompletionAcknowledged
<1> SUFFICES ASSUME RunnerInv, OrderInv PROVE AttemptFenced /\ TargetNotAhead
  BY DEF RunnerInv
<1>1. AttemptFenced
  BY DEF RunnerInv, AttemptFenced, BatchFenced, LeasedRecord
<1>2. TargetNotAhead
  BY DEF RunnerInv, TargetNotAhead, TargetClaimed, OrderInv, NoSilentSkip, RTypeOK
<1> QED
  BY <1>1, <1>2

(***************************************************************************)
(* For any number of workers with ids of their own, any clock skew and any *)
(* number of crashes, lapsed leases and failing sinks: a worker settles    *)
(* only the attempt it claimed, the target never runs ahead of the source, *)
(* and nothing with a version is completed that the target does not hold.  *)
(***************************************************************************)
THEOREM RunnerCorrect ==
  RSpec => [](RTypeOK /\ AttemptFenced /\ TargetNotAhead /\ CompletionAcknowledged)
<1>1. RInit => RunnerInv /\ OrderInv
  BY RunnerInvInit, RunnerInit
<1>2. RunnerInv => RTypeOK
  BY DEF RunnerInv
<1> QED
  BY <1>1, <1>2, RunnerStep, RunnerFacts, PTL DEF RSpec

(***************************************************************************)
(* Workers and store stay well formed.                                     *)
(***************************************************************************)
THEOREM RunnerTyped == RSpec => []RTypeOK
  BY RunnerCorrect, PTL

(***************************************************************************)
(* The target holds the row of an intent only if every earlier one of its  *)
(* partition is completed.                                                 *)
(***************************************************************************)
THEOREM TargetBehind == RSpec => []TargetNotAhead
  BY RunnerCorrect, PTL

(***************************************************************************)
(* A versioned intent is completed only if the target holds its row.       *)
(***************************************************************************)
THEOREM CompletionMeansRow == RSpec => []CompletionAcknowledged
  BY RunnerCorrect, PTL

--------------------------------------------------------------------------------
(***************************************************************************)
(* Why no record is tried for ever.  Threshold and operator allow Ceiling  *)
(* attempts, every fault since the start one more.  A record that may be   *)
(* claimed now is short of that: because release or the operator offered   *)
(* it below the ceiling, or because the fault that let its lease lapse has *)
(* added one to what is allowed.                                           *)
(***************************************************************************)
Ceiling == IF PoisonThreshold >= MaxAttempts THEN PoisonThreshold ELSE MaxAttempts

Allowed == Ceiling + (MaxFaults - faults)

\* A worker between two cycles, or dead, has no batch.
IdleEmpty == \A w \in Worker : pc[w] \in {"idle", "down", "stopped"} => batch[w] = {}

\* The lease of s is still its worker's, and unexpired on every clock.
Unlapsed(w, s) ==
    /\ records[s.data].state = "LEASED" /\ records[s.data].lease.owner = OwnerOf[w]
    /\ records[s.data].lease.expires_at > clock

\* The leases of a batch lapse together, and not before a fault has paid for them.
BatchPaid ==
    \A w \in Worker : \/ \A s \in batch[w] : Unlapsed(w, s)
                      \/ \A s \in batch[w] : s.attempt < Allowed

\* What may be claimed, now or when its lease ends, is short of what is allowed.
OfferedShort ==
    \A d \in Data :
        /\ records[d].attempt_count <= Allowed
        /\ \/ records[d].state \in {"PENDING", "RETRYABLE"}
           \/ records[d].state = "LEASED" /\ ~InHand(d)
           => records[d].attempt_count < Allowed

AttemptInv == faults <= MaxFaults /\ IdleEmpty /\ OfferedShort /\ BatchPaid

\* The numbers these are about.
LEMMA AttemptNumbers ==
  ASSUME RTypeOK
  PROVE  /\ Ceiling \in Nat /\ Allowed \in Int
         /\ clock \in Nat /\ faults \in Nat
         /\ \A d \in Data : /\ records[d].attempt_count \in Nat
                            /\ records[d].state = "LEASED" /\ LeaseConsistent
                                  => records[d].lease.expires_at \in Nat
<1>1. Ceiling \in Nat
  BY BoundAssumption, ThresholdAssumption DEF Ceiling
<1>2. faults \in Nat /\ clock \in Nat
  BY DEF RTypeOK
<1>3. Allowed \in Int
  BY <1>1, <1>2, BoundAssumption DEF Allowed
<1>4. \A d \in Data : /\ records[d].attempt_count \in Nat
                      /\ records[d].lease # None => records[d].lease.expires_at \in Nat
  BY DEF RTypeOK, TypeOK, OutboxRecord, OutboxLease
<1> QED
  BY <1>1, <1>2, <1>3, <1>4 DEF LeaseConsistent

\* Only a worker in the loop has a batch.
LEMMA IdleKept ==
  ASSUME RTypeOK, RTypeOK', IdleEmpty, [RNext]_rvars
  PROVE  IdleEmpty'
<1> USE DEF IdleEmpty, RTypeOK
<1>1. ASSUME NEW w \in Worker, StartCycle(w) PROVE IdleEmpty'
  <2>1. PICK claimed :
           /\ batch' = [batch EXCEPT ![w] =
                 {[data |-> d, attempt |-> records[d].attempt_count + 1] : d \in claimed}]
           /\ pc' = [pc EXCEPT ![w] = IF claimed = {} THEN "idle" ELSE "project"]
    BY <1>1 DEF StartCycle, Goto
  <2>2. claimed = {} => batch'[w] = {}
    BY <2>1
  <2>3. claimed # {} => pc'[w] = "project"
    BY <2>1
  <2>4. \A v \in Worker \ {w} : pc'[v] = pc[v] /\ batch'[v] = batch[v]
    BY <2>1
  <2> QED
    BY <2>2, <2>3, <2>4
<1>2. ASSUME NEW w \in Worker,
             AttemptFails(w) \/ Execute(w) \/ CompleteWithoutEvidence(w) \/ CompleteRejected(w)
      PROVE  IdleEmpty'
  <2>1. UNCHANGED batch /\ \E location \in {"complete", "release"} : Goto(w, location)
    BY <1>2 DEF AttemptFails, Execute, CompleteWithoutEvidence, CompleteRejected
  <2> QED
    BY <2>1 DEF Goto
<1>3. ASSUME NEW w \in Worker, Complete(w) \/ Release(w) PROVE IdleEmpty'
  <2>1. PICK s \in batch[w] : NextRecord(w, s)
    BY <1>3 DEF Complete, Release
  <2>2. \A v \in Worker \ {w} : pc'[v] = pc[v] /\ batch'[v] = batch[v]
    BY <2>1 DEF NextRecord, Goto
  <2>3. batch[w] = {s} => batch'[w] = {}
    BY <2>1 DEF NextRecord
  <2>4. batch[w] # {s} => pc'[w] = "project"
    BY <2>1 DEF NextRecord, Goto
  <2> QED
    BY <2>2, <2>3, <2>4
<1>4. ASSUME NEW w \in Worker, ReleaseWithoutEvidence(w) \/ ReleaseRejected(w) \/ Crash(w)
      PROVE  IdleEmpty'
  <2>1. Abort(w)
    BY <1>4 DEF ReleaseWithoutEvidence, ReleaseRejected, Crash
  <2> QED
    BY <2>1 DEF Abort, Goto
<1>5. ASSUME NEW w \in Worker, StopWorker(w) \/ Restart(w) PROVE IdleEmpty'
  <2>1. /\ pc[w] \in {"idle", "down"} /\ UNCHANGED batch
        /\ \E location \in Location : Goto(w, location)
    BY <1>5 DEF StopWorker, Restart, Location
  <2> QED
    BY <2>1 DEF Goto
<1>6. CASE SetStop \/ Produce \/ Operate \/ Tick \/ SlowTick \/ UNCHANGED rvars
  BY <1>6 DEF SetStop, Produce, Operate, Tick, SlowTick, rvars, workerVars
<1> QED
  BY <1>1, <1>2, <1>3, <1>4, <1>5, <1>6 DEF RNext, WorkerAction

\* What is in a batch is of an attempt that was counted.
LEMMA BatchCounted ==
  ASSUME RunnerInv, OfferedShort, NEW w \in Worker, NEW s \in batch[w]
  PROVE  /\ s.data \in Data /\ s.attempt \in Nat
         /\ s.attempt <= records[s.data].attempt_count
         /\ s.attempt <= Allowed
<1>1. s.data \in Data /\ s.attempt \in Nat
  BY BatchTypes DEF RunnerInv
<1>2. records[s.data].attempt_count >= s.attempt /\ records[s.data].attempt_count <= Allowed
  BY <1>1 DEF RunnerInv, BatchFenced, OfferedShort
<1>3. records[s.data].attempt_count \in Nat /\ Allowed \in Int
  BY <1>1, AttemptNumbers DEF RunnerInv
<1> QED
  BY <1>1, <1>2, <1>3

\* A fault allows every record another attempt.
LEMMA FaultPays ==
  ASSUME RunnerInv, RTypeOK', AttemptInv, Fault,
         \A d \in Data : records'[d].attempt_count = records[d].attempt_count,
         \A w \in Worker : batch'[w] \subseteq batch[w]
  PROVE  faults' <= MaxFaults /\ OfferedShort' /\ BatchPaid'
<1>1. /\ Allowed \in Int /\ faults \in Nat
      /\ \A d \in Data : records[d].attempt_count \in Nat
  BY AttemptNumbers DEF RunnerInv
<1>2. faults' <= MaxFaults
  BY <1>1, BoundAssumption DEF AttemptInv, Fault
<1>3. Allowed' = Allowed + 1
  BY <1>1, BoundAssumption, ThresholdAssumption DEF Fault, Allowed, Ceiling
<1>4. \A d \in Data : records'[d].attempt_count < Allowed'
  BY <1>1, <1>3 DEF AttemptInv, OfferedShort
<1>5. OfferedShort'
  <2>1. Allowed' \in Int
    BY <1>1, <1>3
  <2> QED
    BY <1>1, <1>4, <2>1 DEF OfferedShort
<1>6. \A w \in Worker : \A s \in batch'[w] : s.attempt < Allowed'
  BY <1>1, <1>3, BatchCounted DEF AttemptInv
<1>7. BatchPaid'
  BY <1>6 DEF BatchPaid
<1> QED
  BY <1>2, <1>5, <1>7

\* A step that moves no lease, no batch and no clock.
LEMMA AttemptsUntouched ==
  ASSUME AttemptInv, UNCHANGED <<records, batch, clock, faults>>
  PROVE  faults' <= MaxFaults /\ OfferedShort' /\ BatchPaid'
<1>1. Allowed' = Allowed
  BY DEF Allowed, Ceiling
<1>2. \A d \in Data : InHand(d)' <=> InHand(d)
  BY DEF InHand
<1>3. OfferedShort'
  BY <1>1, <1>2 DEF AttemptInv, OfferedShort
<1>4. BatchPaid'
  BY <1>1 DEF AttemptInv, BatchPaid, Unlapsed
<1> QED
  BY <1>3, <1>4 DEF AttemptInv

\* A lease is refused only if the leases of its batch are paid for, so dropping the rest is free.
LEMMA RefusalPaid ==
  ASSUME RunnerInv, AttemptInv, NEW w \in Worker, ReleaseRejected(w)
  PROVE  faults' <= MaxFaults /\ OfferedShort' /\ BatchPaid'
<1>1. PICK s \in batch[w], now \in Readings : ~LeasedRecord(s.data, OwnerOf[w], now)
  BY DEF ReleaseRejected
<1>2. now \in Nat /\ now <= clock
  BY TimeAssumption DEF Readings
<1>3. s.data \in Data
  BY BatchCounted DEF AttemptInv
<1>4. /\ clock \in Nat /\ Allowed \in Int
      /\ records[s.data].state = "LEASED" => records[s.data].lease.expires_at \in Nat
  BY <1>3, AttemptNumbers DEF RunnerInv, RecordInv
<1>5. ~Unlapsed(w, s)
  BY <1>1, <1>2, <1>4 DEF Unlapsed, LeasedRecord
<1>6. \A r \in batch[w] : r.attempt < Allowed
  BY <1>5 DEF AttemptInv, BatchPaid
<1>7. /\ UNCHANGED <<records, clock, faults>> /\ batch'[w] = {}
      /\ \A v \in Worker \ {w} : batch'[v] = batch[v]
  BY DEF ReleaseRejected, Abort, vars, RunnerInv, RTypeOK
<1>8. Allowed' = Allowed
  BY <1>7 DEF Allowed, Ceiling
<1>9. \A d \in Data : InHand(d) /\ ~InHand(d)' => records[d].attempt_count < Allowed
  <2> SUFFICES ASSUME NEW d \in Data, InHand(d), ~InHand(d)'
               PROVE  records[d].attempt_count < Allowed
    OBVIOUS
  <2>1. [data |-> d, attempt |-> records[d].attempt_count] \in batch[w]
    BY <1>7 DEF InHand
  <2> QED
    BY <1>6, <2>1
<1>10. OfferedShort'
  BY <1>7, <1>8, <1>9 DEF AttemptInv, OfferedShort
<1>11. BatchPaid'
  BY <1>7, <1>8 DEF AttemptInv, BatchPaid, Unlapsed
<1> QED
  BY <1>7, <1>10, <1>11 DEF AttemptInv

\* Time that passes for free passes for batches that are paid for.
LEMMA TickPaid ==
  ASSUME RunnerInv, AttemptInv, Tick
  PROVE  faults' <= MaxFaults /\ OfferedShort' /\ BatchPaid'
<1>1. UNCHANGED <<records, batch, faults>>
  BY DEF Tick, vars, workerVars
<1>2. Allowed' = Allowed
  BY <1>1 DEF Allowed, Ceiling
<1>3. \A d \in Data : InHand(d)' <=> InHand(d)
  BY <1>1 DEF InHand
<1>4. OfferedShort'
  BY <1>1, <1>2, <1>3 DEF AttemptInv, OfferedShort
<1>5. \A w \in Worker : \A s \in batch[w] : s.attempt < Allowed
  <2> SUFFICES ASSUME NEW w \in Worker, NEW s \in batch[w], Unlapsed(w, s)
               PROVE  FALSE
    BY DEF AttemptInv, BatchPaid
  <2>1. s \in Snapshot /\ s.data \in Data
    BY BatchTypes DEF RunnerInv
  <2>2. records[s.data].state = "LEASED"
    BY DEF Unlapsed
  <2>3. clock \in Nat /\ records[s.data].lease.expires_at \in Nat
    BY <2>1, <2>2, AttemptNumbers DEF RunnerInv, RecordInv
  <2>4. Outstanding(s.data)
    BY <2>3, SkewAssumption DEF Unlapsed, Outstanding
  <2>5. s.attempt = records[s.data].attempt_count
    BY <2>1, <2>2 DEF Unlapsed, RunnerInv, BatchFenced, RecordInv, LeaseConsistent
  <2>6. s = [data |-> s.data, attempt |-> records[s.data].attempt_count]
    BY <2>1, <2>5 DEF Snapshot
  <2>7. InHand(s.data)
    BY <2>6 DEF InHand
  <2> QED
    BY <2>1, <2>4, <2>7 DEF Tick
<1>6. BatchPaid'
  BY <1>1, <1>2, <1>5 DEF BatchPaid
<1> QED
  BY <1>1, <1>4, <1>6 DEF AttemptInv

\* complete and release settle a record of the batch; the others are as they were.
LEMMA SettlementPaid ==
  ASSUME RunnerInv, AttemptInv, NEW w \in Worker, NEW s \in batch[w], Current(w, s),
         NEW now, LeasedRecord(s.data, OwnerOf[w], now),
         NEW record, records' = [records EXCEPT ![s.data] = record],
         record.state \in {"COMPLETED", "QUARANTINED", "RETRYABLE"},
         record.attempt_count = records[s.data].attempt_count,
         record.state = "RETRYABLE" => record.attempt_count < PoisonThreshold,
         batch' = [batch EXCEPT ![w] = batch[w] \ {s}],
         UNCHANGED <<clock, faults>>
  PROVE  faults' <= MaxFaults /\ OfferedShort' /\ BatchPaid'
<1>1. /\ s.data \in Data /\ records[s.data].attempt_count \in Nat
      /\ Allowed \in Int /\ faults \in Nat
  BY BatchTypes, AttemptNumbers DEF RunnerInv
<1>2. Allowed' = Allowed
  BY DEF Allowed, Ceiling
<1>3. PoisonThreshold <= Allowed
  BY <1>1, ThresholdAssumption, BoundAssumption DEF AttemptInv, Allowed, Ceiling
<1>4. /\ records'[s.data] = record
      /\ \A d \in Data \ {s.data} : records'[d] = records[d]
  BY <1>1 DEF RunnerInv, RTypeOK, TypeOK
<1>5. \A v \in Worker : batch'[v] = IF v = w THEN batch[w] \ {s} ELSE batch[v]
  BY DEF RunnerInv, RTypeOK
<1>6. \A r \in batch'[w] : r.data # s.data
  <2> SUFFICES ASSUME NEW r \in batch'[w], r.data = s.data PROVE FALSE
    OBVIOUS
  <2>1. r \in batch[w] /\ r # s
    BY <1>5
  <2>2. Before(s.data, r.data)
    BY <2>1 DEF Current
  <2> QED
    BY <1>1, <2>2, BeforeAsymmetric
<1>7. \A d \in Data \ {s.data} : InHand(d) => InHand(d)'
  <2> SUFFICES ASSUME NEW d \in Data \ {s.data}, InHand(d) PROVE InHand(d)'
    OBVIOUS
  <2> DEFINE snapshot == [data |-> d, attempt |-> records[d].attempt_count]
  <2>1. PICK v \in Worker : snapshot \in batch[v]
    BY DEF InHand
  <2>2. snapshot # s
    OBVIOUS
  <2>3. snapshot \in batch'[v]
    BY <1>5, <2>1, <2>2
  <2> QED
    BY <1>4, <2>3 DEF InHand
<1>8. OfferedShort'
  <2> SUFFICES ASSUME NEW d \in Data
               PROVE  /\ records'[d].attempt_count <= Allowed
                      /\ \/ records'[d].state \in {"PENDING", "RETRYABLE"}
                         \/ records'[d].state = "LEASED" /\ ~InHand(d)'
                         => records'[d].attempt_count < Allowed
    BY <1>2 DEF OfferedShort
  <2>1. CASE d # s.data
    BY <1>4, <1>7, <2>1 DEF AttemptInv, OfferedShort
  <2>2. CASE d = s.data
    <3>1. records[d].attempt_count <= Allowed
      BY DEF AttemptInv, OfferedShort
    <3> QED
      BY <1>1, <1>3, <1>4, <2>2, <3>1, ThresholdAssumption
  <2> QED
    BY <2>1, <2>2
<1>9. BatchPaid'
  <2> SUFFICES ASSUME NEW v \in Worker,
                      \A r \in batch[v] : Unlapsed(v, r),
                      NEW r \in batch'[v]
               PROVE  Unlapsed(v, r)'
    BY <1>2, <1>5 DEF AttemptInv, BatchPaid
  <2>1. r \in batch[v] /\ r.data \in Data /\ Unlapsed(v, r)
    BY <1>5, BatchTypes DEF RunnerInv
  <2>2. r.data # s.data
    <3>1. v # w => OwnerOf[v] # OwnerOf[w]
      BY OwnerAssumption
    <3> QED
      BY <1>6, <2>1, <3>1 DEF Unlapsed, LeasedRecord
  <2> QED
    BY <1>4, <2>1, <2>2 DEF Unlapsed
<1> QED
  BY <1>8, <1>9 DEF AttemptInv

\* What is claimed is short of what is allowed: a lease in hand lapses with its batch.
LEMMA ClaimedShort ==
  ASSUME RunnerInv, AttemptInv, NEW now \in Readings, NEW d \in Data, Claimable(d, now)
  PROVE  /\ records[d].attempt_count < Allowed
         /\ \A v \in Worker : \A s \in batch[v] : s.data = d => ~Unlapsed(v, s)
<1>1. now \in Nat /\ now <= clock
  BY TimeAssumption DEF Readings
<1>2. clock \in Nat /\ (records[d].state = "LEASED" => records[d].lease.expires_at \in Nat)
  BY AttemptNumbers DEF RunnerInv, RecordInv
<1>3. \A v \in Worker : \A s \in batch[v] : s.data = d => ~Unlapsed(v, s)
  BY <1>1, <1>2 DEF Claimable, Unlapsed
<1>4. ASSUME InHand(d) PROVE records[d].attempt_count < Allowed
  <2> DEFINE snapshot == [data |-> d, attempt |-> records[d].attempt_count]
  <2>1. PICK v \in Worker : snapshot \in batch[v]
    BY <1>4 DEF InHand
  <2>2. ~Unlapsed(v, snapshot)
    BY <1>3, <2>1
  <2>3. snapshot.attempt < Allowed
    BY <2>1, <2>2 DEF AttemptInv, BatchPaid
  <2> QED
    BY <2>3
<1>5. ASSUME ~InHand(d) PROVE records[d].attempt_count < Allowed
  BY <1>5 DEF Claimable, AttemptInv, OfferedShort
<1> QED
  BY <1>3, <1>4, <1>5

\* A new batch, with leases that no clock sees expired.
LEMMA StartPaid ==
  ASSUME RunnerInv, RTypeOK', AttemptInv, Skew < LeaseDuration, NEW w \in Worker, StartCycle(w)
  PROVE  faults' <= MaxFaults /\ OfferedShort' /\ BatchPaid'
<1>1. PICK now \in Readings :
         /\ atomic_claim(OwnerOf[w], BatchSize, now)
         /\ batch' = [batch EXCEPT ![w] =
               {[data |-> d, attempt |-> records[d].attempt_count + 1]
                   : d \in ClaimSet(BatchSize, now)}]
  BY DEF StartCycle
<1>2. now \in Nat /\ now <= clock /\ clock <= now + Skew
  BY <1>1, TimeAssumption DEF Readings
<1>3. /\ Allowed \in Int /\ clock \in Nat
      /\ \A d \in Data : records[d].attempt_count \in Nat
  BY AttemptNumbers DEF RunnerInv
<1>4. now + LeaseDuration > clock
  BY <1>2, <1>3, SkewAssumption, LeaseAssumption
<1>5. PICK claimed : claimed = ClaimSet(BatchSize, now)
  OBVIOUS
<1>6. /\ claimed \subseteq Data
      /\ \A d \in claimed : Claimable(d, now)
  BY <1>5 DEF ClaimSet
<1>7. \A d \in Data :
         /\ d \in claimed =>
               /\ records'[d].attempt_count = records[d].attempt_count + 1
               /\ records'[d].lease.owner = OwnerOf[w]
               /\ records'[d].lease.expires_at = now + LeaseDuration
               /\ records'[d].state = "LEASED"
         /\ d \notin claimed => records'[d] = records[d]
  BY <1>1, <1>5 DEF atomic_claim, Claim
<1>8. /\ UNCHANGED <<clock, faults>> /\ pc[w] = "idle"
  BY DEF StartCycle
<1>9. Allowed' = Allowed
  BY <1>8 DEF Allowed, Ceiling
<1>10. batch[w] = {}
  BY <1>8 DEF AttemptInv, IdleEmpty
<1>11. /\ batch'[w] = {[data |-> d, attempt |-> records[d].attempt_count + 1] : d \in claimed}
       /\ \A v \in Worker \ {w} : batch'[v] = batch[v]
  BY <1>1, <1>5 DEF RunnerInv, RTypeOK
<1>12. \A d \in claimed : InHand(d)'
  BY <1>6, <1>7, <1>11 DEF InHand
<1>13. \A d \in Data \ claimed : InHand(d) => InHand(d)'
  <2> SUFFICES ASSUME NEW d \in Data \ claimed, InHand(d) PROVE InHand(d)'
    OBVIOUS
  <2>1. PICK v \in Worker : [data |-> d, attempt |-> records[d].attempt_count] \in batch[v]
    BY DEF InHand
  <2>2. v # w
    BY <1>10, <2>1
  <2> QED
    BY <1>7, <1>11, <2>1, <2>2 DEF InHand
<1>14. OfferedShort'
  <2> SUFFICES ASSUME NEW d \in Data
               PROVE  /\ records'[d].attempt_count <= Allowed
                      /\ \/ records'[d].state \in {"PENDING", "RETRYABLE"}
                         \/ records'[d].state = "LEASED" /\ ~InHand(d)'
                         => records'[d].attempt_count < Allowed
    BY <1>9 DEF OfferedShort
  <2>1. CASE d \in claimed
    <3>1. records[d].attempt_count < Allowed
      BY <1>6, <2>1, ClaimedShort
    <3>2. records'[d].attempt_count <= Allowed
      BY <1>3, <1>7, <2>1, <3>1
    <3> QED
      BY <1>7, <1>12, <2>1, <3>2
  <2>2. CASE d \notin claimed
    BY <1>7, <1>13, <2>2 DEF AttemptInv, OfferedShort
  <2> QED
    BY <2>1, <2>2
<1>15. BatchPaid'
  <2>1. \A s \in batch'[w] : Unlapsed(w, s)'
    <3> SUFFICES ASSUME NEW s \in batch'[w] PROVE Unlapsed(w, s)'
      OBVIOUS
    <3>1. s.data \in claimed
      BY <1>11
    <3> QED
      BY <1>4, <1>6, <1>7, <1>8, <3>1 DEF Unlapsed
  <2>2. ASSUME NEW v \in Worker \ {w}, NEW s \in batch[v], Unlapsed(v, s)
        PROVE  Unlapsed(v, s)'
    <3>1. s.data \in Data
      BY BatchTypes DEF RunnerInv
    <3>2. s.data \notin claimed
      BY <1>6, <2>2, <3>1, ClaimedShort
    <3> QED
      BY <1>7, <1>8, <2>2, <3>1, <3>2 DEF Unlapsed
  <2>3. \A v \in Worker \ {w} : \/ \A s \in batch'[v] : Unlapsed(v, s)'
                                \/ \A s \in batch'[v] : s.attempt < Allowed'
    BY <1>9, <1>11, <2>2 DEF AttemptInv, BatchPaid
  <2> QED
    BY <2>1, <2>3 DEF BatchPaid
<1> QED
  BY <1>8, <1>14, <1>15 DEF AttemptInv

\* A producer's append and the operator's retry offer a record below the ceiling.
LEMMA OfferShort ==
  ASSUME RunnerInv, AttemptInv, UNCHANGED <<batch, clock, faults>>, NEW d \in Data,
         append(d) \/ (operator_retry(d) /\ records[d].attempt_count < MaxAttempts)
  PROVE  faults' <= MaxFaults /\ OfferedShort' /\ BatchPaid'
<1>1. /\ Allowed \in Int /\ faults \in Nat
      /\ \A e \in Data : records[e].attempt_count \in Nat
  BY AttemptNumbers DEF RunnerInv
<1>2. Allowed' = Allowed
  BY DEF Allowed, Ceiling
<1>3. PoisonThreshold <= Allowed /\ MaxAttempts <= Allowed
  BY <1>1, ThresholdAssumption, BoundAssumption DEF AttemptInv, Allowed, Ceiling
<1>4. \A e \in Data \ {d} : records'[e] = records[e]
  BY DEF append, operator_retry, RunnerInv, RTypeOK, TypeOK
<1>5. /\ records[d].state # "LEASED" /\ records'[d].state \in {"PENDING", "RETRYABLE"}
      /\ records'[d].attempt_count < Allowed
  <2>1. CASE append(d)
    <3>1. records'[d] = NewRecord
      BY <2>1 DEF append, RunnerInv, RTypeOK, TypeOK
    <3>2. records[d].state = "ABSENT"
      BY <2>1 DEF append, Present
    <3> QED
      BY <1>1, <1>3, <3>1, <3>2, ThresholdAssumption DEF NewRecord
  <2>2. CASE operator_retry(d) /\ records[d].attempt_count < MaxAttempts
    <3>1. /\ records[d].state = "QUARANTINED" /\ records'[d].state = "RETRYABLE"
          /\ records'[d].attempt_count = records[d].attempt_count
      BY <2>2 DEF operator_retry, RunnerInv, RTypeOK, TypeOK
    <3> QED
      BY <1>1, <1>3, <2>2, <3>1, BoundAssumption
  <2> QED
    BY <2>1, <2>2
<1>6. \A e \in Data \ {d} : InHand(e)' <=> InHand(e)
  BY <1>4 DEF InHand
<1>7. OfferedShort'
  <2> SUFFICES ASSUME NEW e \in Data
               PROVE  /\ records'[e].attempt_count <= Allowed
                      /\ \/ records'[e].state \in {"PENDING", "RETRYABLE"}
                         \/ records'[e].state = "LEASED" /\ ~InHand(e)'
                         => records'[e].attempt_count < Allowed
    BY <1>2 DEF OfferedShort
  <2>1. CASE e # d
    BY <1>4, <1>6, <2>1 DEF AttemptInv, OfferedShort
  <2>2. CASE e = d
    <3>1. records'[d].attempt_count \in Nat
      BY <1>1 DEF append, operator_retry, NewRecord, RunnerInv, RTypeOK, TypeOK
    <3> QED
      BY <1>1, <1>5, <2>2, <3>1
  <2> QED
    BY <2>1, <2>2
<1>8. BatchPaid'
  <2> SUFFICES ASSUME NEW w \in Worker, NEW s \in batch[w], Unlapsed(w, s)
               PROVE  Unlapsed(w, s)'
    BY <1>2 DEF AttemptInv, BatchPaid
  <2>1. s.data \in Data /\ s.data # d
    BY <1>5, BatchTypes DEF RunnerInv, Unlapsed
  <2> QED
    BY <1>4, <2>1 DEF Unlapsed
<1> QED
  BY <1>7, <1>8 DEF AttemptInv

\* Every step preserves the account, if clocks disagree by less than a lease.
LEMMA AttemptStep ==
  ASSUME RunnerInv, RTypeOK', AttemptInv, Skew < LeaseDuration, [RNext]_rvars
  PROVE  AttemptInv'
<1> SUFFICES faults' <= MaxFaults /\ OfferedShort' /\ BatchPaid'
  BY IdleKept DEF AttemptInv, RunnerInv
<1>1. ASSUME NEW w \in Worker, StartCycle(w)
      PROVE  faults' <= MaxFaults /\ OfferedShort' /\ BatchPaid'
  BY <1>1, StartPaid
<1>2. ASSUME NEW w \in Worker,
             \/ AttemptFails(w) \/ Execute(w) \/ CompleteRejected(w)
             \/ StopWorker(w) \/ Restart(w)
      PROVE  faults' <= MaxFaults /\ OfferedShort' /\ BatchPaid'
  <2>1. UNCHANGED <<records, batch, clock, faults>>
    BY <1>2 DEF AttemptFails, Execute, CompleteRejected, StopWorker, Restart, vars
  <2> QED
    BY <2>1, AttemptsUntouched
<1>3. ASSUME NEW w \in Worker, Complete(w)
      PROVE  faults' <= MaxFaults /\ OfferedShort' /\ BatchPaid'
  <2>1. PICK s \in batch[w], now \in Readings, fingerprint \in Fingerprint :
           /\ Current(w, s)
           /\ complete(s.data, OwnerOf[w], acknowledged[w], fingerprint, now)
           /\ NextRecord(w, s)
    BY <1>3 DEF Complete
  <2>2. PICK record : record = [state              |-> "COMPLETED",
                                attempt_count      |-> records[s.data].attempt_count,
                                lease              |-> None,
                                failure            |-> FALSE,
                                target_fingerprint |-> fingerprint]
    OBVIOUS
  <2>3. records' = [records EXCEPT ![s.data] = record]
    BY <2>1, <2>2 DEF complete
  <2>4. /\ LeasedRecord(s.data, OwnerOf[w], now) /\ UNCHANGED <<clock, faults>>
        /\ batch' = [batch EXCEPT ![w] = batch[w] \ {s}]
    BY <1>3, <2>1 DEF complete, Complete, NextRecord
  <2>5. /\ record.state = "COMPLETED"
        /\ record.attempt_count = records[s.data].attempt_count
    BY <2>2
  <2> QED
    BY <2>1, <2>3, <2>4, <2>5, SettlementPaid
<1>4. ASSUME NEW w \in Worker, Release(w)
      PROVE  faults' <= MaxFaults /\ OfferedShort' /\ BatchPaid'
  <2>1. PICK s \in batch[w], now \in Readings :
           /\ Current(w, s)
           /\ release(s.data, OwnerOf[w], retryable[w], now)
           /\ NextRecord(w, s)
    BY <1>4 DEF Release
  <2>2. PICK record : record =
           [state              |-> IF \/ ~retryable[w]
                                      \/ records[s.data].attempt_count >= PoisonThreshold
                                   THEN "QUARANTINED" ELSE "RETRYABLE",
            attempt_count      |-> records[s.data].attempt_count,
            lease              |-> None,
            failure            |-> TRUE,
            target_fingerprint |-> records[s.data].target_fingerprint]
    OBVIOUS
  <2>3. records' = [records EXCEPT ![s.data] = record]
    BY <2>1, <2>2 DEF release
  <2>4. /\ LeasedRecord(s.data, OwnerOf[w], now) /\ UNCHANGED <<clock, faults>>
        /\ batch' = [batch EXCEPT ![w] = batch[w] \ {s}]
    BY <1>4, <2>1 DEF release, Release, NextRecord
  <2>5. s.data \in Data /\ records[s.data].attempt_count \in Nat
    BY BatchTypes, AttemptNumbers DEF RunnerInv
  <2>6. /\ record.state \in {"QUARANTINED", "RETRYABLE"}
        /\ record.attempt_count = records[s.data].attempt_count
        /\ record.state = "RETRYABLE" => record.attempt_count < PoisonThreshold
    BY <2>2, <2>5, ThresholdAssumption
  <2> QED
    BY <2>1, <2>3, <2>4, <2>6, SettlementPaid
<1>5. ASSUME NEW w \in Worker,
             CompleteWithoutEvidence(w) \/ ReleaseWithoutEvidence(w) \/ Crash(w)
      PROVE  faults' <= MaxFaults /\ OfferedShort' /\ BatchPaid'
  <2>1. Fault /\ \A v \in Worker : batch'[v] \subseteq batch[v]
    BY <1>5 DEF CompleteWithoutEvidence, ReleaseWithoutEvidence, Crash, Abort, RunnerInv, RTypeOK
  <2>2. \/ UNCHANGED records
        \/ \E s \in batch[w] : \E fingerprint, now :
              complete(s.data, OwnerOf[w], acknowledged[w], fingerprint, now)
        \/ \E s \in batch[w] : \E now : release(s.data, OwnerOf[w], retryable[w], now)
    BY <1>5 DEF CompleteWithoutEvidence, ReleaseWithoutEvidence, Crash, vars
  <2>3. \A d \in Data : records'[d].attempt_count = records[d].attempt_count
    <3>1. records \in [Data -> OutboxRecord]
      BY DEF RunnerInv, RTypeOK, TypeOK
    <3>2. CASE UNCHANGED records
      BY <3>2
    <3>3. ASSUME NEW s \in batch[w], NEW fingerprint, NEW now,
                 complete(s.data, OwnerOf[w], acknowledged[w], fingerprint, now)
          PROVE  \A d \in Data : records'[d].attempt_count = records[d].attempt_count
      BY <3>1, <3>3 DEF complete
    <3>4. ASSUME NEW s \in batch[w], NEW now,
                 release(s.data, OwnerOf[w], retryable[w], now)
          PROVE  \A d \in Data : records'[d].attempt_count = records[d].attempt_count
      BY <3>1, <3>4 DEF release
    <3> QED
      BY <2>2, <3>2, <3>3, <3>4
  <2> QED
    BY <2>1, <2>3, FaultPays
<1>6. ASSUME NEW w \in Worker, ReleaseRejected(w)
      PROVE  faults' <= MaxFaults /\ OfferedShort' /\ BatchPaid'
  BY <1>6, RefusalPaid
<1>7. CASE SetStop \/ UNCHANGED rvars
  <2>1. UNCHANGED <<records, batch, clock, faults>>
    BY <1>7 DEF SetStop, rvars, vars, workerVars
  <2> QED
    BY <2>1, AttemptsUntouched
<1>8. CASE Produce \/ Operate
  <2>1. /\ UNCHANGED <<batch, clock, faults>>
        /\ \E d \in Data :
              append(d) \/ (operator_retry(d) /\ records[d].attempt_count < MaxAttempts)
    BY <1>8 DEF Produce, Operate, AppendInOrder, workerVars
  <2> QED
    BY <2>1, OfferShort
<1>9. CASE Tick
  BY <1>9, TickPaid
<1>10. CASE SlowTick
  <2>1. Fault /\ UNCHANGED <<records, batch>>
    BY <1>10 DEF SlowTick, vars, workerVars
  <2> QED
    BY <2>1, FaultPays
<1> QED
  BY <1>1, <1>2, <1>3, <1>4, <1>5, <1>6, <1>7, <1>8, <1>9, <1>10 DEF RNext, WorkerAction

(***************************************************************************)
(* No record is tried for ever: if workers' clocks disagree by less than a *)
(* lease lasts, every attempt beyond the poison threshold and what the     *)
(* operator asked for is paid for by a fault of its own, however leases    *)
(* lapse, batches are given up and sinks fail.  With clocks that disagree  *)
(* by more a lease may be taken over the moment it is granted, and the     *)
(* bound is false.                                                         *)
(***************************************************************************)
THEOREM RetriesBounded ==
  ASSUME Skew < LeaseDuration
  PROVE  RSpec => []AttemptsAccounted
<1>1. RInit => AttemptInv
  <2> SUFFICES ASSUME RInit PROVE AttemptInv
    OBVIOUS
  <2>1. faults <= MaxFaults /\ Allowed = Ceiling
    BY BoundAssumption, ThresholdAssumption DEF RInit, Allowed, Ceiling
  <2>2. IdleEmpty /\ BatchPaid
    BY DEF RInit, IdleEmpty, BatchPaid
  <2>3. Ceiling \in Nat
    BY BoundAssumption, ThresholdAssumption DEF Ceiling
  <2>4. OfferedShort
    BY <2>1, <2>3 DEF RInit, Init, AbsentRecord, OfferedShort
  <2> QED
    BY <2>1, <2>2, <2>4 DEF AttemptInv
<1>2. RunnerInv' => RTypeOK'
  BY DEF RunnerInv
<1>3. RunnerInv /\ OrderInv /\ AttemptInv /\ [RNext]_rvars
         => RunnerInv' /\ OrderInv' /\ AttemptInv'
  BY <1>2, RunnerStep, AttemptStep
<1>4. AttemptInv => AttemptsAccounted
  <2> SUFFICES ASSUME AttemptInv, NEW d \in Data
               PROVE  \/ records[d].attempt_count <= PoisonThreshold + (MaxFaults - faults)
                      \/ records[d].attempt_count <= MaxAttempts + (MaxFaults - faults)
    BY DEF AttemptsAccounted
  <2>1. records[d].attempt_count <= Ceiling + (MaxFaults - faults)
    BY DEF AttemptInv, OfferedShort, Allowed
  <2> QED
    BY <2>1 DEF Ceiling
<1>5. RInit => RunnerInv /\ OrderInv
  BY RunnerInvInit, RunnerInit
<1> QED
  BY <1>1, <1>3, <1>4, <1>5, PTL DEF RSpec
================================================================================
