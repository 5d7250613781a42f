---------------------------- MODULE LifecycleProofs ----------------------------
(***************************************************************************)
(* Proofs about writers, runner and readers together, for any number of    *)
(* writers, workers and keys, and appends in any order of occurred_at.     *)
(***************************************************************************)
EXTENDS Lifecycle, RunnerProofs, WellFoundedInduction

LTypes ==
    /\ source \in [Partition -> SourceRow]
    /\ tx \in [Writer -> Transaction \cup {NoTransaction}]

\* The intent in an open transaction still fits its row: nobody else can move the row on.
PutChecked == \A w \in Writer : tx[w].at = "put" => ValidateSource(tx[w])

\* Open transactions have rows of their own.
RowsLocked ==
    \A v, w \in Writer :
        v # w /\ tx[v] # NoTransaction /\ tx[w] # NoTransaction => tx[v].key # tx[w].key

LInv == RunnerInv /\ LTypes /\ PutChecked /\ RowsLocked /\ MutationWithIntent

\* An intent has a key and a version.
LEMMA IntentTypes ==
  ASSUME NEW d \in Data
  PROVE  d.partition_key \in Partition /\ d.source_version \in Nat /\ d.source_version # None
  BY DataAssumption, LifecycleAssumption DEF OutboxDataV1

\* The parts of LInv are facts about presence, rows and transactions only.
LEMMA LifecycleKept ==
  ASSUME LInv, RunnerInv', UNCHANGED <<source, tx>>,
         \A d \in Data : Present(d)' <=> Present(d)
  PROVE  LInv'
<1>1. MutationWithIntent'
  BY DEF LInv, MutationWithIntent
<1>2. LTypes' /\ PutChecked' /\ RowsLocked'
  BY DEF LInv, LTypes, PutChecked, RowsLocked, ValidateSource
<1> QED
  BY <1>1, <1>2 DEF LInv

\* Workers and the operator neither add nor remove an intent.
LEMMA PresenceKept ==
  ASSUME RecordInv, [WorkerStep \/ OperatorStep]_vars, NEW d \in Data
  PROVE  Present(d)' <=> Present(d)
<1>0. records \in [Data -> OutboxRecord]
  BY DEF RecordInv, TypeOK
<1>1. ASSUME NEW now \in Time, NEW owner \in Owner, NEW limit \in Limit,
             atomic_claim(owner, limit, now)
      PROVE  Present(d)' <=> Present(d)
  BY <1>1, ClaimVisible
<1>2. ASSUME NEW now, NEW owner, NEW e \in Data, NEW version, NEW fingerprint,
             complete(e, owner, version, fingerprint, now)
      PROVE  Present(d)' <=> Present(d)
  BY <1>0, <1>2 DEF complete, LeasedRecord, Present
<1>3. ASSUME NEW now, NEW owner, NEW e \in Data, NEW retry,
             release(e, owner, retry, now)
      PROVE  Present(d)' <=> Present(d)
  BY <1>0, <1>3 DEF release, LeasedRecord, Present
<1>4. ASSUME NEW e \in Data, operator_retry(e)
      PROVE  Present(d)' <=> Present(d)
  BY <1>0, <1>4 DEF operator_retry, Present
<1>5. CASE UNCHANGED vars
  BY <1>5 DEF vars, Present
<1> QED
  BY <1>1, <1>2, <1>3, <1>4, <1>5 DEF WorkerStep, OperatorStep

\* The runner preserves LInv.
LEMMA LifecycleProjects ==
  ASSUME LInv, ProjectStep
  PROVE  LInv'
<1>1. Projecting
  BY DEF ProjectStep, Projecting
<1>2. RunnerInv'
  BY <1>1, ProjectingStep DEF LInv
<1>3. RTypeOK /\ RecordInv
  BY DEF LInv, RunnerInv
<1>4. \A d \in Data : Present(d)' <=> Present(d)
  BY <1>1, <1>3, ProjectingStoreStep, PresenceKept
<1> QED
  BY <1>2, <1>4, LifecycleKept DEF ProjectStep

\* A transaction that begins, puts its intent or rolls back.
LEMMA LifecycleOpens ==
  ASSUME LInv, NEW w \in Writer, Mutate(w) \/ PutIntent(w) \/ Rollback(w)
  PROVE  LInv'
<1>0. RunnerInv /\ LTypes /\ PutChecked /\ RowsLocked /\ MutationWithIntent
  BY DEF LInv
<1>1. UNCHANGED <<rvars, source>>
  BY DEF Mutate, PutIntent, Rollback
<1>2. RunnerInv'
  <2>1. UNCHANGED <<workerVars, clock, stop, faults, vars>> /\ target' = target
    BY <1>1 DEF rvars, workerVars, vars
  <2>2. RecordInv'
    BY <1>0, <2>1, RecordStutter DEF RunnerInv
  <2>3. RTypeOK'
    BY <1>0, <2>1, <2>2 DEF RunnerInv, RecordInv, RTypeOK, workerVars
  <2> QED
    BY <1>0, <2>1, <2>2, <2>3, RunnerEnvironment
<1>3. MutationWithIntent'
  BY <1>0, <1>1 DEF MutationWithIntent, Present, rvars
<1>4. CASE Mutate(w)
  <2>1. PICK d \in Data, k \in Partition, deleted \in BOOLEAN :
          /\ \A v \in Writer : tx[v] # NoTransaction => tx[v].key # k
          /\ tx' = [tx EXCEPT ![w] =
                [at |-> "mutated", intent |-> d, key |-> k, deleted |-> deleted]]
    BY <1>4 DEF Mutate
  <2>2. [at |-> "mutated", intent |-> d, key |-> k, deleted |-> deleted] \in Transaction
    BY DEF Transaction
  <2>3. \A v \in Writer : tx'[v] =
          IF v = w THEN [at |-> "mutated", intent |-> d, key |-> k, deleted |-> deleted] ELSE tx[v]
    BY <1>0, <2>1 DEF LTypes
  <2>4. LTypes'
    BY <1>0, <1>1, <2>1, <2>2 DEF LTypes
  <2>5. PutChecked'
    BY <1>0, <1>1, <2>3 DEF PutChecked, ValidateSource
  <2>6. RowsLocked'
    BY <1>0, <2>1, <2>3 DEF RowsLocked
  <2> QED
    BY <1>2, <1>3, <2>4, <2>5, <2>6 DEF LInv
<1>5. CASE PutIntent(w)
  <2>1. tx[w].at = "mutated" /\ ValidateSource(tx[w]) /\ tx' = [tx EXCEPT ![w].at = "put"]
    BY <1>5 DEF PutIntent
  <2>2. tx[w] \in Transaction
    BY <1>0, <2>1 DEF LTypes, NoTransaction
  <2>3. /\ tx'[w] \in Transaction /\ tx'[w].at = "put" /\ tx'[w].intent = tx[w].intent
        /\ tx'[w].key = tx[w].key /\ tx'[w].deleted = tx[w].deleted
        /\ \A v \in Writer \ {w} : tx'[v] = tx[v]
    BY <1>0, <2>1, <2>2 DEF LTypes, Transaction
  <2>4. LTypes'
    BY <1>0, <1>1, <2>1, <2>3 DEF LTypes
  <2>5. PutChecked'
    BY <1>0, <1>1, <2>1, <2>3 DEF PutChecked, ValidateSource
  <2>6. tx[w] # NoTransaction
    BY <2>1 DEF NoTransaction
  <2>7. RowsLocked'
    BY <1>0, <2>3, <2>6 DEF RowsLocked
  <2> QED
    BY <1>2, <1>3, <2>4, <2>5, <2>7 DEF LInv
<1>6. CASE Rollback(w)
  <2>1. \A v \in Writer : tx'[v] = IF v = w THEN NoTransaction ELSE tx[v]
    BY <1>0, <1>6 DEF Rollback, LTypes
  <2>2. LTypes'
    BY <1>0, <1>1, <1>6 DEF LTypes, Rollback
  <2>3. PutChecked' /\ RowsLocked'
    BY <1>0, <1>1, <2>1 DEF PutChecked, RowsLocked, ValidateSource, NoTransaction
  <2> QED
    BY <1>2, <1>3, <2>2, <2>3 DEF LInv
<1> QED
  BY <1>4, <1>5, <1>6

\* A commit moves its row on by one version and adds the one intent of that version.
LEMMA LifecycleCommits ==
  ASSUME LInv, NEW w \in Writer, Commit(w)
  PROVE  LInv'
<1> DEFINE t == tx[w]
           d == t.intent
           k == t.key
<1>0. RunnerInv /\ LTypes /\ PutChecked /\ RowsLocked /\ MutationWithIntent
  BY DEF LInv
<1>1. t \in Transaction /\ t # NoTransaction
  BY <1>0 DEF Commit, LTypes, NoTransaction
<1>2. /\ d \in Data /\ k \in Partition /\ k = d.partition_key
      /\ t.deleted \in BOOLEAN /\ (t.deleted <=> d \in Tombstone)
      /\ source[k].version + 1 = d.source_version
  BY <1>0, <1>1 DEF Commit, PutChecked, ValidateSource, Transaction
<1>3. RunnerInv'
  BY <1>0, <1>2, ProducerStep DEF Commit
<1>4. source' = [source EXCEPT ![k] = [version |-> source[k].version + 1, deleted |-> t.deleted]]
  BY DEF Commit
<1>5. [version |-> source[k].version + 1, deleted |-> t.deleted] \in SourceRow
  BY <1>0, <1>2 DEF LTypes, SourceRow
<1>6. /\ source'[k].version = source[k].version + 1 /\ source'[k].deleted = t.deleted
      /\ \A j \in Partition \ {k} : source'[j] = source[j]
  BY <1>0, <1>2, <1>4 DEF LTypes
<1>7. \A v \in Writer : tx'[v] = IF v = w THEN NoTransaction ELSE tx[v]
  BY <1>0 DEF Commit, LTypes
<1>8. LTypes'
  BY <1>0, <1>4, <1>5 DEF LTypes, Commit
<1>9. RowsLocked'
  BY <1>0, <1>7 DEF RowsLocked
<1>10. PutChecked'
  <2> SUFFICES ASSUME NEW v \in Writer, tx'[v].at = "put"
               PROVE  ValidateSource(tx[v])' 
    BY DEF PutChecked
  <2>1. v # w /\ tx'[v] = tx[v] /\ tx[v].at = "put" /\ tx[v] # NoTransaction
    BY <1>7 DEF NoTransaction
  <2>2. ValidateSource(tx[v]) /\ tx[v].key # k
    BY <1>0, <1>1, <2>1 DEF PutChecked, RowsLocked
  <2>3. tx[v].key \in Partition
    BY <1>0, <2>1 DEF LTypes, Transaction
  <2> QED
    BY <1>6, <2>1, <2>2, <2>3 DEF ValidateSource
<1>11. ~Present(d) /\ \A e \in Data : Present(e)' <=> Present(e) \/ e = d
  BY <1>0, <1>2 DEF Commit, append, Present, NewRecord, RunnerInv, RecordInv, TypeOK
<1>12. \A j \in Partition : source[j].version \in Nat /\ source'[j].version \in Nat
  BY <1>0, <1>8 DEF LTypes, SourceRow
<1> HIDE DEF t, d, k
<1>13. ASSUME NEW a \in Data, Present(a)'
       PROVE  a.source_version \in 1..source'[a.partition_key].version
  <2>1. CASE a = d
    BY <1>2, <1>6, <1>12, <2>1
  <2>2. CASE Present(a)
    BY <1>0, <1>6, <1>12, <2>2, IntentTypes DEF MutationWithIntent
  <2> QED
    BY <1>11, <1>13, <2>1, <2>2
<1>14. ASSUME NEW a \in Data, Present(a)', NEW b \in Data, Present(b)',
              a.partition_key = b.partition_key, a.source_version = b.source_version
       PROVE  a = b
  <2>1. \A c \in Data : Present(c) /\ c.partition_key = k => c.source_version # d.source_version
    BY <1>0, <1>2, <1>12 DEF MutationWithIntent
  <2>2. CASE Present(a) /\ Present(b)
    BY <1>0, <1>14, <2>2 DEF MutationWithIntent
  <2> QED
    BY <1>2, <1>11, <1>14, <2>1, <2>2
<1>15. ASSUME NEW j \in Partition, NEW v \in 1..source'[j].version
       PROVE  \E a \in Data : /\ Present(a)' /\ a.partition_key = j /\ a.source_version = v
                              /\ v = source'[j].version => (source'[j].deleted <=> a \in Tombstone)
  <2>1. CASE v \in 1..source[j].version
    <3>1. PICK a \in Data :
            /\ Present(a) /\ a.partition_key = j /\ a.source_version = v
            /\ v = source[j].version => (source[j].deleted <=> a \in Tombstone)
      BY <1>0, <2>1 DEF MutationWithIntent
    <3>2. v = source'[j].version => source'[j] = source[j]
      BY <1>6, <1>12, <2>1
    <3> QED
      BY <1>11, <3>1, <3>2
  <2>2. CASE v \notin 1..source[j].version
    <3>1. j = k /\ v = source[k].version + 1
      BY <1>6, <1>12, <2>2
    <3> QED
      BY <1>2, <1>6, <1>11, <3>1
  <2> QED
    BY <2>1, <2>2
<1>16. MutationWithIntent'
  BY <1>13, <1>14, <1>15 DEF MutationWithIntent
<1> QED
  BY <1>3, <1>8, <1>9, <1>10, <1>16 DEF LInv

\* The initial state satisfies LInv.
LEMMA LifecycleInit == LInit => LInv
<1> SUFFICES ASSUME LInit PROVE LInv
  OBVIOUS
<1>1. RunnerInv
  BY RunnerInvInit DEF LInit
<1>2. LTypes /\ PutChecked /\ RowsLocked
  BY DEF LInit, LTypes, PutChecked, RowsLocked, SourceRow, NoTransaction
<1>3. /\ \A d \in Data : ~Present(d)
      /\ \A k \in Partition : source[k].version = 0
  BY DEF LInit, RInit, Init, AbsentRecord, Present
<1>4. MutationWithIntent
  BY <1>3 DEF MutationWithIntent
<1> QED
  BY <1>1, <1>2, <1>4 DEF LInv

\* Every step of writers, workers and environment preserves LInv.
LEMMA LifecycleStep == LInv /\ [LNext]_lvars => LInv'
<1> SUFFICES ASSUME LInv, [LNext]_lvars PROVE LInv'
  OBVIOUS
<1>1. CASE UNCHANGED lvars
  <2>1. /\ UNCHANGED <<workerVars, clock, stop, faults, vars, source, tx>>
        /\ target' = target
    BY <1>1 DEF lvars, rvars, workerVars, vars
  <2>2. RecordInv'
    BY <2>1, RecordStutter DEF LInv, RunnerInv
  <2>3. RTypeOK'
    BY <2>1, <2>2 DEF LInv, RunnerInv, RecordInv, RTypeOK, workerVars
  <2>4. RunnerInv'
    BY <2>1, <2>2, <2>3, RunnerEnvironment DEF LInv
  <2>5. \A d \in Data : Present(d)' <=> Present(d)
    BY <2>1 DEF Present, vars
  <2> QED
    BY <2>1, <2>4, <2>5, LifecycleKept
<1> QED
  BY <1>1, LifecycleProjects, LifecycleOpens, LifecycleCommits DEF LNext

--------------------------------------------------------------------------------
\* A set of numbers with a bound has a largest element.
LEMMA Largest ==
  ASSUME NEW S \in SUBSET Nat, S # {}, NEW bound \in Nat, \A x \in S : x <= bound
  PROVE  \E m \in S : \A x \in S : x <= m
<1> DEFINE Gaps == {bound - x : x \in S}
<1>1. Gaps \subseteq Nat /\ Gaps # {}
  <2>1. \A x \in S : bound - x \in Nat
    OBVIOUS
  <2>2. PICK x \in S : TRUE
    OBVIOUS
  <2>3. bound - x \in Gaps
    BY <2>2
  <2> QED
    BY <2>1, <2>3
<1>2. \E g \in Gaps : \A h \in Gaps : <<h, g>> \notin OpToRel(<, Nat)
  BY <1>1, NatLessThanWellFounded, WFMin, Zenon
<1>3. PICK g \in Gaps : \A h \in Gaps : ~(h < g)
  BY <1>1, <1>2 DEF OpToRel
<1>4. PICK m \in S : g = bound - m
  OBVIOUS
<1>5. ASSUME NEW x \in S PROVE x <= m
  <2>1. ~(bound - x < g)
    BY <1>3
  <2> QED
    BY <1>4, <2>1
<1> QED
  BY <1>5

\* What LInv says of readers.
LEMMA ReadersFollow == LInv => ReadsFollowCheckpoint
<1> SUFFICES ASSUME LInv, NEW d \in Data, Completed(d)
             PROVE  LET k == d.partition_key IN
                    /\ \A r \in LatestVisible(k) :
                          r.version \in d.source_version..source[k].version
                    /\ LatestVisible(k) = {} =>
                          \E e \in Tombstone : /\ Present(e) /\ e.partition_key = k
                                               /\ e.source_version >= d.source_version
  BY DEF ReadsFollowCheckpoint
<1> DEFINE k == d.partition_key
           Row(e) == [version |-> e.source_version, deleted |-> e \in Tombstone]
<1>1. k \in Partition /\ source[k].version \in Nat
  BY IntentTypes DEF LInv, LTypes, SourceRow
<1>2. d \in target
  BY IntentTypes DEF LInv, RunnerInv, CompletionAcknowledged
<1>3. \A e \in target : e \in Data /\ Present(e)
  BY DEF LInv, RunnerInv, TargetClaimed, RTypeOK, RecordInv, Attempts, Present
<1>4. ASSUME NEW r \in Rows(k)
      PROVE  \E e \in Data : /\ Present(e) /\ e.partition_key = k /\ e.source_version = r.version
                             /\ (r.deleted <=> e \in Tombstone)
                             /\ r.version \in Nat /\ r.version <= source[k].version
  <2>1. PICK e \in target : e.partition_key = k /\ r = Row(e)
    BY DEF Rows
  <2>2. e \in Data /\ Present(e) /\ e.source_version \in Nat
    BY <1>3, <2>1, IntentTypes
  <2>3. e.source_version \in 1..source[k].version
    BY <2>1, <2>2 DEF LInv, MutationWithIntent
  <2>4. r.version = e.source_version
    BY <2>1
  <2>5. r.deleted = (e \in Tombstone)
    BY <2>1
  <2>6. r.version \in Nat /\ r.version <= source[k].version
    BY <1>1, <2>2, <2>3, <2>4
  <2>7. r.deleted <=> e \in Tombstone
    BY <2>5, Zenon
  <2> QED
    BY <2>1, <2>2, <2>4, <2>6, <2>7, Zenon
<1>5. Row(d) \in Rows(k) /\ Row(d).version = d.source_version /\ d.source_version \in Nat
  BY <1>2, IntentTypes DEF Rows
<1>6. ASSUME NEW r \in LatestVisible(k)
      PROVE  r.version \in d.source_version..source[k].version
  <2>1. r \in Rows(k) /\ d.source_version <= r.version
    BY <1>5 DEF LatestVisible
  <2> QED
    BY <1>1, <1>4, <1>5, <2>1
<1>7. ASSUME LatestVisible(k) = {}
      PROVE  \E e \in Tombstone : /\ Present(e) /\ e.partition_key = k
                                  /\ e.source_version >= d.source_version
  <2> DEFINE Versions == {r.version : r \in Rows(k)}
  <2>1. Versions \in SUBSET Nat /\ \A v \in Versions : v <= source[k].version
    BY <1>4
  <2>2. d.source_version \in Versions
    BY <1>5
  <2>3. \E m \in Versions : \A v \in Versions : v <= m
    <3> HIDE DEF Versions
    <3> QED
      BY <1>1, <2>1, <2>2, Largest
  <2>4. PICK r \in Rows(k) : \A q \in Rows(k) : q.version <= r.version
    BY <2>3
  <2>5. r.deleted
    BY <1>7, <2>4 DEF LatestVisible
  <2>6. PICK e \in Data : /\ Present(e) /\ e.partition_key = k /\ e.source_version = r.version
                          /\ (r.deleted <=> e \in Tombstone)
    BY <1>4
  <2>7. r.version >= d.source_version
    BY <1>4, <1>5, <2>4
  <2> QED
    BY <2>5, <2>6, <2>7
<1> QED
  BY <1>6, <1>7

(***************************************************************************)
(* For any number of writers and workers, intents in any order and any     *)
(* number of faults: a source mutation and its intent are committed        *)
(* together or not at all, each version with exactly one intent.           *)
(***************************************************************************)
THEOREM MutationsHaveIntents == LSpec => []MutationWithIntent
<1>1. LInv => MutationWithIntent
  BY DEF LInv
<1> QED
  BY <1>1, LifecycleInit, LifecycleStep, PTL DEF LSpec

(***************************************************************************)
(* For any number of writers and workers, intents in any order and any     *)
(* number of faults: what readers see of a key is never behind what the    *)
(* runner has completed, and never ahead of what was committed.            *)
(***************************************************************************)
THEOREM ReadersNeverGoBack == LSpec => []ReadsFollowCheckpoint
  BY LifecycleInit, LifecycleStep, ReadersFollow, PTL DEF LSpec

(***************************************************************************)
(* Writers, workers and store stay well formed.                            *)
(***************************************************************************)
THEOREM LifecycleTyped == LSpec => []LTypeOK
<1>1. LInv => LTypeOK
  BY DEF LInv, RunnerInv, LTypes, LTypeOK
<1> QED
  BY <1>1, LifecycleInit, LifecycleStep, PTL DEF LSpec
================================================================================
