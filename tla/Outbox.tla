-------------------------------- MODULE Outbox --------------------------------
(***************************************************************************)
(* InMemoryOutboxStore: the outbox records of one projection, the leases   *)
(* workers take on them and the checkpoint of every partition.             *)
(*                                                                         *)
(* Every operation runs under the store's lock, so it is one action.  An   *)
(* operation that raises changes nothing, so its guard is false here; the  *)
(* caller's reaction to the exception is in ProjectionRunner.  Callers     *)
(* pass their own clock reading to every operation (the argument now), and *)
(* no two readings are related in any way in this module.                  *)
(*                                                                         *)
(* A definition called Faulty... is the definition after it with a bug in  *)
(* it.  No specification uses one: each shows that a property can fail.    *)
(***************************************************************************)
EXTENDS Integers, FiniteSets

CONSTANTS
    Data,            \* the intents (OutboxDataV1) that may be appended
    Partition,       \* their partition keys, one per source identity
    Version,         \* their source versions
    Owner,           \* lease owners (worker ids)
    Fingerprint,     \* fingerprints of target results
    Time,            \* clock readings
    Limit,           \* limits of claims
    LeaseDuration,   \* lease_duration of every claim
    PoisonThreshold, \* poison_threshold of the store
    None             \* Python's None

(***************************************************************************)
(* An intent is immutable.  Event ids are strings; only their order        *)
(* matters, so they are numbers here.  Two intents may carry the same      *)
(* event id with different content, hence different digests.               *)
(***************************************************************************)
OutboxDataV1 == [event_id      : Nat,
                 partition_key : Partition,
                 occurred_at   : Nat,
                 source_version : Version]

OutboxLease == [owner : Owner, expires_at : Nat, attempt : Nat]

ASSUME DataAssumption      == Data \subseteq OutboxDataV1 /\ IsFiniteSet(Data)
ASSUME TimeAssumption      == Time \subseteq Nat
ASSUME LimitAssumption     == Limit \subseteq Nat \ {0}
ASSUME LeaseAssumption     == LeaseDuration \in Nat \ {0}
ASSUME ThresholdAssumption == PoisonThreshold \in Nat \ {0}
ASSUME NoneAssumption      == None \notin Data \cup OutboxLease \cup Fingerprint

VARIABLES
    records,    \* _records: what the store knows of every intent
    checkpoints \* _checkpoints: the progress of every partition

vars == <<records, checkpoints>>

OutboxState == {"PENDING", "LEASED", "COMPLETED", "RETRYABLE", "QUARANTINED"}

(***************************************************************************)
(* A record keeps whether a failure is on file, not its redacted text.     *)
(* "ABSENT" stands for an intent that has no entry in _records.            *)
(***************************************************************************)
OutboxRecord == [state              : OutboxState \cup {"ABSENT"},
                 attempt_count      : Nat,
                 lease              : OutboxLease \cup {None},
                 failure            : BOOLEAN,
                 target_fingerprint : Fingerprint \cup {None}]

Checkpoint == [revision           : Nat,
               data               : Data \cup {None},
               target_fingerprint : Fingerprint \cup {None}]

TypeOK ==
    /\ records \in [Data -> OutboxRecord]
    /\ checkpoints \in [Partition -> Checkpoint]

AbsentRecord == [state |-> "ABSENT", attempt_count |-> 0, lease |-> None,
                 failure |-> FALSE, target_fingerprint |-> None]

NewRecord == [state |-> "PENDING", attempt_count |-> 0, lease |-> None,
              failure |-> FALSE, target_fingerprint |-> None]

NoCheckpoint == [revision |-> 0, data |-> None, target_fingerprint |-> None]

Init ==
    /\ records = [d \in Data |-> AbsentRecord]
    /\ checkpoints = [p \in Partition |-> NoCheckpoint]

--------------------------------------------------------------------------------
(***************************************************************************)
(* The order in which atomic_claim walks the records.                      *)
(***************************************************************************)
Before(d, e) ==
    \/ d.occurred_at < e.occurred_at
    \/ d.occurred_at = e.occurred_at /\ d.event_id < e.event_id

Earlier(d, e) == d.partition_key = e.partition_key /\ Before(d, e)

Present(d)    == records[d].state # "ABSENT"
Completed(d)  == records[d].state = "COMPLETED"
Incomplete(d) == Present(d) /\ ~Completed(d)

(***************************************************************************)
(* append: a new event id makes a PENDING record.  A known one changes     *)
(* nothing: same digest, a silent no-op; another digest, ConflictError.    *)
(***************************************************************************)
FaultyAppend(d) ==  \* does not look the event id up
    /\ records' = [records EXCEPT ![d] = NewRecord]
    /\ UNCHANGED checkpoints

append(d) ==
    /\ \A e \in Data : Present(e) => e.event_id # d.event_id
    /\ records' = [records EXCEPT ![d] = NewRecord]
    /\ UNCHANGED checkpoints

(***************************************************************************)
(* The first record of a partition that is not completed is the only one   *)
(* atomic_claim looks at: it is added to seen_partitions whatever its      *)
(* state, so a quarantined or leased record blocks those behind it.        *)
(***************************************************************************)
FaultyPartitionHead(d) ==  \* passes over quarantined and leased records
    /\ Incomplete(d)
    /\ \A e \in Data :
          Incomplete(e) /\ records[e].state \notin {"LEASED", "QUARANTINED"} => ~Earlier(e, d)

PartitionHead(d) ==
    /\ Incomplete(d)
    /\ \A e \in Data : Incomplete(e) => ~Earlier(e, d)

FaultyClaimable(d, now) ==  \* never takes over an expired lease
    PartitionHead(d) /\ records[d].state \in {"PENDING", "RETRYABLE"}

Claimable(d, now) ==
    /\ PartitionHead(d)
    /\ \/ records[d].state \in {"PENDING", "RETRYABLE"}
       \/ records[d].state = "LEASED" /\ ~(records[d].lease.expires_at > now)

\* The walk stops once it has claimed limit records.
ClaimSet(limit, now) ==
    {d \in Data :
        /\ Claimable(d, now)
        /\ Cardinality({e \in Data : Claimable(e, now) /\ Before(e, d)}) < limit}

FaultyClaim(record, owner, now) ==  \* the lease ends before it begins
    [state              |-> "LEASED",
     attempt_count      |-> record.attempt_count + 1,
     lease              |-> [owner      |-> owner,
                             expires_at |-> now - LeaseDuration,
                             attempt    |-> record.attempt_count + 1],
     failure            |-> FALSE,
     target_fingerprint |-> record.target_fingerprint]

Claim(record, owner, now) ==
    [state              |-> "LEASED",
     attempt_count      |-> record.attempt_count + 1,
     lease              |-> [owner      |-> owner,
                             expires_at |-> now + LeaseDuration,
                             attempt    |-> record.attempt_count + 1],
     failure            |-> FALSE,
     target_fingerprint |-> record.target_fingerprint]

atomic_claim(owner, limit, now) ==
    /\ records' = [d \in Data |-> IF d \in ClaimSet(limit, now)
                                  THEN Claim(records[d], owner, now)
                                  ELSE records[d]]
    /\ UNCHANGED checkpoints

(***************************************************************************)
(* _leased_record: the check behind complete and release.  It looks at the *)
(* owner and the expiry only; the attempt is not compared.                 *)
(***************************************************************************)
FaultyLeasedRecord(d, owner, now) ==  \* does not compare the owner
    /\ records[d].state = "LEASED"
    /\ ~(records[d].lease.expires_at <= now)

LeasedRecord(d, owner, now) ==
    /\ records[d].state = "LEASED"
    /\ records[d].lease.owner = owner
    /\ ~(records[d].lease.expires_at <= now)

FaultyComplete(d, owner, acknowledged_source_version, fingerprint, now) ==
    /\ LeasedRecord(d, owner, now)  \* takes any acknowledgement, restarts the checkpoint
    /\ records' = [records EXCEPT ![d] =
            [state              |-> "COMPLETED",
             attempt_count      |-> @.attempt_count,
             lease              |-> None,
             failure            |-> FALSE,
             target_fingerprint |-> fingerprint]]
    /\ checkpoints' = [checkpoints EXCEPT ![d.partition_key] =
            [revision |-> 1, data |-> d, target_fingerprint |-> fingerprint]]

complete(d, owner, acknowledged_source_version, fingerprint, now) ==
    /\ LeasedRecord(d, owner, now)
    /\ acknowledged_source_version = d.source_version
    /\ records' = [records EXCEPT ![d] =
            [state              |-> "COMPLETED",
             attempt_count      |-> @.attempt_count,
             lease              |-> None,
             failure            |-> FALSE,
             target_fingerprint |-> fingerprint]]
    /\ checkpoints' = [checkpoints EXCEPT ![d.partition_key] =
            [revision |-> @.revision + 1, data |-> d,
             target_fingerprint |-> fingerprint]]

FaultyRelease(d, owner, retryable, now) ==  \* one attempt too many
    /\ LeasedRecord(d, owner, now)
    /\ records' = [records EXCEPT ![d] =
            [state              |-> IF ~retryable \/ @.attempt_count > PoisonThreshold
                                    THEN "QUARANTINED" ELSE "RETRYABLE",
             attempt_count      |-> @.attempt_count,
             lease              |-> None,
             failure            |-> TRUE,
             target_fingerprint |-> @.target_fingerprint]]
    /\ UNCHANGED checkpoints

release(d, owner, retryable, now) ==
    /\ LeasedRecord(d, owner, now)
    /\ records' = [records EXCEPT ![d] =
            [state              |-> IF ~retryable \/ @.attempt_count >= PoisonThreshold
                                    THEN "QUARANTINED" ELSE "RETRYABLE",
             attempt_count      |-> @.attempt_count,
             lease              |-> None,
             failure            |-> TRUE,
             target_fingerprint |-> @.target_fingerprint]]
    /\ UNCHANGED checkpoints

operator_retry(d) ==
    /\ records[d].state = "QUARANTINED"
    /\ records' = [records EXCEPT ![d] =
            [state              |-> "RETRYABLE",
             attempt_count      |-> @.attempt_count,
             lease              |-> @.lease,
             failure            |-> FALSE,
             target_fingerprint |-> @.target_fingerprint]]
    /\ UNCHANGED checkpoints

(***************************************************************************)
(* compare_and_set_checkpoint: the hook adapter fixtures use.  It bypasses *)
(* the records, so the protocol proper (OrderedSpec) does not take it.     *)
(***************************************************************************)
compare_and_set_checkpoint(p, checkpoint, expected_revision) ==
    /\ checkpoints[p].revision = expected_revision
    /\ checkpoint.revision = expected_revision + 1
    /\ checkpoints' = [checkpoints EXCEPT ![p] = checkpoint]
    /\ UNCHANGED records

--------------------------------------------------------------------------------
(***************************************************************************)
(* What workers and the operator do.                                       *)
(***************************************************************************)
WorkerStep ==
    \E now \in Time, owner \in Owner :
        \/ \E limit \in Limit : atomic_claim(owner, limit, now)
        \/ \E d \in Data, version \in Version, fingerprint \in Fingerprint :
                complete(d, owner, version, fingerprint, now)
        \/ \E d \in Data, retryable \in BOOLEAN : release(d, owner, retryable, now)

OperatorStep == \E d \in Data : operator_retry(d)

FixtureStep ==
    \E p \in Partition, d \in Data, fingerprint \in Fingerprint :
        LET expected == checkpoints[p].revision
        IN  compare_and_set_checkpoint(p,
                [revision |-> expected + 1, data |-> d,
                 target_fingerprint |-> fingerprint], expected)

Next == (\E d \in Data : append(d)) \/ WorkerStep \/ OperatorStep \/ FixtureStep

Spec == Init /\ [][Next]_vars

(***************************************************************************)
(* The store sorts by occurred_at and event_id but does not require        *)
(* producers to append in that order.  Ordered delivery needs them to, and *)
(* needs checkpoints to move by complete alone: OrderedSpec.               *)
(***************************************************************************)
AppendInOrder(d) ==
    /\ \A e \in Data : Present(e) /\ e.partition_key = d.partition_key => Before(e, d)
    /\ append(d)

OrderedNext == (\E d \in Data : AppendInOrder(d)) \/ WorkerStep \/ OperatorStep

OrderedSpec == Init /\ [][OrderedNext]_vars

--------------------------------------------------------------------------------
(* Properties of every behaviour.                                          *)

(***************************************************************************)
(* OutboxRecord.__post_init__ rejects a snapshot whose state and lease     *)
(* disagree; no sequence of operations produces one, and the lease always  *)
(* carries the number of the latest attempt.                               *)
(***************************************************************************)
LeaseConsistent ==
    \A d \in Data :
        /\ records[d].lease # None <=> records[d].state = "LEASED"
        /\ records[d].state = "LEASED" => records[d].lease.attempt = records[d].attempt_count

(***************************************************************************)
(* The poison bound: a record whose last attempt failed is offered again   *)
(* only below the threshold (an operator's retry clears the failure).      *)
(***************************************************************************)
PoisonQuarantined ==
    \A d \in Data :
        records[d].state = "RETRYABLE" /\ records[d].failure
            => records[d].attempt_count < PoisonThreshold

(***************************************************************************)
(* No late, repeated or misdirected call touches a completed record: what  *)
(* complete stored, its target fingerprint included, stays for good.       *)
(***************************************************************************)
CompletedIsFinal ==
    [][\A d \in Data : Completed(d) => records'[d] = records[d]]_vars

--------------------------------------------------------------------------------
(* Properties of ordered behaviours.                                       *)

(***************************************************************************)
(* No silent skip: once an intent has been handed to a worker, every       *)
(* earlier intent of its partition is completed, through lease expiry,     *)
(* failed attempts, quarantine and operator retries alike.                 *)
(***************************************************************************)
NoSilentSkip ==
    \A d, e \in Data :
        records[d].attempt_count > 0 /\ Present(e) /\ Earlier(e, d) => Completed(e)

(***************************************************************************)
(* At most one intent of a partition is out with a worker.                 *)
(***************************************************************************)
OneLeasePerPartition ==
    \A d, e \in Data :
        /\ records[d].state = "LEASED" /\ records[e].state = "LEASED"
        /\ d.partition_key = e.partition_key
        => d = e

CompletedIn(p) == {d \in Data : Completed(d) /\ d.partition_key = p}

(***************************************************************************)
(* The checkpoint of a partition is its frontier: it counts the completed  *)
(* intents and names the last of them with the fingerprint of its target   *)
(* result.                                                                 *)
(***************************************************************************)
CheckpointIsFrontier ==
    \A p \in Partition :
        /\ checkpoints[p].revision = Cardinality(CompletedIn(p))
        /\ CompletedIn(p) = {} => checkpoints[p] = NoCheckpoint
        /\ CompletedIn(p) # {} =>
            /\ checkpoints[p].data \in CompletedIn(p)
            /\ checkpoints[p].target_fingerprint
                   = records[checkpoints[p].data].target_fingerprint
            /\ \A e \in CompletedIn(p) :
                   e = checkpoints[p].data \/ Before(e, checkpoints[p].data)

(***************************************************************************)
(* The outbox implements ordered delivery: an intent is published when it  *)
(* is present, delivered when it is completed.                             *)
(***************************************************************************)
Delivery == INSTANCE OrderedDelivery WITH
    published <- {d \in Data : Present(d)},
    delivered <- {d \in Data : Completed(d)},
    position  <- [p \in Partition |-> checkpoints[p].data]

DeliverySpec == Delivery!Spec
================================================================================
