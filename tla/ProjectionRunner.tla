--------------------------- MODULE ProjectionRunner ---------------------------
(***************************************************************************)
(* ProjectionRunner: several workers that claim outbox records, project    *)
(* them into a target and settle them with the store.                      *)
(*                                                                         *)
(* Between two calls of a worker anything may happen: its lease may expire *)
(* and pass to another worker, it may crash, the target may apply a write  *)
(* and fail to say so.  The store's operations are those of Outbox; a call *)
(* whose guard is false raises LeaseLostError or CheckpointConflict.       *)
(***************************************************************************)
EXTENDS Outbox

CONSTANTS
    Worker,     \* runner processes
    OwnerOf,    \* OwnerOf[w]: the worker_id of w
    BatchSize,  \* batch_size of every runner
    Skew,       \* how far a worker's clock may lag behind the fastest one
    MaxFaults,  \* bound on crashes, slow workers and failing evidence sinks
    MaxAttempts \* bound: the operator retries a record with fewer attempts only

ASSUME OwnerAssumption ==
    /\ OwnerOf \in [Worker -> Owner]
    /\ \A v, w \in Worker : OwnerOf[v] = OwnerOf[w] => v = w
ASSUME BatchAssumption  == BatchSize \in Limit
ASSUME SkewAssumption   == Skew \in Nat
ASSUME BoundAssumption  == MaxFaults \in Nat /\ MaxAttempts \in Nat

VARIABLES
    clock,        \* the fastest clock
    pc,           \* where each worker is in run_until_stopped / run_once
    batch,        \* snapshots each worker has claimed and not yet settled
    acknowledged, \* source version the target acknowledged to each worker
    retryable,    \* is_retryable of the error each worker is handling
    target,       \* intents whose rows the target holds
    stop,         \* the stop event the workers share
    faults        \* faults still to come

workerVars == <<pc, batch, acknowledged, retryable>>
rvars == <<records, checkpoints, clock, pc, batch, acknowledged, retryable,
           target, stop, faults>>

(***************************************************************************)
(* idle: between two cycles; project: at the head of the loop; complete:   *)
(* the target has answered; release: in the except clause; down: the       *)
(* process is gone, or run_once raised; stopped: run_until_stopped is done *)
(***************************************************************************)
Location == {"idle", "project", "complete", "release", "down", "stopped"}

Snapshot == [data : Data, attempt : Nat]

RTypeOK ==
    /\ TypeOK
    /\ clock \in Nat
    /\ pc \in [Worker -> Location]
    /\ batch \in [Worker -> SUBSET Snapshot]
    /\ acknowledged \in [Worker -> Version \cup {None}]
    /\ retryable \in [Worker -> BOOLEAN]
    /\ target \subseteq Data
    /\ stop \in BOOLEAN
    /\ faults \in Nat

RInit ==
    /\ Init
    /\ clock = 0
    /\ pc = [w \in Worker |-> "idle"]
    /\ batch = [w \in Worker |-> {}]
    /\ acknowledged = [w \in Worker |-> None]
    /\ retryable = [w \in Worker |-> FALSE]
    /\ target = {}
    /\ stop = FALSE
    /\ faults = MaxFaults

\* What the clock of some worker may show.
Readings == {t \in Time : t <= clock /\ clock <= t + Skew}

\* The batch is worked through in the order of the claim.
Current(w, s) ==
    /\ s \in batch[w]
    /\ \A r \in batch[w] : r # s => Before(s.data, r.data)

Goto(w, location) == pc' = [pc EXCEPT ![w] = location]

Fault == faults > 0 /\ faults' = faults - 1

--------------------------------------------------------------------------------
(***************************************************************************)
(* run_once claims a batch; an empty one ends the cycle at once.  The stop *)
(* event is looked at only here, between two cycles.                       *)
(***************************************************************************)
StartCycle(w) ==
    /\ pc[w] = "idle" /\ ~stop
    /\ \E now \in Readings :
        LET claimed == ClaimSet(BatchSize, now)
        IN  /\ atomic_claim(OwnerOf[w], BatchSize, now)
            /\ batch' = [batch EXCEPT ![w] =
                   {[data |-> d, attempt |-> records[d].attempt_count + 1] : d \in claimed}]
            /\ Goto(w, IF claimed = {} THEN "idle" ELSE "project")
    /\ UNCHANGED <<clock, acknowledged, retryable, target, stop, faults>>

(***************************************************************************)
(* _validate_record, _source, the projector, _validate_expression or the   *)
(* target raised.  The target may have applied the write all the same.     *)
(***************************************************************************)
AttemptFails(w) ==
    /\ pc[w] = "project"
    /\ \E s \in batch[w], error \in BOOLEAN, applied \in BOOLEAN :
        /\ Current(w, s)
        /\ target' = IF applied THEN target \cup {s.data} ELSE target
        /\ retryable' = [retryable EXCEPT ![w] = error]
    /\ Goto(w, "release")
    /\ UNCHANGED <<vars, clock, batch, acknowledged, stop, faults>>

(***************************************************************************)
(* The target returned a result that names a source version or none.  If   *)
(* it names the version of the intent the target holds its row; otherwise  *)
(* it may or may not.  _default_acknowledgement ignores the result's       *)
(* version for an intent that has none and rejects a result without one    *)
(* for an intent that has one.                                             *)
(***************************************************************************)
Execute(w) ==
    /\ pc[w] = "project"
    /\ \E s \in batch[w], result \in Version \cup {None}, applied \in BOOLEAN :
        /\ Current(w, s)
        /\ result # None /\ result = s.data.source_version => applied
        /\ target' = IF applied THEN target \cup {s.data} ELSE target
        /\ \/ /\ s.data.source_version = None
              /\ acknowledged' = [acknowledged EXCEPT ![w] = None]
              /\ Goto(w, "complete")
              /\ UNCHANGED retryable
           \/ /\ s.data.source_version # None /\ result # None
              /\ acknowledged' = [acknowledged EXCEPT ![w] = result]
              /\ Goto(w, "complete")
              /\ UNCHANGED retryable
           \/ /\ s.data.source_version # None /\ result = None
              /\ retryable' = [retryable EXCEPT ![w] = FALSE]
              /\ Goto(w, "release")
              /\ UNCHANGED acknowledged
    /\ UNCHANGED <<vars, clock, batch, stop, faults>>

\* The local variables of one turn of the loop go out of scope.
Forget(w) ==
    /\ acknowledged' = [acknowledged EXCEPT ![w] = None]
    /\ retryable' = [retryable EXCEPT ![w] = FALSE]

(***************************************************************************)
(* The end of one turn of the loop.                                        *)
(***************************************************************************)
NextRecord(w, s) ==
    /\ batch' = [batch EXCEPT ![w] = @ \ {s}]
    /\ Goto(w, IF batch[w] = {s} THEN "idle" ELSE "project")
    /\ Forget(w)

\* run_once raised: the rest of the batch stays leased until it expires.
Abort(w) ==
    /\ batch' = [batch EXCEPT ![w] = {}]
    /\ Goto(w, "down")
    /\ Forget(w)

(***************************************************************************)
(* complete succeeded and its evidence was recorded.                       *)
(***************************************************************************)
Complete(w) ==
    /\ pc[w] = "complete"
    /\ \E s \in batch[w], now \in Readings, fingerprint \in Fingerprint :
        /\ Current(w, s)
        /\ complete(s.data, OwnerOf[w], acknowledged[w], fingerprint, now)
        /\ NextRecord(w, s)
    /\ UNCHANGED <<clock, target, stop, faults>>

(***************************************************************************)
(* complete succeeded, but the evidence sink raised: the except clause     *)
(* runs with the record already COMPLETED.                                 *)
(***************************************************************************)
CompleteWithoutEvidence(w) ==
    /\ pc[w] = "complete"
    /\ Fault
    /\ \E s \in batch[w], now \in Readings, fingerprint \in Fingerprint :
        /\ Current(w, s)
        /\ complete(s.data, OwnerOf[w], acknowledged[w], fingerprint, now)
    /\ Forget(w)
    /\ Goto(w, "release")
    /\ UNCHANGED <<clock, batch, target, stop>>

(***************************************************************************)
(* complete raised LeaseLostError or CheckpointConflict, neither of them   *)
(* retryable.                                                              *)
(***************************************************************************)
CompleteRejected(w) ==
    /\ pc[w] = "complete"
    /\ \E s \in batch[w], now \in Readings :
        /\ Current(w, s)
        /\ \/ ~LeasedRecord(s.data, OwnerOf[w], now)
           \/ acknowledged[w] # s.data.source_version
    /\ Forget(w)
    /\ Goto(w, "release")
    /\ UNCHANGED <<vars, clock, batch, target, stop, faults>>

\* release succeeded and its evidence was recorded.
Release(w) ==
    /\ pc[w] = "release"
    /\ \E s \in batch[w], now \in Readings :
        /\ Current(w, s)
        /\ release(s.data, OwnerOf[w], retryable[w], now)
        /\ NextRecord(w, s)
    /\ UNCHANGED <<clock, target, stop, faults>>

\* release succeeded, but the evidence sink raised out of run_once.
ReleaseWithoutEvidence(w) ==
    /\ pc[w] = "release"
    /\ Fault
    /\ \E s \in batch[w], now \in Readings :
        /\ Current(w, s)
        /\ release(s.data, OwnerOf[w], retryable[w], now)
    /\ Abort(w)
    /\ UNCHANGED <<clock, target, stop>>

FaultyReleaseRejected(w) ==  \* tries again for ever
    /\ pc[w] = "release"
    /\ \E s \in batch[w], now \in Readings :
        /\ Current(w, s)
        /\ ~LeasedRecord(s.data, OwnerOf[w], now)
    /\ UNCHANGED rvars

\* release raised LeaseLostError out of run_once.
ReleaseRejected(w) ==
    /\ pc[w] = "release"
    /\ \E s \in batch[w], now \in Readings :
        /\ Current(w, s)
        /\ ~LeasedRecord(s.data, OwnerOf[w], now)
    /\ Abort(w)
    /\ UNCHANGED <<vars, clock, target, stop, faults>>

\* run_until_stopped sees the stop event and returns.
StopWorker(w) ==
    /\ pc[w] = "idle" /\ stop
    /\ Goto(w, "stopped")
    /\ UNCHANGED <<vars, clock, batch, acknowledged, retryable, target, stop, faults>>

--------------------------------------------------------------------------------
(* The host and the environment.                                           *)

Crash(w) ==
    /\ pc[w] \notin {"down", "stopped"}
    /\ Fault
    /\ Abort(w)
    /\ UNCHANGED <<vars, clock, target, stop>>

Restart(w) ==
    /\ pc[w] = "down" /\ ~stop
    /\ Goto(w, "idle")
    /\ UNCHANGED <<vars, clock, batch, acknowledged, retryable, target, stop, faults>>

SetStop ==
    /\ ~stop
    /\ stop' = TRUE
    /\ UNCHANGED <<vars, workerVars, clock, target, faults>>

Produce ==
    /\ \E d \in Data : AppendInOrder(d)
    /\ UNCHANGED <<workerVars, clock, target, stop, faults>>

Operate ==
    /\ \E d \in Data : records[d].attempt_count < MaxAttempts /\ operator_retry(d)
    /\ UNCHANGED <<workerVars, clock, target, stop, faults>>

\* The worker that claimed the current attempt of d is still at it.
InHand(d) ==
    \E w \in Worker : [data |-> d, attempt |-> records[d].attempt_count] \in batch[w]

(***************************************************************************)
(* Time matters while a lease has yet to expire on some clock.  When none  *)
(* of the leases has a worker behind it, time passes for free; otherwise   *)
(* the worker is being slow, which is a fault.                             *)
(***************************************************************************)
Outstanding(d) ==
    records[d].state = "LEASED" /\ records[d].lease.expires_at + Skew > clock

Tick ==
    /\ \E d \in Data : Outstanding(d)
    /\ \A d \in Data : Outstanding(d) => ~InHand(d)
    /\ clock' = clock + 1
    /\ UNCHANGED <<vars, workerVars, target, stop, faults>>

SlowTick ==
    /\ \E d \in Data : Outstanding(d) /\ InHand(d)
    /\ Fault
    /\ clock' = clock + 1
    /\ UNCHANGED <<vars, workerVars, target, stop>>

--------------------------------------------------------------------------------
WorkerAction(w) ==
    \/ StartCycle(w)
    \/ AttemptFails(w)
    \/ Execute(w)
    \/ Complete(w)
    \/ CompleteWithoutEvidence(w)
    \/ CompleteRejected(w)
    \/ Release(w)
    \/ ReleaseWithoutEvidence(w)
    \/ ReleaseRejected(w)
    \/ StopWorker(w)

RNext ==
    \/ \E w \in Worker : WorkerAction(w) \/ Crash(w) \/ Restart(w)
    \/ SetStop
    \/ Produce
    \/ Operate
    \/ Tick
    \/ SlowTick

RSpec == RInit /\ [][RNext]_rvars

--------------------------------------------------------------------------------
(***************************************************************************)
(* Completion needs an acknowledgement: a versioned intent is COMPLETED    *)
(* (and so checkpointed) only if the target holds its row, whoever wrote   *)
(* it, however many attempts crashed, lapsed or lied before.               *)
(***************************************************************************)
CompletionAcknowledged ==
    \A d \in Data : Completed(d) /\ d.source_version # None => d \in target

(***************************************************************************)
(* The target never runs ahead: it holds the row of an intent, even one    *)
(* written by a worker that has lost its lease, only once every earlier    *)
(* intent of the partition is completed.                                   *)
(***************************************************************************)
TargetNotAhead ==
    \A d \in target, e \in Data : Present(e) /\ Earlier(e, d) => Completed(e)

(***************************************************************************)
(* _leased_record compares owner and expiry but not the attempt, and yet a *)
(* worker that passes it settles the attempt it claimed, never a later one *)
(* (for workers with ids of their own, the runner's default).              *)
(***************************************************************************)
AttemptFenced ==
    \A w \in Worker, now \in Time :
        \A s \in batch[w] :
            LeasedRecord(s.data, OwnerOf[w], now)
                => records[s.data].lease.attempt = s.attempt

(***************************************************************************)
(* No record is tried for ever: beyond the poison threshold and what the   *)
(* operator asked for, there is at most one attempt for every fault, the   *)
(* attempts that a crash or a lapsed lease kept from release.              *)
(***************************************************************************)
AttemptsAccounted ==
    \A d \in Data :
        \/ records[d].attempt_count <= PoisonThreshold + (MaxFaults - faults)
        \/ records[d].attempt_count <= MaxAttempts + (MaxFaults - faults)

(***************************************************************************)
(* A stop drains: every worker finishes its batch and returns, or is down. *)
(***************************************************************************)
StopDrains == stop ~> \A w \in Worker : pc[w] \in {"stopped", "down"}
================================================================================
