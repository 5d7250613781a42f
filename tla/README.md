# Meridian Data Lifecycle: a TLA+ model of the projection package

Models, model-checking runs and proofs for `meridian_storage.projection`: the
transactional outbox and its writer, the projection runner, the versioned
target, the migration executor, the read cache, the rebuild coordinator, and
logical export, import and restore. Paths below are relative to the repository;
`projection/` abbreviates `src/meridian_storage/projection/`.
`PROJECT.json` lists, for every definition, the source lines it stands for.

## Inventory

| Component | State | Operations | Interacts with | Correct when | Status |
|---|---|---|---|---|---|
| Outbox store (`outbox/store.py`, `outbox/model.py`) | records with state, attempts, lease, failure; checkpoint per partition | append, atomic_claim, complete, release, operator_retry, compare_and_set_checkpoint | producers, runners, the operator | partitions are delivered in order, once, one at a time; completed is final; the poison bound holds | modelled, proved |
| Projection runner (`runner/runner.py`) | batch of claimed snapshots | run_once, run_until_idle, run_until_stopped | outbox port, target, evidence sink | completion implies the row is in the target; no zombie settles another's attempt; no record is tried for ever; everything is projected in the end | modelled, safety proved |
| Migration executor, recorder (`migration/executor.py`, `migration/model.py`) | checkpoints of an execution, lock | execute | adapter hooks, validations, evidence | activation only after every step; one cutover; one linear history; cutover recorded | modelled, safety proved |
| Cache coordinator, in-memory backend (`cache/`) | in-flight reads, entries with version and expiry | read, put_if_absent, compare_and_set, invalidate_after_commit, delete, inspect | loader, backend, evidence | bounded staleness, read-your-writes by version, single flight, outages are transparent | modelled, proved |
| Rebuild coordinator (`rebuild/coordinator.py`) | progress of one rebuild, activation flag | rebuild | target hooks, scan, tail, validation, evidence | what serves is never discarded; evidence is true; failures clean up | modelled, proved |
| Cancellation (`control.py`), evidence (`evidence.py`) | a flag; a list of records | cancel, raise_if_cancelled; record | all coordinators | - | inside the modules above |
| Transactional writer (`outbox/transactional.py`) | one Core transaction per call | commit | Core runtime, outbox collection | mutation and intent together or neither, each version once | modelled, proved |
| Versioned target (`examples/versioned_target.py`) | a row per key and version | make_projector, latest_visible | runner, readers | readers never go back, and catch up with the source | modelled, safety proved |
| Logical export, artifacts (`portability/`) | handles and artifacts of the sink, manifests of a call | export, begin_partition, write_chunk, finish_partition | source, sink, evidence | an export is the source within its boundary and can be imported | modelled, proved |
| Logical import (`portability/`) | position in an artifact, batch | import_export | artifact store, target, object transfer, evidence | nothing unverified is written, a report is true, the policy is kept | modelled, proved |
| Portable recovery (`portability/`) | none | validate_restore | validation hook, evidence | what is validated holds the export | modelled and proved, in `LogicalImport` |
| Migration planner (`migration/planner.py`) | none | create_bundle | migration model | - | not modelled: pure |
| Canonical JSON, errors, contracts, test harness, scripts, examples | none | - | - | - | not modelled |

The hard behaviours are the ones that span calls: a worker that goes on after
its lease has passed to another; a crash between the target's write and
`complete`; a failing evidence sink in the middle of a batch; leases compared
on clocks that disagree; a quarantined record that must block its partition; a
migration that dies between applying a step and recording it; two jobs that
both read before either takes the lock; an invalidation that runs between a
load and the put that follows it; an activation that takes effect and raises;
an intent built on a version that a rival has moved on; a source that changes
while its partitions are exported one page after the other; artifacts that
change between the two times an import reads them.
The list, with lines, is `hazards` in `PROJECT.json`.

## Modules

    OrderedDelivery         what the outbox promises
      ^ implemented by
    Outbox                  InMemoryOutboxStore         OutboxProofs
      ^ extended by
    ProjectionRunner        several runners on it       RunnerProofs
      ^ extended by
    Lifecycle               writers before it, readers  LifecycleProofs
                            behind its target
    MigrationExecutor       several execute calls       MigrationProofs
                            on one binding
    CacheCoordinator        several threads reading     CacheProofs
                            through one coordinator
    RebuildCoordinator      several rebuild calls       RebuildProofs
                            of one projection
    LogicalExport           several exports into one    ExportProofs
                            sink
    LogicalImport           imports into one target,    ImportProofs
                            validate_restore

`MC*` modules give the constants their values. A definition named `Faulty...`
is the definition that follows it with a plausible bug; no specification uses
one, each exists to show that a property can fail.

### Outbox and OrderedDelivery

`records` is `_records` (an intent that was never appended is `ABSENT`),
`checkpoints` is `_checkpoints`. Each method of the store holds its lock from
beginning to end, so each is one action with the method's name; a call that
raises changes nothing, so its action is disabled, and what the caller does
about it is part of `ProjectionRunner`. Every caller passes its own clock
reading, and no relation between readings is assumed.

`Spec` allows appends in any order. The store sorts by `occurred_at` and
`event_id` but does not ask producers to append in that order, and an intent
that arrives late behind a completed successor is delivered out of order. The
ordering results therefore are about `OrderedSpec`: appends of a partition in
order (an assumption on producers), and checkpoints moved by `complete` only.

`OrderedDelivery` knows published and delivered intents and a position per
partition, and two actions. `DeliverySpec` maps present records to published,
completed ones to delivered, and the checkpoint's intent to the position.

### ProjectionRunner

One `pc` per worker: `idle` between cycles, `project` at the head of the loop
over the batch, `complete` after the target has answered, `release` in the
except clause, `down` and `stopped`. A call that leaves the process is a step
of its own (claim; projector and target; `complete` with its evidence;
`release` with its evidence), so leases may lapse, other workers may run and
the worker may die in between. The target applies a write or not independently of what it reports,
except that one that names the intent's version holds the row
(`_default_acknowledgement`). `WithoutEvidence` actions are those where the
sink raises; `Rejected` ones those where the store does. `run_until_idle` is
the loop of `run_until_stopped` with another end.

Time is the fastest clock; a worker may read a value up to `Skew` behind it.
Time advances for free while no lease is being worked on, and as a fault
(`SlowTick`) while one is: being slower than the lease is one of the faults.

### Lifecycle

The composition from a source mutation to a reader. `source` holds the
committed version of every row; `tx` the open transaction of each writer, which
locks its row (Core's promise). The caller chooses mutation and intent freely,
as `SourceMutation` and `intent` arrive unrelated in `commit`: `Mutate` runs the
mutation, `PutIntent` is `_validate_source` and the put, `Commit` the end of
the `with` block, `Rollback` every raise or crash. The actions of
`ProjectionRunner` follow unchanged, with `Commit` in place of its producer:
appends of a key come in the order of commits, which need not be the order of
`occurred_at`, so nothing here rests on ordered delivery. `Rows` is what
`make_projector` has upserted and `LatestVisible` what a reader makes of it;
neither is state, both are functions of `target`.

### MigrationExecutor

`log` is the recorder; `active`, `generation`, `applied` and `holder` belong to
the adapter, which is outside the package: it grants one lock at a time until
that expires, and activates only over the expected generation, but does not
check the lock when it applies a step or activates. `execute` looks at token and
lock before each of these hooks (`CheckStep`, `CheckActivation`) and calls the
hook after that (`ApplyStep`, `Activate`): in between the lock may lapse and go
to another executor. A hook may raise with or without having taken effect; an
`acquire_lock` that did both leaves a lock that nobody releases, since `Release`
frees only what the call was given. `call` holds the local variables of
`execute` (sequence, completed steps, the generation as inspected), `pc` where
it is. The ways into the except clause are actions of their own (`HookRaises`,
`ObserveCancellation`, `ObserveExpiry`, `RecorderRefuses`), `Fail` is that
clause, `Release` the finally clause.

### CacheCoordinator

`flights` is `_flights`, `entries` and `revision` the backend, whose methods are
operators with their names. A read is the
steps `get`, `drop`/`purge`, `join`, `wait`, `load`, `populate`, `finish`; calls
of the backend are atomic and any may raise. The source is a sequence of
versions with the time each came into being, so that staleness can be stated. `ReadSpec`
has reads, commits, invalidations and bad entries; `CacheSpec` adds the
explicit operations. All threads share one coordinator, hence one clock.

### RebuildCoordinator

The rows of the source are numbered by commit, so a generation's contents are a
number. `parent` is the generation each was created to replace, `evidence` what
the sink holds. `Discard` is the finally clause, taken only when no activation
was attempted. Hooks may raise, with or without having taken effect: a
`create_generation` that did both leaves a generation nobody knows of, an
`activate` that raises without effect leaves its generation behind, because the
activation counts as attempted. The adapter may also activate over another generation than the
expected one, which the coordinator finds out from the answer.

### LogicalExport

`history` is the source after each commit, and a watermark a position in it.
An adapter pages through a snapshot or reads live; it may lose its place
between two pages, return a page in any order or with a record twice
(`Arrangement`), and return another boundary from `finish`. Every record of a
page is compared with the one before it (`InOrder`); the records before the one
that is refused have been written by then, to a handle nobody uses any more.
The consistency a manifest claims is the one of the boundary that `finish`
returns: the coordinator compares `boundary_id` and start with those of `begin`,
and nothing else. `pending` and
`artifacts` are the sink's. A digest stands for what it is the digest of, so a
manifest carries the records hashed and a reference the content it addresses;
that the two agree is a property, not an assumption. The records of a page are
written and hashed in one step: no hook of another exporter's handle comes in
between that could tell.

### LogicalImport

`stored` is what the artifact store returns now, which `DamageArtifact` may
change at any moment, `call` the local variables of the pass under way. Each
line is a step (`Consume`), each batch (`Flush`), each end of a partition
(`EndPartition`, where the manifest is compared), `Preflight` separates the
passes. `written` records what a call has handed to the target, for the
properties only. `ValidateRestore` takes any manifest with any report. The
module allows any number of importers at once, and the run has one: the
coordinator leaves the exclusion of imports to the target, and `PolicyKept` does
not hold without it. Reports and verification do not depend on it.

## Runs

| Run | What it shows |
|---|---|
| `outbox` | every operation in any order with any clock: types; the poison bound; completed records are final |
| `outbox_ordered` | with in-order appends: no silent skip, one lease per partition, the checkpoint is the frontier, `OrderedDelivery` is implemented |
| `runner` | two workers with skewed clocks, two faults: completion implies the row, the target is never ahead, workers settle only their own attempt, every attempt beyond the threshold is accounted for by a fault or the operator |
| `migration` | two executors, ids and bundles shared: activated means fully applied, one cutover, linear history bound to one bundle, ACTIVATING is on record wherever a job dies after the cutover |
| `migration_cutover` | executors with ids of their own: after activation the execution is recorded COMPLETED, cancellation or not |
| `migration_shared` | the same property with one id for two executors: violated, see Finding |
| `cache_reads` | bounded staleness with lost invalidations, backend failures and bad entries |
| `cache_explicit` | four policies, explicit callers, failing loaders and sinks: required versions, single flight, transparent outages, unique entry versions |
| `rebuild` | two jobs, cancellation, a fault, a crash: serving generations are kept, evidence is true, what failures leave behind is bounded |
| `export` | two exporters at the same time into one sink, a source that changes or misbehaves: an export holds what the source held within its boundary, neither export disturbs the other, each can be imported |
| `import` | imports of two exports under every policy, artifacts changed and put right, a fault: verified before written, reports are true, the policy is kept, objects come first, validated restores hold |
| `lifecycle` | a writer with mutations and intents that need not fit, two fair workers: mutation and intent together, readers follow the checkpoint, in the end everything is projected and readers see the source as it is, a stop drains |

### Bounds

- Outbox: two partitions. In `outbox_ordered` one has three intents, two with
  the same time, one unversioned, and an event id appears twice with different
  content (`outbox` drops one intent). Clock readings are 0..2 with a lease of
  1, so a reading may be before, at or after an expiry.
  `MaxAttempts` 2 or 3 with a threshold of 2 reaches quarantine and an attempt
  after an operator's retry; `MaxRevision` bounds the fixture's updates.
- Runner: three intents, two workers, batches of two, so a batch spans
  partitions and a worker can fail in the middle of one. `MaxFaults` 2 lets a
  lease lapse and the successor die; `MaxAttempts` bounds operator retries
  only. The clock advances only for an outstanding lease, so `MCTime` 0..12
  is never exhausted. A worker may read a clock `Skew` 1 behind, with leases of 2.
- Migration: two steps (one is enough for the cutover), three calls, a crash
  and a fault: a call can die, be resumed, and race a third.
- Cache: one key (keys share only the version counter), two threads, three
  reads, two versions of the row, which covers a leader, a follower and a read
  after both. In `cache_reads` `maximum_staleness` is 1 and the clock goes to
  2, so entries become too old before their TTL ends; failing backend calls are
  unbounded, failing loaders and sinks are bounded by `MaxFaults` in
  `cache_explicit`.
- Rebuild: two jobs, three generations after the first (a lost race and a
  rebuild after it), two rows in batches of one or two, one fault, one crash.
- Export: ids 1 and 2 in one partition and 3 in another, any of them there at
  the start, so that a commit can fall between pages and between partitions.
  A page of both ids fits a batch of 2 and can come in the wrong order, or with
  one of them twice and so too large; a page of one id can hold it twice.
  `MaxCommits` bounds the length of `history`: one commit happens, and any id
  whose exported version lies outside the boundary shows with one. `MaxHandles`
  3 lets one export complete while the other writes a partition, or be given up
  after a first partition.
- Import: an export of two partitions and a newer one of one; a batch is full
  in one partition and not in the other. Two changes let an artifact be damaged
  and put right within a call, two calls let one find what another left.
- Lifecycle: version 1 of a row, and its deletion with an earlier
  `occurred_at`; any mutation may come with either intent. Two workers and one
  fault; one writer, whose intents may be stale by its own doing. Writers that
  race with transactions open at the same time are the subject of
  `MutationsHaveIntents`, which is proved for any number of them.

All behaviours end when bounds are used up, workers are stopped or no call is
left, so the runs say `CHECK_DEADLOCK FALSE`; that a worker, a follower or a
leader does not hang is what `StopDrains` and `SingleFlight` say. Symmetry is
used in invariant and action-property runs over interchangeable names only; no run with a liveness
property uses it.

### Fairness

`FairLSpec`: weak fairness of each worker's own steps (the loop of
`run_until_stopped` goes on and never waits for another worker), of `Restart`
(the host restarts dead workers) and of `Tick` (clocks go on). Writers, the
operator, stops and faults are not forced, and `EventuallyVisible` therefore
speaks of what was committed. Weak fairness of the whole `WorkerAction` does
not choose the outcome of a target: attempts may fail until quarantine, which
`EventuallyVisible` allows for. `FairMSpec`: weak fairness of the steps of a
call of `execute` that has begun.

There is no liveness property of cache, rebuild, export or import: their calls
are sequences or loops over what is there, and the one wait has a timeout.

## Proofs

The runs check small instances; the theorems hold for every value of the
constants. Every invariant of every run is stated by a theorem. Each proof has
the same shape: a lemma per action (or per kind of action) that says what it
does to the state, a lemma per part of the inductive invariant, and the theorem
`BY ..., PTL`.

### Outbox, runner, lifecycle

For every set of intents, owners, workers, every lease duration, threshold,
skew and number of faults:

- `OutboxProofs!RecordsCorrect`: `Spec => [](TypeOK /\ LeaseConsistent /\ PoisonQuarantined)`.
  The inductive invariant `RecordInv` adds `Attempts`: a record past PENDING has
  been claimed at least once.
  `StoreTyped` and `LeasesAgree` state its parts.
- `OutboxProofs!CompletedRecordsFinal`: the action property `CompletedIsFinal`.
- `OutboxProofs!OrderingCorrect`: no silent skip, one lease per partition, the
  checkpoint is the frontier, for `OrderedSpec`. `OrderInv` adds `UniqueIds` to
  `RecordInv`: event ids identify records, which makes the order of a partition
  total; without it two heads could tie, and `OneLeasePerPartition` does not
  follow. Cardinalities come from `FiniteSetTheorems`. `LeasesApart` and
  `CheckpointsAtFrontier` state its parts.
- `OutboxProofs!ImplementsOrderedDelivery`: `OrderedSpec => DeliverySpec`, step
  by step: an append publishes, a `complete` delivers, all else stutters.
- `RunnerProofs!RunnerDelivers`: the workers use the store as `OrderedSpec`
  allows, so the system of workers implements `OrderedDelivery`.
- `RunnerProofs!RunnerCorrect`: `AttemptFenced`, `TargetNotAhead` and
  `CompletionAcknowledged`. None is inductive. `RunnerInv` adds `BatchFenced`
  (a lease that carries the worker's name on a record of its batch is of the
  attempt it claimed: the store compares owners only, and the argument is that a worker
  claims with an empty batch and nobody claims in its name), `TargetClaimed`
  (what the target holds was claimed, so `NoSilentSkip` applies to it) and
  `AckHeld` (a worker about to complete with the right version has its row in
  the target). `RunnerTyped`, `TargetBehind` and `CompletionMeansRow` state its
  parts. `RunnerInv` rests on `RecordInv` alone; only `TargetNotAhead` needs
  `OrderInv` and with it ordered appends.
- `RunnerProofs!RetriesBounded`: `AttemptsAccounted`, if `Skew < LeaseDuration`.
  `AttemptInv` is the account: a record that may be claimed (offered, or leased
  and in nobody's hands) is strictly below what is allowed (`OfferedShort`), and
  the leases of a batch are all unexpired on every clock and still the worker's,
  or all paid for by a fault (`BatchPaid`). The latter is what makes a refused
  `release` harmless: it raises out of `run_once` and drops the rest of the
  batch without a fault of its own, but leases of a batch are granted at one
  moment, so the fault that cost the worker one has paid for all. The
  hypothesis is needed: with clocks that disagree by as much as a lease lasts,
  a lease can be taken over the moment it is granted, and TLC refutes the bound
  with `LeaseDuration` 1 and `Skew` 1.
- `LifecycleProofs!MutationsHaveIntents`, `ReadersNeverGoBack` and
  `LifecycleTyped`, for any number of writers and intents in any order of
  `occurred_at`. `LInv` is `RunnerInv` with `RowsLocked` (open transactions have
  rows of their own) and `PutChecked` (an intent that was validated still fits
  its row when it is committed, which follows from the lock), from which
  `MutationWithIntent` is inductive. Readers: a completed intent's row is in the
  target (`RunnerInv`), every row in the target belongs to a present intent
  (`TargetClaimed`), present intents are not ahead of the source
  (`MutationWithIntent`), and the finitely many versions up to the source's have
  a largest (`Largest`, from the well-foundedness of the naturals): if no row is
  visible, that one is a tombstone.

### Migration

For any number of executors, execution ids shared or not, bundles, steps, faults
and crashes:

- `MigrationProofs!HistoryKept`: `ExecutionHistory`. It needs `CallsSeen`: no
  call is ahead of the recorder, and one whose next checkpoint would be accepted
  has seen all of the history, which is of its bundle and not complete.
- `ActivationSound`, `CutoverOnce`, `AnnouncedFirst`: `ActivatedFullyApplied`,
  `OneCutover`, `CutoverAnnounced`. `AInv` says that what a call or a checkpoint
  counts as applied is applied, so that a resumed call skips nothing. `CInv`
  says that either no cutover has happened and nobody is past it, or one has,
  one call at most is finishing, and every COMPLETED is of the active bundle; a
  call that may still activate expects the generation of the source.
- `MigrationTypes`: `MTypeOK`.

### Cache

For any number of threads, keys, versions, policies, explicit callers and
failing calls of the backend; the first five for `CacheSpec`:

- `CacheProofs!FlightsSound`, `OutagesHidden`: `SingleFlight`,
  `OutageTransparent`, from where a leader can be (`Role`) and what a raised
  read is excused by.
- `VersionsIdentify`: `EntryVersionUnique`, from `UInv`: entries and what
  clients have seen carry versions that were given out, and an entry whose
  version a client has seen is the entry it saw.
- `RequiredMet`: `RequiredVersionMet`. `MInv` says that a populating read and
  every entry hold a row that some version of the source had, late enough for
  the version asked for.
- `StalenessBounded`: `BoundedStaleness`, for `ReadSpec` (an explicit `put` may
  store anything). `SInv` says that a read dates what it loads by a clock reading
  taken before it loads, so an entry was true when it says it was created.
- `CacheTypes`: `CTypeOK`.

### Rebuild

For any number of jobs, generations, rows, faults and crashes:

- `RebuildProofs!ServingKept`, `EvidenceSound`: `ServingNotDiscarded`,
  `EvidenceTrue`. `GInv` says that a generation under construction is its
  job's alone, is neither active nor anybody's parent nor on record; that after
  the tail it holds the rows up to the final boundary; and that what a job has
  replaced does not come back.
- `LeftoversAccounted`: `LeftoversBounded`: a step leaves one generation more
  behind at most, and only for a fault or a crash; cardinalities are from
  `FiniteSetTheorems`.
- `RebuildTypes`: `BTypeOK`.

### Export

For any ids, partitions, batch sizes, commits and number of exporters:

- `ExportProofs!ExportsWithinBoundary`: `WithinBoundary`. `WInv` says that what
  a call has read, and the ids it has passed over, are what the source held at
  some watermark it has seen so far (one watermark, for a snapshot). The step to
  the next page needs what a page of an ordered finite set holds: `Rank` counts
  the ids up to one, and `RankTaken` shows that every rank is taken, by the
  least counterexample instead of an induction. `ArrangedPage` shows that a page
  returned in any arrangement is that page if it passes the check of its order.
- `ExportsImportable`: `Importable`. `SInv` says that what is pending under a
  handle is what was hashed, in order, that two exporters never share a handle,
  and that what is listed in manifests so far is stored.
- `ExportTypes`: `ETypeOK`.

### Import

For any exports, batch size, damage of the artifacts at any moment and faults:

- `ImportProofs!ReportsFaithful`, `VerifiesFirst`: `ReportFaithful`,
  `VerifiedFirst`, for any number of importers at once. `HInv` says that what
  was handed over and the batch make up what was read of the artifact, and that
  finished partitions were handed over whole; `VInv` that an artifact that did
  not change during the call is what the first pass verified; `OInv` that
  objects are there before the records that need them.
- `PolicyHonoured`, `RestoresHold`: `PolicyKept`, `RestoreHolds`, under two
  hypotheses: `OneAtATime` (one importer) and `Unambiguous` (no id in two
  versions in one export). The coordinator ensures neither. It does not keep two
  imports apart, and it checks that ids increase within a partition, not across
  partitions; with an id in two partitions the later record replaces the
  earlier. `PInv` says that the target holds what was handed over, or something
  newer under `preserve-newer`, and nothing else under `require-empty`.
- `ImportTypes`: `ITypeOK`.

### Assumptions

Finitely many intents with natural ids and times; limits, lease duration and
threshold at least 1; `None` is none of the values (`NoneAssumption`, and
`NamesAssumption` of the executor and the cache); workers have `worker_id`s of
their own (`OwnerAssumption`; the runner's default is a fresh id, and without it
`AttemptFenced` is false because `_leased_record` does not compare attempts);
appends in order for the ordering results; in `Lifecycle` every intent has a
natural version, as `make_projector` demands. A migration has a step and a lock
lasts; TTLs are positive; ids of records are positive, finitely many in a
source, each in one of its partitions; batch sizes are those the constructors
accept; a history has at least its first state (`MaxCommits` at least 1). All
else about constants is that bounds are natural numbers. TLC evaluates these
assumptions in every run; the hypotheses `Skew < LeaseDuration`, `OneAtATime`
and `Unambiguous` are the theorems' own and hold in the runs.

### Only model-checked

The liveness properties `EventuallyVisible`, `StopDrains` and `CutoverRecorded`,
which are out of the proof system's reach.

## Finding

`migration_shared`. The comment at `projection/migration/executor.py:292` says
that after activation the executor finishes "post-cutover validation and
durable evidence even if the caller concurrently requests cancellation". When a
second `execute` with the same execution id is turned away (its inspection
fails, or the lock is held), its except clause appends FAILED with the sequence
it computed from the shared history. If that sequence is the one the first
executor is about to use, the recorder refuses that executor's COMPLETED
checkpoint (line 316): the schema is active and the durable history ends in
FAILED. With execution ids of their own (`migration_cutover`) the comment holds.

## Not modelled

- The planner (`create_bundle` compares two schemas and builds a bundle),
  canonical JSON, digests, redaction, error texts, contracts: functions on
  payloads without state.
- `MeridianCacheBackend`: a translation of each call into one Core operation,
  without state; versions and expiry are Core's.
- The validation of fields in the model classes, beyond what a property tells
  apart; the length of the rollback interval, evidence payloads, lag counters.
- The outbox conformance harness, the PostgreSQL host, scripts and examples
  other than the versioned target: they call the package and add no behaviour.
- Core's transactions, targets, adapters, sources and artifact stores, except
  for the promises stated with each module.
- Two live workers with one `worker_id`, and two imports into one target at the
  same time: the package leaves both to its callers (see `hazards`).

## Plan

1. A restored target as the start of a projection: `LogicalImport` in front of
   `RebuildCoordinator`.
2. Proofs: the account of attempts (`AttemptInv`) for `Lifecycle`, where intents
   arrive in any order; the safety part of `StopDrains`, that a stopped worker
   has settled what it claimed.
