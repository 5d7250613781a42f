--------------------------- MODULE MigrationExecutor ---------------------------
(***************************************************************************)
(* MigrationExecutor.execute and InMemoryMigrationRecorder: deployment     *)
(* jobs that migrate one binding, several of them possibly at once, for    *)
(* the same execution id or for different ones.                            *)
(*                                                                         *)
(* The adapter is outside the package.  What execute relies on: one lock   *)
(* at a time until it expires, and an activation that fails unless the     *)
(* expected generation is the active one.  The adapter is not assumed to   *)
(* check the lock when it applies a step.  Every hook may raise, before or *)
(* after it has taken effect, and a job may die between any two calls.     *)
(*                                                                         *)
(* A definition called Faulty... is the definition after it with a bug in  *)
(* it.  No specification uses one: each shows that a property can fail.    *)
(***************************************************************************)
EXTENDS Integers, Sequences

CONSTANTS
    Executor,     \* calls of execute that may run at the same time
    Execution,    \* execution ids
    Bundle,       \* migration bundles; each also names its target schema
    IdsOf,        \* IdsOf[x]: the execution ids x may be called with
    Steps,        \* number of steps of every bundle
    LockDuration, \* lock_seconds
    MaxCalls,     \* bound on the calls of execute
    MaxFaults,    \* bound on hooks that raise and on slow executors
    MaxCrashes,   \* bound on crashes
    Source,       \* the schema every bundle migrates from
    None          \* Python's None

ASSUME SizeAssumption  == Steps \in Nat \ {0} /\ LockDuration \in Nat \ {0}
ASSUME BoundsAssumption == MaxCalls \in Nat /\ MaxFaults \in Nat /\ MaxCrashes \in Nat
ASSUME IdsAssumption   == IdsOf \in [Executor -> SUBSET Execution]
ASSUME NamesAssumption == Source \notin Bundle /\ None \notin Bundle \cup Execution

VARIABLES
    log,        \* recorder: log[e] is the sequence of checkpoints of e
    active,     \* adapter: the active schema
    generation, \* adapter: the active generation
    applied,    \* adapter: steps <<bundle, i>> that have taken effect
    holder,     \* adapter: who holds the lock and until when, or None
    pc,         \* where each executor is in execute
    call,       \* local variables of each executor
    cancelled,  \* the cancellation token of each executor
    clock,
    calls, faults, crashes \* what is left of the bounds

mvars == <<log, active, generation, applied, holder, pc, call, cancelled,
           clock, calls, faults, crashes>>
adapter == <<active, generation, applied, holder>>
bounds  == <<clock, calls, faults, crashes>>

MigrationState == {"PLANNED", "APPLYING", "VALIDATING", "ACTIVATING", "COMPLETED", "FAILED"}

\* step is 0 except in the checkpoint of an applied step.
MigrationCheckpoint == [bundle : Bundle, state : MigrationState, sequence : Nat, step : 0..Steps]

\* The token of a lock names its executor.
MigrationLock == [executor : Executor, expires_at : Nat]

AppliedMigrationStep == Bundle \X (1..Steps)

(***************************************************************************)
(* sequence: of the next checkpoint; done: completed_steps; step: the step *)
(* the loop is at; generation: as inspected; expires_at: of the lock held, *)
(* 0 for none.                                                             *)
(***************************************************************************)
Call == [id : Execution \cup {None}, bundle : Bundle \cup {None}, sequence : Nat,
         done : SUBSET (1..Steps), step : Nat, generation : Nat, expires_at : Nat]

NoCall == [id |-> None, bundle |-> None, sequence |-> 0, done |-> {}, step |-> 1,
           generation |-> 0, expires_at |-> 0]

Location == {"idle", "inspect", "lock", "plan", "steps", "apply", "applied", "validate",
             "activating", "activate", "cutover", "post", "complete", "fail", "release"}

MTypeOK ==
    /\ \A e \in Execution : \A i \in DOMAIN log[e] : log[e][i] \in MigrationCheckpoint
    /\ active \in Bundle \cup {Source}
    /\ generation \in Nat
    /\ applied \subseteq AppliedMigrationStep
    /\ holder \in MigrationLock \cup {None}
    /\ pc \in [Executor -> Location]
    /\ call \in [Executor -> Call]
    /\ cancelled \in [Executor -> BOOLEAN]
    /\ clock \in Nat /\ calls \in Nat /\ faults \in Nat /\ crashes \in Nat

MInit ==
    /\ log = [e \in Execution |-> << >>]
    /\ active = Source
    /\ generation = 0
    /\ applied = {}
    /\ holder = None
    /\ pc = [x \in Executor |-> "idle"]
    /\ call = [x \in Executor |-> NoCall]
    /\ cancelled = [x \in Executor |-> FALSE]
    /\ clock = 0
    /\ calls = MaxCalls
    /\ faults = MaxFaults
    /\ crashes = MaxCrashes

--------------------------------------------------------------------------------
Goto(x, location) == pc' = [pc EXCEPT ![x] = location]

Fault == faults > 0 /\ faults' = faults - 1

LastSequence(e) == IF log[e] = << >> THEN -1 ELSE log[e][Len(log[e])].sequence

\* InMemoryMigrationRecorder.append accepts a checkpoint that increases the sequence.
FaultyAccepts(x) == TRUE  \* appends whatever it is given
Accepts(x) == call[x].sequence > LastSequence(call[x].id)

Record(x, state, step) ==
    /\ Accepts(x)
    /\ log' = [log EXCEPT ![call[x].id] = Append(@,
           [bundle |-> call[x].bundle, state |-> state,
            sequence |-> call[x].sequence, step |-> step])]

\* A checkpoint that is followed by sequence += 1.
Checkpoint(x, state, step) ==
    /\ Record(x, state, step)
    /\ call' = [call EXCEPT ![x].sequence = @ + 1, ![x].step = IF step > 0 THEN @ + 1 ELSE @]

\* The loop over the steps has not ended.
AtStep(x) == pc[x] = "steps" /\ call[x].step <= Steps

Expired(x) == call[x].expires_at <= clock

(***************************************************************************)
(* Something in the try block raised: on to the except clause.             *)
(***************************************************************************)
Raise(x) ==
    /\ Goto(x, "fail")
    /\ UNCHANGED <<log, call, cancelled>>

\* A hook of the adapter or a validation raised and did nothing.
HookRaises(x) ==
    /\ pc[x] \in {"inspect", "lock", "plan", "apply", "validate", "cutover", "post"}
    /\ Fault
    /\ Raise(x)
    /\ UNCHANGED <<adapter, clock, calls, crashes>>

\* raise_if_cancelled, at every point of the try block that calls it.
FaultyObserveCancellation(x) ==  \* after the cutover too
    /\ AtStep(x) \/ pc[x] \in {"inspect", "validate", "activate", "post"}
    /\ cancelled[x]
    /\ Raise(x)
    /\ UNCHANGED <<adapter, bounds>>

ObserveCancellation(x) ==
    /\ AtStep(x) \/ pc[x] \in {"inspect", "validate", "activate"}
    /\ cancelled[x]
    /\ Raise(x)
    /\ UNCHANGED <<adapter, bounds>>

\* The lock is found expired before a step or before activation.
ObserveExpiry(x) ==
    /\ AtStep(x) \/ pc[x] \in {"plan", "activate"}
    /\ Expired(x)
    /\ Raise(x)
    /\ UNCHANGED <<adapter, bounds>>

\* The recorder refuses a checkpoint: another executor has written to the execution.
RecorderRefuses(x) ==
    /\ \/ pc[x] \in {"plan", "applied", "activating", "complete"}
       \/ pc[x] = "steps" /\ call[x].step > Steps
    /\ ~Accepts(x)
    /\ Raise(x)
    /\ UNCHANGED <<adapter, bounds>>

--------------------------------------------------------------------------------
(***************************************************************************)
(* execute reads the checkpoints of the execution once, before anything    *)
(* else: the next sequence and the steps it may skip come from this read.  *)
(***************************************************************************)
FaultyStart(x, e, b) ==  \* takes a planned step for an applied one
    /\ pc[x] = "idle" /\ calls > 0 /\ calls' = calls - 1
    /\ \A i \in DOMAIN log[e] : log[e][i].bundle = b /\ log[e][i].state # "COMPLETED"
    /\ call' = [call EXCEPT ![x] = [NoCall EXCEPT
           !.id = e, !.bundle = b, !.sequence = LastSequence(e) + 1,
           !.done = {j \in 1..Steps : \E i \in DOMAIN log[e] : log[e][i].step \in {j, j - 1}}]]
    /\ Goto(x, "inspect")
    /\ UNCHANGED <<log, adapter, cancelled, clock, faults, crashes>>

FaultyResume(x, e, b) ==  \* takes every checkpoint for one of a step
    /\ pc[x] = "idle" /\ calls > 0 /\ calls' = calls - 1
    /\ \A i \in DOMAIN log[e] : log[e][i].bundle = b /\ log[e][i].state # "COMPLETED"
    /\ call' = [call EXCEPT ![x] = [NoCall EXCEPT
           !.id = e, !.bundle = b, !.sequence = LastSequence(e) + 1,
           !.done = {log[e][i].step : i \in DOMAIN log[e]}]]
    /\ Goto(x, "inspect")
    /\ UNCHANGED <<log, adapter, cancelled, clock, faults, crashes>>

Start(x, e, b) ==
    /\ pc[x] = "idle" /\ calls > 0 /\ calls' = calls - 1
    /\ \A i \in DOMAIN log[e] : log[e][i].bundle = b /\ log[e][i].state # "COMPLETED"
    /\ call' = [call EXCEPT ![x] = [NoCall EXCEPT
           !.id = e, !.bundle = b, !.sequence = LastSequence(e) + 1,
           !.done = {log[e][i].step : i \in {j \in DOMAIN log[e] : log[e][j].state = "APPLYING"}}]]
    /\ Goto(x, "inspect")
    /\ UNCHANGED <<log, adapter, cancelled, clock, faults, crashes>>

\* inspect_state and the preconditions, before the lock is taken.
Inspect(x) ==
    /\ pc[x] = "inspect" /\ ~cancelled[x]
    /\ \/ /\ active = Source
          /\ call' = [call EXCEPT ![x].generation = generation]
          /\ Goto(x, "lock")
          /\ UNCHANGED <<log, cancelled>>
       \/ active # Source /\ Raise(x)
    /\ UNCHANGED <<adapter, bounds>>

\* An acquire_lock that takes effect and raises leaves a lock nobody will release.
AcquireLock(x) ==
    /\ pc[x] = "lock"
    /\ IF holder = None \/ (holder # None /\ holder.expires_at <= clock)
       THEN /\ holder' = [executor |-> x, expires_at |-> clock + LockDuration]
            /\ \/ /\ call' = [call EXCEPT ![x].expires_at = clock + LockDuration]
                  /\ Goto(x, "plan")
                  /\ UNCHANGED <<log, cancelled, faults>>
               \/ Raise(x) /\ Fault
       ELSE Raise(x) /\ UNCHANGED <<holder, faults>>
    /\ UNCHANGED <<active, generation, applied, clock, calls, crashes>>

\* compile, _verify_compiled, the first checkpoint and its evidence.
Plan(x) ==
    /\ pc[x] = "plan"
    /\ Checkpoint(x, "PLANNED", 0)
    /\ \/ Goto(x, "steps") /\ UNCHANGED faults
       \/ Goto(x, "fail") /\ Fault
    /\ UNCHANGED <<adapter, cancelled, clock, calls, crashes>>

SkipStep(x) ==
    /\ pc[x] = "steps" /\ ~cancelled[x] /\ ~Expired(x)
    /\ call[x].step \in call[x].done
    /\ call' = [call EXCEPT ![x].step = @ + 1]
    /\ UNCHANGED <<log, adapter, pc, cancelled, bounds>>

\* The token and the lock are found good; from here on nothing looks at them again.
CheckStep(x) ==
    /\ pc[x] = "steps" /\ ~cancelled[x] /\ ~Expired(x)
    /\ call[x].step \in (1..Steps) \ call[x].done
    /\ Goto(x, "apply")
    /\ UNCHANGED <<log, adapter, call, cancelled, bounds>>

\* The step takes effect, the lock lapsed or not; the adapter may raise all the same.
ApplyStep(x) ==
    /\ pc[x] = "apply"
    /\ applied' = applied \cup {<<call[x].bundle, call[x].step>>}
    /\ \/ Goto(x, "applied") /\ UNCHANGED <<log, call, cancelled, faults>>
       \/ Raise(x) /\ Fault
    /\ UNCHANGED <<active, generation, holder, clock, calls, crashes>>

RecordStep(x) ==
    /\ pc[x] = "applied"
    /\ Checkpoint(x, "APPLYING", call[x].step)
    /\ Goto(x, "steps")
    /\ UNCHANGED <<adapter, cancelled, bounds>>

StepsDone(x) ==
    /\ pc[x] = "steps" /\ call[x].step > Steps
    /\ Checkpoint(x, "VALIDATING", 0)
    /\ Goto(x, "validate")
    /\ UNCHANGED <<adapter, cancelled, bounds>>

\* The validations pass.
Validate(x) ==
    /\ pc[x] = "validate" /\ ~cancelled[x]
    /\ Goto(x, "activating")
    /\ UNCHANGED <<log, adapter, call, cancelled, bounds>>

FaultyRecordActivating(x) ==  \* leaves the checkpoint for later
    /\ pc[x] = "activating"
    /\ Accepts(x)
    /\ Goto(x, "activate")
    /\ UNCHANGED <<log, call, adapter, cancelled, bounds>>

RecordActivating(x) ==
    /\ pc[x] = "activating"
    /\ Checkpoint(x, "ACTIVATING", 0)
    /\ Goto(x, "activate")
    /\ UNCHANGED <<adapter, cancelled, bounds>>

CheckActivation(x) ==
    /\ pc[x] = "activate" /\ ~cancelled[x] /\ ~Expired(x)
    /\ Goto(x, "cutover")
    /\ UNCHANGED <<log, adapter, call, cancelled, bounds>>

(***************************************************************************)
(* The adapter refuses to activate over another generation than the        *)
(* expected one.  The lock may have lapsed since the check, and another    *)
(* executor may be at its own cutover.                                     *)
(***************************************************************************)
FaultyActivate(x) ==  \* does not pass the expected generation on
    /\ pc[x] = "cutover"
    /\ active' = call[x].bundle
    /\ generation' = generation + 1
    /\ \/ Goto(x, "post") /\ UNCHANGED <<log, call, cancelled, faults>>
       \/ Raise(x) /\ Fault
    /\ UNCHANGED <<applied, holder, clock, calls, crashes>>

Activate(x) ==
    /\ pc[x] = "cutover"
    /\ \/ /\ generation = call[x].generation
          /\ active' = call[x].bundle
          /\ generation' = generation + 1
          /\ \/ Goto(x, "post") /\ UNCHANGED <<log, call, cancelled, faults>>
             \/ Raise(x) /\ Fault
       \/ /\ generation # call[x].generation
          /\ Raise(x)
          /\ UNCHANGED <<active, generation, faults>>
    /\ UNCHANGED <<applied, holder, clock, calls, crashes>>

\* The postconditions run with a token of their own: no cancellation here.
Postconditions(x) ==
    /\ pc[x] = "post"
    /\ Goto(x, "complete")
    /\ UNCHANGED <<log, adapter, call, cancelled, bounds>>

\* The last checkpoint and its evidence; sequence is not advanced any more.
Complete(x) ==
    /\ pc[x] = "complete"
    /\ Record(x, "COMPLETED", 0)
    /\ \/ Goto(x, "release") /\ UNCHANGED faults
       \/ Goto(x, "fail") /\ Fault
    /\ UNCHANGED <<adapter, call, cancelled, clock, calls, crashes>>

\* The except clause; a refused FAILED checkpoint raises out of it.
Fail(x) ==
    /\ pc[x] = "fail"
    /\ IF Accepts(x) THEN Record(x, "FAILED", 0) ELSE UNCHANGED log
    /\ Goto(x, "release")
    /\ UNCHANGED <<adapter, call, cancelled, bounds>>

\* The lock that acquire_lock returned to this call, if it returned one.
Lock(x) == [executor |-> x, expires_at |-> call[x].expires_at]

\* The finally clause, and the end of the call: only a lock this call obtained is freed.
Release(x) ==
    /\ pc[x] = "release"
    /\ holder' = IF call[x].expires_at > 0 /\ holder = Lock(x) THEN None ELSE holder
    /\ Goto(x, "idle")
    /\ call' = [call EXCEPT ![x] = NoCall]
    /\ cancelled' = [cancelled EXCEPT ![x] = FALSE]
    /\ UNCHANGED <<log, active, generation, applied, bounds>>

--------------------------------------------------------------------------------
(* The deployment job and the environment.                                 *)

Cancel(x) ==
    /\ pc[x] # "idle" /\ ~cancelled[x]
    /\ cancelled' = [cancelled EXCEPT ![x] = TRUE]
    /\ UNCHANGED <<log, adapter, pc, call, bounds>>

Crash(x) ==
    /\ pc[x] # "idle"
    /\ crashes > 0 /\ crashes' = crashes - 1
    /\ Goto(x, "idle")
    /\ call' = [call EXCEPT ![x] = NoCall]
    /\ cancelled' = [cancelled EXCEPT ![x] = FALSE]
    /\ UNCHANGED <<log, adapter, clock, calls, faults>>

\* Time matters while a lock has yet to expire; for the call that works under it, it is a fault.
Tick ==
    /\ holder # None /\ holder.expires_at > clock
    /\ IF holder = Lock(holder.executor) THEN Fault ELSE UNCHANGED faults
    /\ clock' = clock + 1
    /\ UNCHANGED <<log, adapter, pc, call, cancelled, calls, crashes>>

ExecutorStep(x) ==
    \/ HookRaises(x)
    \/ ObserveCancellation(x)
    \/ ObserveExpiry(x)
    \/ RecorderRefuses(x)
    \/ Inspect(x)
    \/ AcquireLock(x)
    \/ Plan(x)
    \/ SkipStep(x)
    \/ CheckStep(x)
    \/ ApplyStep(x)
    \/ RecordStep(x)
    \/ StepsDone(x)
    \/ Validate(x)
    \/ RecordActivating(x)
    \/ CheckActivation(x)
    \/ Activate(x)
    \/ Postconditions(x)
    \/ Complete(x)
    \/ Fail(x)
    \/ Release(x)

MNext ==
    \/ \E x \in Executor : \/ ExecutorStep(x)
                           \/ \E e \in IdsOf[x], b \in Bundle : Start(x, e, b)
                           \/ Cancel(x)
                           \/ Crash(x)
    \/ Tick

MSpec == MInit /\ [][MNext]_mvars

\* Once called, execute runs to its end unless its process dies.
FairMSpec == MSpec /\ \A x \in Executor : WF_mvars(ExecutorStep(x))

--------------------------------------------------------------------------------
Completed(e) == \E i \in DOMAIN log[e] : log[e][i].state = "COMPLETED"

(***************************************************************************)
(* A schema is activated only when every step of its bundle has taken      *)
(* effect, although a resumed execution skips the steps its checkpoints    *)
(* list, hooks raise after taking effect and jobs die between calls.       *)
(***************************************************************************)
ActivatedFullyApplied ==
    \A b \in Bundle : active = b => \A i \in 1..Steps : <<b, i>> \in applied

(***************************************************************************)
(* Migrations that start from one source schema cut over once: whichever   *)
(* activates first wins, the others fail on the generation they inspected, *)
(* and only the winner's execution is ever COMPLETED.                      *)
(***************************************************************************)
OneCutover ==
    /\ generation <= 1
    /\ \A e, f \in Execution : Completed(e) /\ Completed(f) => e = f
    /\ \A e \in Execution : Completed(e) => log[e][1].bundle = active

(***************************************************************************)
(* An execution id stays bound to one bundle, although two executors may   *)
(* both find it unused, and its history ends with COMPLETED: no executor   *)
(* that read it earlier writes behind that.                                *)
(***************************************************************************)
ExecutionHistory ==
    \A e \in Execution : \A i, j \in DOMAIN log[e] :
        /\ log[e][i].bundle = log[e][j].bundle
        /\ i < j => /\ log[e][i].sequence < log[e][j].sequence
                    /\ log[e][i].state # "COMPLETED"

(***************************************************************************)
(* A cutover is announced before it happens: wherever a job dies or a hook *)
(* raises, the history of some execution shows ACTIVATING for the schema   *)
(* that is active.  An execution that can never be resumed, because the    *)
(* source schema is gone, is told from one that never cut over by this.    *)
(***************************************************************************)
CutoverAnnounced ==
    active # Source =>
        \E e \in Execution : \E i \in DOMAIN log[e] :
            log[e][i].state = "ACTIVATING" /\ log[e][i].bundle = active

(***************************************************************************)
(* Once activation has happened the executor finishes postconditions and   *)
(* the COMPLETED checkpoint, whatever its cancellation token says and      *)
(* whatever failed before, if nothing fails from there on (for executions  *)
(* that only one executor is called with).                                 *)
(***************************************************************************)
CutoverRecorded ==
    \A x \in Executor, e \in Execution :
        pc[x] = "post" /\ call[x].id = e /\ faults = 0 /\ crashes = 0 ~> Completed(e)
================================================================================
