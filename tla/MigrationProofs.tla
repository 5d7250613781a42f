---------------------------- MODULE MigrationProofs ----------------------------
(***************************************************************************)
(* Proofs about the migration executor, for every number of executors,     *)
(* executions, bundles and steps, and every number of faults and crashes.  *)
(***************************************************************************)
EXTENDS MigrationExecutor, TLAPS

\* The recorder holds checkpoints, and one of an applied step names the step.
LogTyped ==
    /\ log \in [Execution -> Seq(MigrationCheckpoint)]
    /\ \A e \in Execution : \A i \in DOMAIN log[e] :
           log[e][i].state = "APPLYING" => log[e][i].step \in 1..Steps

\* A call that runs has its arguments and is at a step.
CallTyped ==
    \A x \in Executor : pc[x] # "idle" =>
        /\ call[x].id \in Execution /\ call[x].bundle \in Bundle
        /\ call[x].step >= 1
        /\ pc[x] \in {"apply", "applied"} => call[x].step <= Steps

TInv == MTypeOK /\ LogTyped /\ CallTyped

(***************************************************************************)
(* What a checkpoint changes: one more at the end of one log.              *)
(***************************************************************************)
NewCheckpoint(x, state, step) ==
    [bundle |-> call[x].bundle, state |-> state, sequence |-> call[x].sequence, step |-> step]

Appended(x, state, step) ==
    LET e == call[x].id
        n == Len(log[e])
    IN  /\ n \in Nat /\ DOMAIN log[e] = 1..n
        /\ log' \in [Execution -> Seq(MigrationCheckpoint)]
        /\ \A f \in Execution : f # e => log'[f] = log[f]
        /\ DOMAIN log'[e] = 1..(n + 1) /\ Len(log'[e]) = n + 1
        /\ \A i \in 1..n : log'[e][i] = log[e][i]
        /\ log'[e][n + 1] = NewCheckpoint(x, state, step)

LEMMA RecordAppends ==
  ASSUME TInv, NEW x \in Executor, pc[x] # "idle",
         NEW state \in MigrationState, NEW step \in 0..Steps,
         Record(x, state, step)
  PROVE  Appended(x, state, step)
<1> DEFINE e == call[x].id
           c == NewCheckpoint(x, state, step)
<1>1. e \in Execution /\ call[x].bundle \in Bundle /\ call[x].sequence \in Nat
  BY DEF TInv, CallTyped, MTypeOK, Call
<1>2. c \in MigrationCheckpoint
  BY <1>1 DEF MigrationCheckpoint, NewCheckpoint
<1>3. log \in [Execution -> Seq(MigrationCheckpoint)]
  BY DEF TInv, LogTyped
<1>4. log' = [log EXCEPT ![e] = Append(@, c)]
  BY DEF Record, NewCheckpoint
<1>5. log[e] \in Seq(MigrationCheckpoint) /\ log'[e] = Append(log[e], c)
  BY <1>1, <1>3, <1>4
<1>6. \A f \in Execution : f # e => log'[f] = log[f]
  BY <1>3, <1>4
<1>7. log' \in [Execution -> Seq(MigrationCheckpoint)]
  BY <1>1, <1>2, <1>3, <1>4, <1>5
<1>8. /\ Len(log[e]) \in Nat /\ DOMAIN log[e] = 1..Len(log[e])
      /\ DOMAIN Append(log[e], c) = 1..(Len(log[e]) + 1)
      /\ Len(Append(log[e], c)) = Len(log[e]) + 1
      /\ \A i \in 1..Len(log[e]) : Append(log[e], c)[i] = log[e][i]
      /\ Append(log[e], c)[Len(log[e]) + 1] = c
  BY <1>2, <1>5
<1> HIDE DEF c
<1> QED
  BY <1>5, <1>6, <1>7, <1>8 DEF Appended, c

\* After a checkpoint a log holds what it held before, and the checkpoint.
OldEntry(f, i) == i \in DOMAIN log[f] /\ log'[f][i] = log[f][i]
NewEntry(x, state, step, f, i) ==
    /\ f = call[x].id /\ i = Len(log[f]) + 1 /\ i = Len(log'[f])
    /\ log'[f][i] = NewCheckpoint(x, state, step)

LEMMA EntriesAfter ==
  ASSUME NEW x, NEW state, NEW step, Appended(x, state, step), call[x].id \in Execution,
         NEW f \in Execution, NEW i \in DOMAIN log'[f]
  PROVE  OldEntry(f, i) \/ NewEntry(x, state, step, f, i)
<1>1. CASE f # call[x].id
  BY <1>1 DEF Appended, OldEntry
<1>2. CASE f = call[x].id
  <2>1. i \in 1..(Len(log[f]) + 1) /\ Len(log[f]) \in Nat
    BY <1>2 DEF Appended
  <2>2. CASE i \in 1..Len(log[f])
    BY <1>2, <2>2 DEF Appended, OldEntry
  <2>3. CASE i = Len(log[f]) + 1
    BY <1>2, <2>3 DEF Appended, NewEntry
  <2> QED
    BY <2>1, <2>2, <2>3
<1> QED
  BY <1>1, <1>2

\* The last sequence of an execution is that of its last checkpoint.
LEMMA LastSequenceTyped ==
  ASSUME TInv, NEW e \in Execution
  PROVE  /\ LastSequence(e) \in Int /\ LastSequence(e) >= -1
         /\ log[e] \in Seq(MigrationCheckpoint)
         /\ Len(log[e]) \in Nat /\ DOMAIN log[e] = 1..Len(log[e])
         /\ \A i \in DOMAIN log[e] : log[e][i] \in MigrationCheckpoint /\ log[e][i].sequence \in Nat
<1>1. log[e] \in Seq(MigrationCheckpoint)
  BY DEF TInv, LogTyped
<1>2. /\ Len(log[e]) \in Nat /\ DOMAIN log[e] = 1..Len(log[e])
      /\ \A i \in DOMAIN log[e] : log[e][i] \in MigrationCheckpoint
      /\ log[e] # << >> => Len(log[e]) >= 1
  BY <1>1
<1>3. \A i \in DOMAIN log[e] : log[e][i].sequence \in Nat
  BY <1>2 DEF MigrationCheckpoint
<1> QED
  BY <1>1, <1>2, <1>3 DEF LastSequence

--------------------------------------------------------------------------------
(* Types.                                                                  *)

LEMMA TInit == MInit => TInv
<1> SUFFICES ASSUME MInit PROVE TInv
  OBVIOUS
<1>1. NoCall \in Call
  BY SizeAssumption DEF NoCall, Call
<1>2. MTypeOK
  BY <1>1, BoundsAssumption DEF MInit, MTypeOK, Location
<1>3. LogTyped /\ CallTyped
  BY DEF MInit, LogTyped, CallTyped
<1> QED
  BY <1>2, <1>3 DEF TInv

\* An entry of a log that did not change is the one it was.
LEMMA LogKept ==
  ASSUME LogTyped, log' = log
  PROVE  LogTyped'
  BY DEF LogTyped

\* A checkpoint keeps the types of the log.
LEMMA LogRecorded ==
  ASSUME TInv, NEW x \in Executor, pc[x] # "idle",
         NEW state \in MigrationState, NEW step \in 0..Steps,
         state = "APPLYING" => step \in 1..Steps,
         Record(x, state, step)
  PROVE  LogTyped'
<1>1. Appended(x, state, step)
  BY RecordAppends
<1>2. call[x].id \in Execution
  BY DEF TInv, CallTyped
<1>3. ASSUME NEW f \in Execution, NEW i \in DOMAIN log'[f], log'[f][i].state = "APPLYING"
      PROVE  log'[f][i].step \in 1..Steps
  <2>1. OldEntry(f, i) \/ NewEntry(x, state, step, f, i)
    BY <1>1, <1>2, EntriesAfter
  <2>2. CASE OldEntry(f, i)
    BY <2>2, <1>3 DEF TInv, LogTyped, OldEntry
  <2>3. CASE NewEntry(x, state, step, f, i)
    BY <2>3, <1>3 DEF NewEntry, NewCheckpoint
  <2> QED
    BY <2>1, <2>2, <2>3
<1> QED
  BY <1>1, <1>3 DEF Appended, LogTyped

\* What a step of one executor leaves alone: where the others are and what they hold.
OthersKept(x) ==
    /\ pc' \in [Executor -> Location] /\ call' \in [Executor -> Call]
    /\ \A y \in Executor \ {x} : pc'[y] = pc[y] /\ call'[y] = call[y]

\* The call goes on with its arguments; what it has recorded and inspected may differ.
CallGoesOn(x) ==
    /\ call'[x].id = call[x].id /\ call'[x].bundle = call[x].bundle
    /\ call'[x].done = call[x].done

\* The ways in which a call changes.
CallKept(x)     == CallGoesOn(x) /\ call'[x] = call[x]
CallLearns(x)   == /\ CallGoesOn(x)
                   /\ call'[x].sequence = call[x].sequence /\ call'[x].step = call[x].step
CallSkips(x)    == /\ CallGoesOn(x) /\ call'[x].generation = call[x].generation
                   /\ call'[x].sequence = call[x].sequence /\ call'[x].step = call[x].step + 1
CallRecords(x, step) ==
    /\ CallGoesOn(x) /\ call'[x].generation = call[x].generation
    /\ call'[x].sequence = call[x].sequence + 1
    /\ call'[x].step = IF step > 0 THEN call[x].step + 1 ELSE call[x].step
CallEnds(x)     == call'[x] = NoCall

LEMMA CallFields ==
  ASSUME TInv, NEW x \in Executor
  PROVE  /\ call[x] \in Call /\ call[x].sequence \in Nat /\ call[x].step \in Nat
         /\ call[x].generation \in Nat /\ call[x].expires_at \in Nat
         /\ call[x].done \subseteq 1..Steps /\ Steps \in Nat /\ Steps >= 1
  BY SizeAssumption DEF TInv, MTypeOK, Call

LEMMA NoCallTyped == NoCall \in Call
  BY SizeAssumption DEF NoCall, Call

\* One more checkpoint, and the counters of the call follow.
LEMMA CheckpointEffect ==
  ASSUME TInv, NEW x \in Executor, NEW state, NEW step \in 0..Steps,
         Checkpoint(x, state, step)
  PROVE  /\ call' \in [Executor -> Call]
         /\ \A y \in Executor \ {x} : call'[y] = call[y]
         /\ CallRecords(x, step)
<1> DEFINE s == IF step > 0 THEN call[x].step + 1 ELSE call[x].step
           c == [call[x] EXCEPT !.sequence = @ + 1, !.step = s]
<1>1. call' = [call EXCEPT ![x] = c]
  BY DEF Checkpoint, TInv, MTypeOK
<1>2. s \in Nat /\ call[x].sequence + 1 \in Nat
  BY CallFields
<1> HIDE DEF s
<1>3. c \in Call
  BY <1>2, CallFields DEF Call
<1>4. call \in [Executor -> Call]
  BY DEF TInv, MTypeOK
<1>5. /\ c.id = call[x].id /\ c.bundle = call[x].bundle /\ c.done = call[x].done
      /\ c.generation = call[x].generation /\ c.sequence = call[x].sequence + 1
      /\ c.step = s
  BY CallFields DEF Call
<1> HIDE DEF c
<1> QED
  BY <1>1, <1>3, <1>4, <1>5 DEF CallRecords, CallGoesOn, s

(***************************************************************************)
(* The effect of each action on the executor that takes it, the others and *)
(* the recorder.  The proofs below work from these effects.                *)
(***************************************************************************)
Raises(x) ==
    \/ HookRaises(x) \/ ObserveCancellation(x) \/ ObserveExpiry(x) \/ RecorderRefuses(x)

LEMMA RaiseEffect ==
  ASSUME TInv, NEW x \in Executor, Raises(x)
  PROVE  /\ OthersKept(x) /\ CallKept(x) /\ pc[x] # "idle" /\ pc'[x] = "fail"
         /\ log' = log /\ cancelled' = cancelled /\ UNCHANGED adapter
         /\ clock' = clock /\ calls' = calls /\ crashes' = crashes /\ faults' \in Nat
<1>1. /\ pc \in [Executor -> Location] /\ call \in [Executor -> Call] /\ faults \in Nat
  BY DEF TInv, MTypeOK
<1>2. /\ Raise(x) /\ pc[x] # "idle"
      /\ UNCHANGED adapter /\ clock' = clock /\ calls' = calls /\ crashes' = crashes
      /\ faults' = faults \/ Fault
  BY DEF Raises, HookRaises, ObserveCancellation, ObserveExpiry, RecorderRefuses, AtStep, bounds
<1> QED
  BY <1>1, <1>2 DEF Raise, Goto, Fault, OthersKept, CallKept, CallGoesOn, Location

\* Inspection, and the lock: the call learns the generation and the expiry.
LEMMA InspectEffect ==
  ASSUME TInv, NEW x \in Executor, Inspect(x)
  PROVE  /\ OthersKept(x) /\ CallLearns(x) /\ pc[x] = "inspect"
         /\ \/ pc'[x] = "lock" /\ active = Source /\ call'[x].generation = generation
            \/ pc'[x] = "fail"
         /\ log' = log /\ cancelled' = cancelled /\ UNCHANGED <<adapter, bounds>>
<1>1. /\ pc \in [Executor -> Location] /\ call \in [Executor -> Call] /\ generation \in Nat
  BY DEF TInv, MTypeOK
<1> DEFINE c == [call[x] EXCEPT !.generation = generation]
<1>2. CASE Raise(x) /\ active # Source
  BY <1>1, <1>2 DEF Inspect, Raise, Goto, OthersKept, CallLearns, CallGoesOn, Location
<1>3. CASE active = Source /\ Goto(x, "lock") /\ call' = [call EXCEPT ![x] = c]
  <2>1. /\ c \in Call /\ c.id = call[x].id /\ c.bundle = call[x].bundle
        /\ c.done = call[x].done /\ c.sequence = call[x].sequence /\ c.step = call[x].step
        /\ c.generation = generation
    BY <1>1 DEF Call
  <2> HIDE DEF c
  <2> QED
    BY <1>1, <1>3, <2>1 DEF Inspect, Goto, OthersKept, CallLearns, CallGoesOn, Location, Raise
<1> QED
  BY <1>1, <1>2, <1>3 DEF Inspect

LEMMA AcquireLockEffect ==
  ASSUME TInv, NEW x \in Executor, AcquireLock(x)
  PROVE  /\ OthersKept(x) /\ CallLearns(x) /\ pc[x] = "lock" /\ pc'[x] \in {"plan", "fail"}
         /\ call'[x].generation = call[x].generation
         /\ holder' \in MigrationLock \cup {None}
         /\ log' = log /\ cancelled' = cancelled /\ faults' \in Nat
         /\ UNCHANGED <<active, generation, applied, clock, calls, crashes>>
<1>1. /\ pc \in [Executor -> Location] /\ call \in [Executor -> Call]
      /\ holder \in MigrationLock \cup {None} /\ clock + LockDuration \in Nat
      /\ faults \in Nat
  BY SizeAssumption DEF TInv, MTypeOK
<1> DEFINE c == [call[x] EXCEPT !.expires_at = clock + LockDuration]
<1>2. holder' \in MigrationLock \cup {None} /\ faults' \in Nat
  BY <1>1 DEF AcquireLock, Fault, MigrationLock
<1>3. CASE Raise(x)
  BY <1>1, <1>2, <1>3 DEF AcquireLock, Raise, Goto, OthersKept, CallLearns, CallGoesOn, Location
<1>4. CASE Goto(x, "plan") /\ call' = [call EXCEPT ![x] = c] /\ log' = log /\ cancelled' = cancelled
  <2>1. /\ c \in Call /\ c.id = call[x].id /\ c.bundle = call[x].bundle
        /\ c.done = call[x].done /\ c.sequence = call[x].sequence /\ c.step = call[x].step
        /\ c.generation = call[x].generation
    BY <1>1 DEF Call
  <2> HIDE DEF c
  <2> QED
    BY <1>1, <1>2, <1>4, <2>1 DEF AcquireLock, Goto, OthersKept, CallLearns, CallGoesOn, Location
<1> QED
  BY <1>3, <1>4 DEF AcquireLock

LEMMA SkipStepEffect ==
  ASSUME TInv, NEW x \in Executor, SkipStep(x)
  PROVE  /\ OthersKept(x) /\ CallSkips(x) /\ pc[x] = "steps" /\ pc'[x] = "steps"
         /\ call[x].step \in call[x].done
         /\ log' = log /\ cancelled' = cancelled /\ UNCHANGED <<adapter, bounds>>
<1>1. pc \in [Executor -> Location] /\ call \in [Executor -> Call] /\ call[x].step + 1 \in Nat
  BY CallFields DEF TInv, MTypeOK
<1> DEFINE c == [call[x] EXCEPT !.step = call[x].step + 1]
<1>2. call' = [call EXCEPT ![x] = c]
  BY <1>1 DEF SkipStep
<1>3. /\ c \in Call /\ c.id = call[x].id /\ c.bundle = call[x].bundle
      /\ c.done = call[x].done /\ c.sequence = call[x].sequence
      /\ c.generation = call[x].generation /\ c.step = call[x].step + 1
  BY <1>1 DEF Call
<1> HIDE DEF c
<1> QED
  BY <1>1, <1>2, <1>3 DEF SkipStep, OthersKept, CallSkips, CallGoesOn

LEMMA ApplyStepEffect ==
  ASSUME TInv, NEW x \in Executor, ApplyStep(x)
  PROVE  /\ OthersKept(x) /\ CallKept(x) /\ pc[x] = "apply" /\ pc'[x] \in {"applied", "fail"}
         /\ call[x].step \in 1..Steps
         /\ applied' = applied \cup {<<call[x].bundle, call[x].step>>}
         /\ log' = log /\ cancelled' = cancelled /\ faults' \in Nat
         /\ UNCHANGED <<active, generation, holder, clock, calls, crashes>>
<1>1. pc \in [Executor -> Location] /\ call \in [Executor -> Call] /\ faults \in Nat
  BY DEF TInv, MTypeOK
<1>2. call[x].step \in 1..Steps
  BY CallFields DEF ApplyStep, TInv, CallTyped
<1> QED
  BY <1>1, <1>2 DEF ApplyStep, Goto, Raise, Fault, OthersKept, CallKept, CallGoesOn, Location

\* Each checkpoint that advances the sequence: where the call is before and after it.
Checkpoints(x, from, to, state, step) ==
    /\ pc[x] = from /\ Goto(x, to)
    /\ Checkpoint(x, state, step)
    /\ faults' = faults \/ Fault
    /\ UNCHANGED <<adapter, cancelled, clock, calls, crashes>>

CheckpointAction(x) ==
    \/ Plan(x) \/ RecordStep(x) \/ StepsDone(x) \/ RecordActivating(x)

LEMMA CheckpointActions ==
  ASSUME NEW x \in Executor, CheckpointAction(x)
  PROVE  \/ Checkpoints(x, "plan", "steps", "PLANNED", 0)
         \/ Checkpoints(x, "applied", "steps", "APPLYING", call[x].step)
         \/ Checkpoints(x, "steps", "validate", "VALIDATING", 0) /\ call[x].step > Steps
         \/ Checkpoints(x, "activating", "activate", "ACTIVATING", 0)
         \/ Checkpoints(x, "plan", "fail", "PLANNED", 0)
  BY DEF CheckpointAction, Plan, RecordStep, StepsDone, RecordActivating, Checkpoints, bounds

LEMMA CheckpointsEffect ==
  ASSUME TInv, NEW x \in Executor, NEW from, NEW to \in Location \ {"idle"},
         NEW state \in MigrationState, NEW step \in 0..Steps, from # "idle",
         Checkpoints(x, from, to, state, step)
  PROVE  /\ OthersKept(x) /\ CallRecords(x, step) /\ pc[x] = from /\ pc'[x] = to
         /\ Accepts(x) /\ Record(x, state, step) /\ Appended(x, state, step)
         /\ faults' \in Nat /\ UNCHANGED <<adapter, cancelled, clock, calls, crashes>>
<1>1. pc \in [Executor -> Location] /\ call \in [Executor -> Call] /\ faults \in Nat
  BY DEF TInv, MTypeOK
<1>2. Record(x, state, step) /\ Accepts(x) /\ pc[x] # "idle"
  BY DEF Checkpoints, Checkpoint, Record
<1>3. Appended(x, state, step)
  BY <1>2, RecordAppends
<1>4. /\ call' \in [Executor -> Call] /\ CallRecords(x, step)
      /\ \A y \in Executor \ {x} : call'[y] = call[y]
  BY CheckpointEffect DEF Checkpoints
<1> QED
  BY <1>1, <1>2, <1>3, <1>4 DEF Checkpoints, Goto, Fault, OthersKept

\* The checks before a step and before the cutover, validation, and the
\* postconditions: the call moves on.
Moves(x) == CheckStep(x) \/ CheckActivation(x) \/ Validate(x) \/ Postconditions(x)

LEMMA MoveEffect ==
  ASSUME TInv, NEW x \in Executor, Moves(x)
  PROVE  /\ OthersKept(x) /\ CallKept(x)
         /\ \/ pc[x] = "steps" /\ pc'[x] = "apply" /\ call[x].step <= Steps
            \/ pc[x] = "activate" /\ pc'[x] = "cutover"
            \/ pc[x] = "validate" /\ pc'[x] = "activating"
            \/ pc[x] = "post" /\ pc'[x] = "complete"
         /\ log' = log /\ cancelled' = cancelled /\ UNCHANGED <<adapter, bounds>>
<1>1. pc \in [Executor -> Location] /\ call \in [Executor -> Call]
  BY DEF TInv, MTypeOK
<1> QED
  BY <1>1, CallFields
  DEF Moves, CheckStep, CheckActivation, Validate, Postconditions, Goto, OthersKept, CallKept, CallGoesOn, Location

LEMMA ActivateEffect ==
  ASSUME TInv, NEW x \in Executor, Activate(x)
  PROVE  /\ OthersKept(x) /\ CallKept(x) /\ pc[x] = "cutover"
         /\ \/ /\ generation = call[x].generation
               /\ active' = call[x].bundle /\ generation' = generation + 1
               /\ pc'[x] \in {"post", "fail"}
            \/ /\ pc'[x] = "fail" /\ UNCHANGED <<active, generation>>
         /\ log' = log /\ cancelled' = cancelled /\ faults' \in Nat
         /\ UNCHANGED <<applied, holder, clock, calls, crashes>>
<1>1. pc \in [Executor -> Location] /\ call \in [Executor -> Call] /\ faults \in Nat
  BY DEF TInv, MTypeOK
<1> QED
  BY <1>1 DEF Activate, Goto, Raise, Fault, OthersKept, CallKept, CallGoesOn, Location

\* The two checkpoints a call ends with.
LEMMA LastCheckpointEffect ==
  ASSUME TInv, NEW x \in Executor, Complete(x) \/ Fail(x)
  PROVE  /\ OthersKept(x) /\ CallKept(x)
         /\ pc[x] \in {"complete", "fail"} /\ pc'[x] \in {"fail", "release"}
         /\ \/ /\ pc[x] = "complete" /\ Accepts(x) /\ Record(x, "COMPLETED", 0)
               /\ Appended(x, "COMPLETED", 0)
            \/ /\ pc[x] = "fail" /\ Accepts(x) /\ Record(x, "FAILED", 0)
               /\ Appended(x, "FAILED", 0)
            \/ pc[x] = "fail" /\ log' = log
         /\ cancelled' = cancelled /\ faults' \in Nat
         /\ UNCHANGED <<adapter, clock, calls, crashes>>
<1>1. /\ pc \in [Executor -> Location] /\ call \in [Executor -> Call] /\ faults \in Nat
      /\ 0 \in 0..Steps /\ {"COMPLETED", "FAILED"} \subseteq MigrationState
  BY CallFields DEF TInv, MTypeOK, MigrationState
<1>2. CASE Complete(x)
  <2>1. Record(x, "COMPLETED", 0) /\ Accepts(x) /\ pc[x] = "complete"
    BY <1>2 DEF Complete, Record
  <2>2. Appended(x, "COMPLETED", 0)
    BY <1>1, <2>1, RecordAppends
  <2> QED
    BY <1>1, <1>2, <2>1, <2>2
    DEF Complete, Goto, Fault, OthersKept, CallKept, CallGoesOn, Location
<1>3. CASE Fail(x)
  <2>1. pc[x] = "fail" /\ (log' = log \/ (Accepts(x) /\ Record(x, "FAILED", 0)))
    BY <1>3 DEF Fail
  <2>2. Record(x, "FAILED", 0) => Appended(x, "FAILED", 0)
    BY <1>1, <2>1, RecordAppends
  <2> QED
    BY <1>1, <1>3, <2>1, <2>2
    DEF Fail, Goto, OthersKept, CallKept, CallGoesOn, Location, bounds
<1> QED
  BY <1>2, <1>3

LEMMA EndEffect ==
  ASSUME TInv, NEW x \in Executor, Release(x) \/ Crash(x)
  PROVE  /\ OthersKept(x) /\ pc[x] # "idle" /\ pc'[x] = "idle"
         /\ holder' \in MigrationLock \cup {None} /\ cancelled' \in [Executor -> BOOLEAN]
         /\ crashes' \in Nat /\ log' = log
         /\ UNCHANGED <<active, generation, applied, clock, calls, faults>>
<1>1. /\ pc \in [Executor -> Location] /\ call \in [Executor -> Call]
      /\ holder \in MigrationLock \cup {None} /\ crashes \in Nat
  BY DEF TInv, MTypeOK
<1>2. cancelled' \in [Executor -> BOOLEAN]
  BY DEF TInv, MTypeOK, Release, Crash
<1>3. holder' \in MigrationLock \cup {None} /\ crashes' \in Nat
  BY <1>1 DEF Release, Crash, adapter, bounds
<1> QED
  BY <1>1, <1>2, <1>3, NoCallTyped
  DEF Release, Crash, Goto, OthersKept, Location, adapter, bounds

LEMMA StartEffect ==
  ASSUME TInv, NEW x \in Executor, NEW e \in Execution, NEW b \in Bundle, Start(x, e, b)
  PROVE  /\ OthersKept(x) /\ pc[x] = "idle" /\ pc'[x] = "inspect"
         /\ \A i \in DOMAIN log[e] : log[e][i].bundle = b /\ log[e][i].state # "COMPLETED"
         /\ call'[x].id = e /\ call'[x].bundle = b /\ call'[x].sequence = LastSequence(e) + 1
         /\ call'[x].step = 1
         /\ \A k \in call'[x].done : \E i \in DOMAIN log[e] :
                log[e][i].state = "APPLYING" /\ log[e][i].step = k
         /\ calls' \in Nat /\ log' = log /\ cancelled' = cancelled
         /\ UNCHANGED <<adapter, clock, faults, crashes>>
<1> DEFINE done == {log[e][i].step : i \in {j \in DOMAIN log[e] : log[e][j].state = "APPLYING"}}
           c == [NoCall EXCEPT !.id = e, !.bundle = b, !.sequence = LastSequence(e) + 1,
                               !.done = done]
<1>1. /\ pc \in [Executor -> Location] /\ call \in [Executor -> Call] /\ calls \in Nat
  BY DEF TInv, MTypeOK
<1>2. done \subseteq 1..Steps
  BY DEF TInv, LogTyped
<1>3. \A k \in done : \E i \in DOMAIN log[e] : log[e][i].state = "APPLYING" /\ log[e][i].step = k
  OBVIOUS
<1>4. LastSequence(e) + 1 \in Nat
  BY LastSequenceTyped
<1>5. call' = [call EXCEPT ![x] = c]
  BY DEF Start
<1> HIDE DEF done
<1>6. /\ c \in Call /\ c.id = e /\ c.bundle = b /\ c.sequence = LastSequence(e) + 1
      /\ c.done = done /\ c.step = 1
  BY <1>2, <1>4, NoCallTyped DEF Call, NoCall
<1> HIDE DEF c
<1>7. call' \in [Executor -> Call] /\ call'[x] = c
      /\ \A y \in Executor \ {x} : call'[y] = call[y]
  BY <1>1, <1>5, <1>6
<1>8. /\ pc' \in [Executor -> Location] /\ pc[x] = "idle" /\ pc'[x] = "inspect"
      /\ \A y \in Executor \ {x} : pc'[y] = pc[y]
  BY <1>1 DEF Start, Goto, Location
<1>9. /\ \A i \in DOMAIN log[e] : log[e][i].bundle = b /\ log[e][i].state # "COMPLETED"
      /\ calls' \in Nat /\ log' = log /\ cancelled' = cancelled
      /\ UNCHANGED <<adapter, clock, faults, crashes>>
  BY <1>1 DEF Start
<1> QED
  BY <1>3, <1>6, <1>7, <1>8, <1>9 DEF OthersKept

\* Neither the token nor time is the call's.
LEMMA EnvironmentEffect ==
  ASSUME TInv, (\E x \in Executor : Cancel(x)) \/ Tick \/ UNCHANGED mvars
  PROVE  /\ pc' = pc /\ call' = call /\ log' = log
         /\ cancelled' \in [Executor -> BOOLEAN] /\ clock' \in Nat /\ faults' \in Nat
         /\ UNCHANGED <<adapter, calls, crashes>>
<1>1. clock \in Nat /\ faults \in Nat
  BY DEF TInv, MTypeOK
<1>2. cancelled' \in [Executor -> BOOLEAN]
  BY DEF TInv, MTypeOK, Cancel, Tick, mvars
<1> QED
  BY <1>1, <1>2 DEF Cancel, Tick, Fault, mvars, bounds, adapter

\* A step is that of one executor, or leaves all of them alone.
LEMMA MSteps ==
  ASSUME [MNext]_mvars
  PROVE  \/ \E x \in Executor :
              \/ Raises(x) \/ Inspect(x) \/ AcquireLock(x) \/ SkipStep(x) \/ ApplyStep(x)
              \/ CheckpointAction(x) \/ Moves(x) \/ Activate(x)
              \/ Complete(x) \/ Fail(x) \/ Release(x) \/ Crash(x)
              \/ \E e \in Execution, b \in Bundle : Start(x, e, b)
         \/ (\E x \in Executor : Cancel(x)) \/ Tick \/ UNCHANGED mvars
<1>1. \A x \in Executor : IdsOf[x] \subseteq Execution
  BY IdsAssumption
<1> QED
  BY <1>1 DEF MNext, ExecutorStep, Raises, Moves, CheckpointAction

--------------------------------------------------------------------------------
\* The types hold after a step of x if they hold of what x changed.
LEMMA TypedAfter ==
  ASSUME TInv, NEW x \in Executor, OthersKept(x), LogTyped',
         \/ pc'[x] = "idle"
         \/ /\ call'[x].id \in Execution /\ call'[x].bundle \in Bundle /\ call'[x].step >= 1
            /\ pc'[x] \in {"apply", "applied"} => call'[x].step <= Steps,
         active' \in Bundle \cup {Source}, generation' \in Nat,
         applied' \subseteq AppliedMigrationStep, holder' \in MigrationLock \cup {None},
         cancelled' \in [Executor -> BOOLEAN],
         clock' \in Nat, calls' \in Nat, faults' \in Nat, crashes' \in Nat
  PROVE  TInv'
<1>1. \A e \in Execution : \A i \in DOMAIN log'[e] : log'[e][i] \in MigrationCheckpoint
  BY DEF LogTyped
<1>2. MTypeOK'
  BY <1>1 DEF MTypeOK, OthersKept
<1>3. CallTyped'
  BY DEF TInv, CallTyped, OthersKept
<1> QED
  BY <1>2, <1>3 DEF TInv

LEMMA TStep == TInv /\ [MNext]_mvars => TInv'
<1> SUFFICES ASSUME TInv, [MNext]_mvars PROVE TInv'
  OBVIOUS
<1>1. /\ active \in Bundle \cup {Source} /\ generation \in Nat
      /\ applied \subseteq AppliedMigrationStep /\ holder \in MigrationLock \cup {None}
      /\ cancelled \in [Executor -> BOOLEAN]
      /\ clock \in Nat /\ calls \in Nat /\ faults \in Nat /\ crashes \in Nat
  BY DEF TInv, MTypeOK
<1>2. log' = log => LogTyped'
  BY LogKept DEF TInv
<1>3. \A x \in Executor : pc[x] # "idle" =>
          /\ call[x].id \in Execution /\ call[x].bundle \in Bundle /\ call[x].step >= 1
          /\ pc[x] \in {"apply", "applied"} => call[x].step <= Steps
  BY DEF TInv, CallTyped
<1>4. ASSUME NEW x \in Executor, Raises(x) PROVE TInv'
  BY <1>1, <1>2, <1>3, <1>4, RaiseEffect, TypedAfter DEF CallKept, adapter
<1>5. ASSUME NEW x \in Executor, Inspect(x) PROVE TInv'
  BY <1>1, <1>2, <1>3, <1>5, InspectEffect, TypedAfter DEF CallLearns, CallGoesOn, adapter, bounds
<1>6. ASSUME NEW x \in Executor, AcquireLock(x) PROVE TInv'
  BY <1>1, <1>2, <1>3, <1>6, AcquireLockEffect, TypedAfter DEF CallLearns, CallGoesOn, bounds
<1>7. ASSUME NEW x \in Executor, SkipStep(x) PROVE TInv'
  BY <1>1, <1>2, <1>3, <1>7, SkipStepEffect, TypedAfter, CallFields
  DEF CallSkips, CallGoesOn, adapter, bounds
<1>8. ASSUME NEW x \in Executor, ApplyStep(x) PROVE TInv'
  <2>1. applied' \subseteq AppliedMigrationStep
    BY <1>1, <1>3, <1>8, ApplyStepEffect DEF AppliedMigrationStep
  <2> QED
    BY <1>1, <1>2, <1>3, <1>8, <2>1, ApplyStepEffect, TypedAfter DEF CallKept
<1>9. ASSUME NEW x \in Executor, CheckpointAction(x) PROVE TInv'
  <2>1. ASSUME NEW from \in Location \ {"idle"}, NEW to \in Location \ {"idle", "apply", "applied"},
               NEW state \in MigrationState, NEW step \in 0..Steps,
               state = "APPLYING" => step \in 1..Steps,
               Checkpoints(x, from, to, state, step)
        PROVE  TInv'
    <3>1. /\ OthersKept(x) /\ CallRecords(x, step) /\ pc[x] # "idle" /\ pc'[x] = to
          /\ Record(x, state, step) /\ faults' \in Nat
          /\ UNCHANGED <<adapter, cancelled, clock, calls, crashes>>
      BY <2>1, CheckpointsEffect
    <3>2. LogTyped'
      BY <2>1, <3>1, LogRecorded
    <3>3. /\ call'[x].id \in Execution /\ call'[x].bundle \in Bundle /\ call'[x].step >= 1
      BY <1>3, <3>1, CallFields DEF CallRecords, CallGoesOn
    <3> QED
      BY <1>1, <3>1, <3>2, <3>3, TypedAfter DEF adapter, bounds
  <2>2. 0 \in 0..Steps /\ (pc[x] = "applied" => call[x].step \in 1..Steps)
    BY <1>3, CallFields
  <2>3. CASE Checkpoints(x, "plan", "steps", "PLANNED", 0)
    BY <2>1, <2>2, <2>3 DEF Location, MigrationState
  <2>4. CASE Checkpoints(x, "plan", "fail", "PLANNED", 0)
    BY <2>1, <2>2, <2>4 DEF Location, MigrationState
  <2>5. CASE Checkpoints(x, "applied", "steps", "APPLYING", call[x].step)
    <3>1. call[x].step \in 1..Steps /\ call[x].step \in 0..Steps
      BY <2>2, <2>5 DEF Checkpoints
    <3> QED
      BY <2>1, <2>5, <3>1 DEF Location, MigrationState
  <2>6. CASE Checkpoints(x, "steps", "validate", "VALIDATING", 0)
    BY <2>1, <2>2, <2>6 DEF Location, MigrationState
  <2>7. CASE Checkpoints(x, "activating", "activate", "ACTIVATING", 0)
    BY <2>1, <2>2, <2>7 DEF Location, MigrationState
  <2> QED
    BY <1>9, <2>3, <2>4, <2>5, <2>6, <2>7, CheckpointActions
<1>10. ASSUME NEW x \in Executor, Moves(x) PROVE TInv'
  BY <1>1, <1>2, <1>3, <1>10, MoveEffect, TypedAfter DEF CallKept, adapter, bounds
<1>11. ASSUME NEW x \in Executor, Activate(x) PROVE TInv'
  <2>1. active' \in Bundle \cup {Source} /\ generation' \in Nat
    BY <1>1, <1>3, <1>11, ActivateEffect
  <2> QED
    BY <1>1, <1>2, <1>3, <1>11, <2>1, ActivateEffect, TypedAfter DEF CallKept
<1>12. ASSUME NEW x \in Executor, Complete(x) \/ Fail(x) PROVE TInv'
  <2>1. LogTyped'
    <3>1. 0 \in 0..Steps /\ {"COMPLETED", "FAILED"} \subseteq MigrationState
      BY CallFields DEF MigrationState
    <3> QED
      BY <1>2, <1>12, <3>1, LastCheckpointEffect, LogRecorded
  <2> QED
    BY <1>1, <1>3, <1>12, <2>1, LastCheckpointEffect, TypedAfter DEF CallKept, adapter
<1>13. ASSUME NEW x \in Executor, Release(x) \/ Crash(x) PROVE TInv'
  BY <1>1, <1>2, <1>13, EndEffect, TypedAfter
<1>14. ASSUME NEW x \in Executor, NEW e \in Execution, NEW b \in Bundle, Start(x, e, b) PROVE TInv'
  BY <1>1, <1>2, <1>14, StartEffect, TypedAfter DEF adapter
<1>15. ASSUME (\E x \in Executor : Cancel(x)) \/ Tick \/ UNCHANGED mvars PROVE TInv'
  <2>1. /\ pc' = pc /\ call' = call /\ log' = log
        /\ cancelled' \in [Executor -> BOOLEAN] /\ clock' \in Nat /\ faults' \in Nat
        /\ UNCHANGED <<adapter, calls, crashes>>
    BY <1>15, EnvironmentEffect
  <2>2. MTypeOK'
    BY <1>1, <2>1 DEF TInv, MTypeOK, adapter
  <2>3. CallTyped'
    BY <2>1 DEF TInv, CallTyped
  <2> QED
    BY <1>2, <2>1, <2>2, <2>3 DEF TInv
<1> QED
  BY <1>4, <1>5, <1>6, <1>7, <1>8, <1>9, <1>10, <1>11, <1>12, <1>13, <1>14, <1>15, MSteps

\* The migration model is well typed: every checkpoint, call and lock is of its type.
THEOREM MigrationTypes == MSpec => []MTypeOK
<1>1. MSpec => []TInv
  BY TInit, TStep, PTL DEF MSpec
<1>2. TInv => MTypeOK
  BY DEF TInv
<1> QED
  BY <1>1, <1>2, PTL

--------------------------------------------------------------------------------
(* The history of an execution.                                            *)

(***************************************************************************)
(* No call is ahead of the recorder, so that one whose next checkpoint the *)
(* recorder would accept has seen all of the history: it is of the call's  *)
(* bundle and not complete.                                                *)
(***************************************************************************)
SeenBy(e, b, sequence) ==
    /\ sequence <= LastSequence(e) + 1
    /\ sequence > LastSequence(e) => \A i \in DOMAIN log[e] :
           log[e][i].bundle = b /\ log[e][i].state # "COMPLETED"

Seen(x) == SeenBy(call[x].id, call[x].bundle, call[x].sequence)

CallsSeen == \A x \in Executor : pc[x] # "idle" => Seen(x)

HInv == CallsSeen /\ ExecutionHistory

\* The recorder is left alone, and so are the arguments and the sequence of the call.
Quiet(x) ==
    /\ OthersKept(x) /\ CallGoesOn(x) /\ call'[x].sequence = call[x].sequence
    /\ pc[x] # "idle" /\ log' = log

\* The recorder gets one more checkpoint of the call.
Writes(x, state, step) ==
    /\ OthersKept(x) /\ CallGoesOn(x) /\ pc[x] # "idle" /\ pc'[x] # "idle"
    /\ Accepts(x) /\ Appended(x, state, step)
    /\ \/ call'[x].sequence = call[x].sequence + 1 /\ state # "COMPLETED"
       \/ call'[x].sequence = call[x].sequence

\* To the recorder, a step is one of these.
LEMMA RecorderSteps ==
  ASSUME TInv, [MNext]_mvars
  PROVE  \/ \E x \in Executor :
              \/ Quiet(x)
              \/ \E state \in MigrationState, step \in 0..Steps : Writes(x, state, step)
              \/ Release(x) \/ Crash(x)
              \/ \E e \in Execution, b \in Bundle : Start(x, e, b)
         \/ pc' = pc /\ call' = call /\ log' = log
<1> DEFINE Goal ==
        \/ \E x \in Executor :
              \/ Quiet(x)
              \/ \E state \in MigrationState, step \in 0..Steps : Writes(x, state, step)
              \/ Release(x) \/ Crash(x)
              \/ \E e \in Execution, b \in Bundle : Start(x, e, b)
        \/ pc' = pc /\ call' = call /\ log' = log
<1>1. ASSUME NEW x \in Executor,
             \/ Raises(x) \/ Inspect(x) \/ AcquireLock(x) \/ SkipStep(x) \/ ApplyStep(x)
             \/ Moves(x) \/ Activate(x)
      PROVE  Quiet(x)
  <2>1. CASE Raises(x) \/ ApplyStep(x) \/ Moves(x) \/ Activate(x)
    BY <2>1, RaiseEffect, ApplyStepEffect, MoveEffect, ActivateEffect DEF Quiet, CallKept
  <2>2. CASE Inspect(x) \/ AcquireLock(x)
    BY <2>2, InspectEffect, AcquireLockEffect DEF Quiet, CallLearns
  <2>3. CASE SkipStep(x)
    BY <2>3, SkipStepEffect DEF Quiet, CallSkips
  <2> QED
    BY <1>1, <2>1, <2>2, <2>3
<1>2. ASSUME NEW x \in Executor, Complete(x) \/ Fail(x) PROVE Goal
  <2>1. 0 \in 0..Steps /\ {"COMPLETED", "FAILED"} \subseteq MigrationState
    BY CallFields DEF MigrationState
  <2>2. CASE log' = log
    BY <1>2, <2>2, LastCheckpointEffect DEF Quiet, CallKept
  <2>3. CASE log' # log
    <3>1. Writes(x, "COMPLETED", 0) \/ Writes(x, "FAILED", 0)
      BY <1>2, <2>3, LastCheckpointEffect DEF Writes, CallKept
    <3> QED
      BY <2>1, <3>1
  <2> QED
    BY <2>2, <2>3
<1>3. ASSUME NEW x \in Executor, CheckpointAction(x) PROVE Goal
  <2>1. ASSUME NEW from \in Location \ {"idle"}, NEW to \in Location \ {"idle"},
               NEW state \in MigrationState, NEW step \in 0..Steps, state # "COMPLETED",
               Checkpoints(x, from, to, state, step)
        PROVE  Goal
    <3>1. Writes(x, state, step)
      BY <2>1, CheckpointsEffect DEF Writes, CallRecords
    <3> QED
      BY <3>1
  <2>2. 0 \in 0..Steps /\ (pc[x] = "applied" => call[x].step \in 0..Steps)
    BY CallFields DEF TInv, CallTyped
  <2> HIDE DEF Goal
  <2>3. CASE Checkpoints(x, "plan", "steps", "PLANNED", 0)
    BY <2>1, <2>2, <2>3 DEF Location, MigrationState
  <2>4. CASE Checkpoints(x, "plan", "fail", "PLANNED", 0)
    BY <2>1, <2>2, <2>4 DEF Location, MigrationState
  <2>5. CASE Checkpoints(x, "applied", "steps", "APPLYING", call[x].step)
    <3>1. call[x].step \in 0..Steps
      BY <2>2, <2>5 DEF Checkpoints
    <3> QED
      BY <2>1, <2>5, <3>1 DEF Location, MigrationState
  <2>6. CASE Checkpoints(x, "steps", "validate", "VALIDATING", 0)
    BY <2>1, <2>2, <2>6 DEF Location, MigrationState
  <2>7. CASE Checkpoints(x, "activating", "activate", "ACTIVATING", 0)
    BY <2>1, <2>2, <2>7 DEF Location, MigrationState
  <2> QED
    BY <1>3, <2>3, <2>4, <2>5, <2>6, <2>7, CheckpointActions
<1>4. ASSUME (\E x \in Executor : Cancel(x)) \/ Tick \/ UNCHANGED mvars PROVE Goal
  BY <1>4, EnvironmentEffect
<1> QED
  BY <1>1, <1>2, <1>3, <1>4, MSteps

\* Where the log is not changed, what was seen stays seen.
LEMMA SeenKept ==
  ASSUME NEW e, NEW b, NEW sequence, SeenBy(e, b, sequence), log'[e] = log[e]
  PROVE  SeenBy(e, b, sequence)'
  BY DEF SeenBy, LastSequence

\* After a checkpoint of x no other call's is accepted in its place.
LEMMA SeenWritten ==
  ASSUME TInv, HInv, NEW x \in Executor,
         NEW state \in MigrationState, NEW step \in 0..Steps, Writes(x, state, step)
  PROVE  HInv'
<1>0. PICK e \in Execution : e = call[x].id
  BY DEF TInv, CallTyped, Writes
<1> DEFINE n == Len(log[e])
<1>1. /\ e = call[x].id /\ call[x].sequence \in Nat /\ Appended(x, state, step)
      /\ Seen(x) /\ call[x].sequence > LastSequence(e)
  BY <1>0, CallFields DEF TInv, CallTyped, HInv, CallsSeen, Writes, Accepts
<1>2. /\ LastSequence(e) \in Int /\ n \in Nat /\ DOMAIN log[e] = 1..n
      /\ \A i \in DOMAIN log[e] : log[e][i].sequence \in Nat
  BY <1>1, LastSequenceTyped
<1>3. call[x].sequence = LastSequence(e) + 1
  BY <1>1, <1>2 DEF Seen, SeenBy
<1>4. LastSequence(e)' = call[x].sequence
  <2>1. log'[e] # << >> /\ Len(log'[e]) = n + 1
    BY <1>1, <1>2 DEF Appended
  <2> QED
    BY <1>1, <2>1 DEF LastSequence, Appended, NewCheckpoint
<1>5. \A i \in DOMAIN log[e] :
          log[e][i].bundle = call[x].bundle /\ log[e][i].state # "COMPLETED"
  BY <1>1 DEF Seen, SeenBy
<1>6. \A i \in DOMAIN log[e] : log[e][i].sequence < call[x].sequence
  <2> SUFFICES ASSUME NEW i \in DOMAIN log[e] PROVE log[e][i].sequence < call[x].sequence
    OBVIOUS
  <2>1. n \in DOMAIN log[e] /\ log[e] # << >> /\ LastSequence(e) = log[e][n].sequence
    BY <1>2 DEF LastSequence
  <2>2. i = n \/ log[e][i].sequence < log[e][n].sequence
    BY <1>1, <1>2, <2>1 DEF HInv, ExecutionHistory
  <2> QED
    BY <1>1, <1>2, <2>1, <2>2
<1>7. \A i \in DOMAIN log'[e] : log'[e][i].bundle = call[x].bundle
  <2> SUFFICES ASSUME NEW i \in DOMAIN log'[e] PROVE log'[e][i].bundle = call[x].bundle
    OBVIOUS
  <2>1. OldEntry(e, i) \/ NewEntry(x, state, step, e, i)
    BY <1>1, EntriesAfter
  <2> QED
    BY <1>5, <2>1 DEF OldEntry, NewEntry, NewCheckpoint
<1>8. CallsSeen'
  <2> SUFFICES ASSUME NEW y \in Executor, pc'[y] # "idle" PROVE Seen(y)'
    BY DEF CallsSeen
  <2>1. CASE y # x
    <3>1. call'[y] = call[y] /\ pc[y] # "idle" /\ Seen(y) /\ call[y].id \in Execution
      BY <2>1 DEF Writes, OthersKept, HInv, CallsSeen, TInv, CallTyped
    <3>2. CASE call[y].id # e
      <4>1. log'[call[y].id] = log[call[y].id]
        BY <1>1, <3>1, <3>2 DEF Appended
      <4> QED
        BY <3>1, <4>1, SeenKept DEF Seen
    <3>3. CASE call[y].id = e
      <4>1. call[y].sequence <= LastSequence(e)' /\ call[y].sequence \in Nat
        BY <1>2, <1>3, <1>4, <3>1, <3>3, CallFields DEF Seen, SeenBy
      <4> QED
        BY <1>1, <1>4, <3>1, <3>3, <4>1 DEF Seen, SeenBy
    <3> QED
      BY <3>2, <3>3
  <2>2. CASE y = x
    <3>1. call'[x].id = e /\ call'[x].bundle = call[x].bundle
      BY <1>1 DEF Writes, CallGoesOn
    <3>2. CASE call'[x].sequence = call[x].sequence
      BY <1>1, <1>4, <2>2, <3>1, <3>2 DEF Seen, SeenBy
    <3>3. CASE call'[x].sequence = call[x].sequence + 1 /\ state # "COMPLETED"
      <4>1. \A i \in DOMAIN log'[e] : log'[e][i].state # "COMPLETED"
        <5> SUFFICES ASSUME NEW i \in DOMAIN log'[e] PROVE log'[e][i].state # "COMPLETED"
          OBVIOUS
        <5>1. OldEntry(e, i) \/ NewEntry(x, state, step, e, i)
          BY <1>1, EntriesAfter
        <5> QED
          BY <1>5, <3>3, <5>1 DEF OldEntry, NewEntry, NewCheckpoint
      <4> QED
        BY <1>1, <1>4, <1>7, <2>2, <3>1, <3>3, <4>1 DEF Seen, SeenBy
    <3> QED
      BY <3>2, <3>3 DEF Writes
  <2> QED
    BY <2>1, <2>2
<1>9. ExecutionHistory'
  <2> SUFFICES ASSUME NEW f \in Execution, NEW i \in DOMAIN log'[f], NEW j \in DOMAIN log'[f]
               PROVE  /\ log'[f][i].bundle = log'[f][j].bundle
                      /\ i < j => /\ log'[f][i].sequence < log'[f][j].sequence
                                  /\ log'[f][i].state # "COMPLETED"
    BY DEF ExecutionHistory
  <2>1. CASE f # e
    <3>1. log'[f] = log[f]
      BY <1>1, <2>1 DEF Appended
    <3> QED
      BY <3>1 DEF HInv, ExecutionHistory
  <2>2. CASE f = e
    <3>1. log'[f][i].bundle = log'[f][j].bundle
      BY <1>7, <2>2
    <3>2. ASSUME i < j
          PROVE  log'[f][i].sequence < log'[f][j].sequence /\ log'[f][i].state # "COMPLETED"
      <4>1. OldEntry(f, i)
        <5>1. i \in 1..(n + 1) /\ j \in 1..(n + 1)
          BY <1>1, <2>2 DEF Appended
        <5>2. i \in 1..n
          BY <1>2, <3>2, <5>1
        <5> QED
          BY <1>1, <1>2, <2>2, <5>2 DEF OldEntry, Appended
      <4>2. OldEntry(f, j) \/ NewEntry(x, state, step, f, j)
        BY <1>1, EntriesAfter
      <4>3. CASE OldEntry(f, j)
        BY <3>2, <4>1, <4>3 DEF HInv, ExecutionHistory, OldEntry
      <4>4. CASE NewEntry(x, state, step, f, j)
        BY <1>5, <1>6, <2>2, <4>1, <4>4 DEF OldEntry, NewEntry, NewCheckpoint
      <4> QED
        BY <4>2, <4>3, <4>4
    <3> QED
      BY <3>1, <3>2
  <2> QED
    BY <2>1, <2>2
<1> QED
  BY <1>8, <1>9 DEF HInv

LEMMA HInit == MInit => HInv
  BY DEF MInit, HInv, CallsSeen, ExecutionHistory

LEMMA HStep == TInv /\ HInv /\ [MNext]_mvars => HInv'
<1> SUFFICES ASSUME TInv, HInv, [MNext]_mvars PROVE HInv'
  OBVIOUS
<1>1. log' = log => ExecutionHistory'
  BY DEF HInv, ExecutionHistory
<1>2. ASSUME log' = log, NEW y \in Executor, pc[y] # "idle", pc'[y] # "idle",
             call'[y].id = call[y].id, call'[y].bundle = call[y].bundle,
             call'[y].sequence = call[y].sequence
      PROVE  Seen(y)'
  BY <1>2 DEF HInv, CallsSeen, Seen, SeenBy, LastSequence
<1>3. ASSUME NEW x \in Executor, Quiet(x) PROVE HInv'
  <2>1. \A y \in Executor : pc'[y] # "idle" => Seen(y)'
    BY <1>2, <1>3 DEF Quiet, OthersKept, CallGoesOn
  <2> QED
    BY <1>1, <1>3, <2>1 DEF HInv, CallsSeen, Quiet
<1>4. ASSUME NEW x \in Executor, NEW state \in MigrationState, NEW step \in 0..Steps,
             Writes(x, state, step)
      PROVE  HInv'
  BY <1>4, SeenWritten
<1>5. ASSUME NEW x \in Executor, Release(x) \/ Crash(x) PROVE HInv'
  <2>1. OthersKept(x) /\ pc'[x] = "idle" /\ log' = log
    BY <1>5, EndEffect
  <2>2. \A y \in Executor : pc'[y] # "idle" => Seen(y)'
    BY <1>2, <2>1 DEF OthersKept
  <2> QED
    BY <1>1, <2>1, <2>2 DEF HInv, CallsSeen
<1>6. ASSUME NEW x \in Executor, NEW e \in Execution, NEW b \in Bundle, Start(x, e, b) PROVE HInv'
  <2>1. /\ OthersKept(x) /\ log' = log
        /\ \A i \in DOMAIN log[e] : log[e][i].bundle = b /\ log[e][i].state # "COMPLETED"
        /\ call'[x].id = e /\ call'[x].bundle = b /\ call'[x].sequence = LastSequence(e) + 1
    BY <1>6, StartEffect
  <2>2. Seen(x)'
    BY <2>1, LastSequenceTyped DEF Seen, SeenBy, LastSequence
  <2>3. \A y \in Executor : pc'[y] # "idle" => Seen(y)'
    BY <1>2, <2>1, <2>2 DEF OthersKept
  <2> QED
    BY <1>1, <2>1, <2>3 DEF HInv, CallsSeen
<1>7. ASSUME pc' = pc, call' = call, log' = log PROVE HInv'
  BY <1>1, <1>2, <1>7 DEF HInv, CallsSeen
<1> QED
  BY <1>3, <1>4, <1>5, <1>6, <1>7, RecorderSteps

(***************************************************************************)
(* The history of an execution is of one bundle, its sequences increase    *)
(* and nothing follows COMPLETED, whoever else runs the execution at the   *)
(* same time.                                                              *)
(***************************************************************************)
THEOREM HistoryKept == MSpec => []ExecutionHistory
<1>1. MInit => TInv /\ HInv
  BY TInit, HInit
<1>2. TInv /\ HInv /\ [MNext]_mvars => (TInv /\ HInv)'
  BY TStep, HStep
<1>3. HInv => ExecutionHistory
  BY DEF HInv
<1> QED
  BY <1>1, <1>2, <1>3, PTL DEF MSpec

--------------------------------------------------------------------------------
(* What has been applied.                                                  *)

\* What a call counts as applied is.
CallTrue(x) ==
    /\ \A i \in 1..Steps :
           i \in call[x].done \/ i < call[x].step => <<call[x].bundle, i>> \in applied
    /\ pc[x] = "applied" => <<call[x].bundle, call[x].step>> \in applied
    /\ pc[x] \in {"validate", "activating", "activate", "cutover", "post", "complete"} =>
           call[x].step > Steps

\* So is what the checkpoints list: what a resumed call may skip.
LogTrue ==
    \A e \in Execution : \A i \in DOMAIN log[e] :
        log[e][i].state = "APPLYING" => <<log[e][i].bundle, log[e][i].step>> \in applied

AInv == LogTrue /\ \A x \in Executor : pc[x] # "idle" => CallTrue(x)

LEMMA AInit == MInit => AInv
  BY DEF MInit, AInv, LogTrue

\* A step of x keeps it if what x records and counts is applied.
LEMMA TrueAfter ==
  ASSUME AInv, NEW x \in Executor, OthersKept(x), applied \subseteq applied', LogTrue',
         pc'[x] = "idle" \/ CallTrue(x)'
  PROVE  AInv'
<1> SUFFICES ASSUME NEW y \in Executor, pc'[y] # "idle" PROVE CallTrue(y)'
  BY DEF AInv
<1>1. CASE y = x
  BY <1>1
<1>2. CASE y # x
  BY <1>2 DEF AInv, OthersKept, CallTrue
<1> QED
  BY <1>1, <1>2

LEMMA AStep == TInv /\ AInv /\ [MNext]_mvars => AInv'
<1> SUFFICES ASSUME TInv, AInv, [MNext]_mvars PROVE AInv'
  OBVIOUS
<1>1. \A x \in Executor : pc[x] # "idle" =>
          CallTrue(x) /\ call[x].id \in Execution /\ call[x].step >= 1
  BY DEF AInv, TInv, CallTyped
<1>2. log' = log /\ applied \subseteq applied' => LogTrue'
  BY DEF AInv, LogTrue
<1>3. ASSUME NEW x \in Executor, Raises(x) PROVE AInv'
  BY <1>1, <1>2, <1>3, RaiseEffect, TrueAfter DEF CallKept, CallTrue, adapter
<1>4. ASSUME NEW x \in Executor, Inspect(x) PROVE AInv'
  BY <1>1, <1>2, <1>4, InspectEffect, TrueAfter DEF CallLearns, CallGoesOn, CallTrue, adapter
<1>5. ASSUME NEW x \in Executor, AcquireLock(x) PROVE AInv'
  BY <1>1, <1>2, <1>5, AcquireLockEffect, TrueAfter DEF CallLearns, CallGoesOn, CallTrue
<1>6. ASSUME NEW x \in Executor, SkipStep(x) PROVE AInv'
  <2>1. CallTrue(x)'
    <3>1. /\ call[x].step \in call[x].done /\ pc[x] = "steps" /\ pc'[x] = "steps"
          /\ call'[x].step = call[x].step + 1 /\ call'[x].done = call[x].done
          /\ call'[x].bundle = call[x].bundle /\ applied' = applied
      BY <1>6, SkipStepEffect DEF CallSkips, CallGoesOn, adapter
    <3>2. \A i \in 1..Steps : i < call[x].step + 1 => i < call[x].step \/ i = call[x].step
      BY CallFields
    <3> QED
      BY <1>1, <3>1, <3>2 DEF CallTrue
  <2> QED
    BY <1>2, <1>6, <2>1, SkipStepEffect, TrueAfter DEF adapter
<1>7. ASSUME NEW x \in Executor, ApplyStep(x) PROVE AInv'
  <2>1. CallTrue(x)'
    BY <1>1, <1>7, ApplyStepEffect DEF CallKept, CallTrue
  <2> QED
    BY <1>2, <1>7, <2>1, ApplyStepEffect, TrueAfter
<1>8. ASSUME NEW x \in Executor, CheckpointAction(x) PROVE AInv'
  <2> DEFINE Sound(to, state, step) ==
               /\ state = "APPLYING" => <<call[x].bundle, step>> \in applied
               /\ step > 0 => step = call[x].step /\ <<call[x].bundle, step>> \in applied
               /\ to \in {"validate", "activate"} => call[x].step > Steps
               /\ to \in {"steps", "fail", "validate", "activate"}
  <2>1. ASSUME NEW from \in Location \ {"idle"}, NEW to \in Location \ {"idle"},
               NEW state \in MigrationState, NEW step \in 0..Steps,
               Sound(to, state, step), Checkpoints(x, from, to, state, step)
        PROVE  AInv'
    <3>1. /\ OthersKept(x) /\ CallRecords(x, step) /\ pc[x] = from /\ pc'[x] = to
          /\ Appended(x, state, step) /\ applied' = applied
      BY <2>1, CheckpointsEffect DEF adapter
    <3>2. LogTrue'
      <4> SUFFICES ASSUME NEW f \in Execution, NEW i \in DOMAIN log'[f],
                          log'[f][i].state = "APPLYING"
                   PROVE  <<log'[f][i].bundle, log'[f][i].step>> \in applied'
        BY DEF LogTrue
      <4>1. OldEntry(f, i) \/ NewEntry(x, state, step, f, i)
        BY <1>1, <2>1, <3>1, EntriesAfter
      <4>2. CASE OldEntry(f, i)
        BY <3>1, <4>2 DEF AInv, LogTrue, OldEntry
      <4>3. CASE NewEntry(x, state, step, f, i)
        BY <2>1, <3>1, <4>3 DEF NewEntry, NewCheckpoint
      <4> QED
        BY <4>1, <4>2, <4>3
    <3>3. CallTrue(x)'
      <4>1. CallTrue(x) /\ call[x].step \in Nat /\ Steps \in Nat
        BY <1>1, <2>1, <3>1, CallFields
      <4>2. /\ call'[x].bundle = call[x].bundle /\ call'[x].done = call[x].done
            /\ call'[x].step = IF step > 0 THEN call[x].step + 1 ELSE call[x].step
        BY <3>1 DEF CallRecords, CallGoesOn
      <4>3. \A i \in 1..Steps : i < call'[x].step => i < call[x].step \/ (step > 0 /\ i = step)
        BY <2>1, <4>1, <4>2
      <4>4. to \in {"validate", "activate"} => call'[x].step > Steps
        BY <2>1, <4>1, <4>2
      <4> QED
        BY <2>1, <3>1, <4>1, <4>2, <4>3, <4>4 DEF CallTrue
    <3> QED
      BY <3>1, <3>2, <3>3, TrueAfter
  <2>2. 0 \in 0..Steps /\ ~(0 > 0)
    BY CallFields
  <2>3. CASE Checkpoints(x, "plan", "steps", "PLANNED", 0)
    <3>1. Sound("steps", "PLANNED", 0)
      BY <2>2
    <3> HIDE DEF Sound
    <3> QED
      BY <2>1, <2>2, <2>3, <3>1 DEF Location, MigrationState
  <2>4. CASE Checkpoints(x, "plan", "fail", "PLANNED", 0)
    <3>1. Sound("fail", "PLANNED", 0)
      BY <2>2
    <3> HIDE DEF Sound
    <3> QED
      BY <2>1, <2>2, <2>4, <3>1 DEF Location, MigrationState
  <2>5. CASE Checkpoints(x, "applied", "steps", "APPLYING", call[x].step)
    <3>1. call[x].step \in 0..Steps /\ Sound("steps", "APPLYING", call[x].step)
      BY <1>1, <2>5, CallFields DEF Checkpoints, CallTrue, TInv, CallTyped
    <3> HIDE DEF Sound
    <3> QED
      BY <2>1, <2>5, <3>1 DEF Location, MigrationState
  <2>6. CASE Checkpoints(x, "steps", "validate", "VALIDATING", 0) /\ call[x].step > Steps
    <3>1. Sound("validate", "VALIDATING", 0)
      BY <2>2, <2>6
    <3> HIDE DEF Sound
    <3> QED
      BY <2>1, <2>2, <2>6, <3>1 DEF Location, MigrationState
  <2>7. CASE Checkpoints(x, "activating", "activate", "ACTIVATING", 0)
    <3>1. Sound("activate", "ACTIVATING", 0)
      BY <1>1, <2>2, <2>7 DEF Checkpoints, CallTrue
    <3> HIDE DEF Sound
    <3> QED
      BY <2>1, <2>2, <2>7, <3>1 DEF Location, MigrationState
  <2> QED
    BY <1>8, <2>3, <2>4, <2>5, <2>6, <2>7, CheckpointActions
<1>9. ASSUME NEW x \in Executor, Moves(x) PROVE AInv'
  BY <1>1, <1>2, <1>9, MoveEffect, TrueAfter DEF CallKept, CallTrue, adapter
<1>10. ASSUME NEW x \in Executor, Activate(x) PROVE AInv'
  BY <1>1, <1>2, <1>10, ActivateEffect, TrueAfter DEF CallKept, CallTrue
<1>11. ASSUME NEW x \in Executor, Complete(x) \/ Fail(x) PROVE AInv'
  <2>1. CallTrue(x)'
    BY <1>1, <1>11, LastCheckpointEffect DEF CallKept, CallTrue, adapter
  <2>2. LogTrue'
    <3> SUFFICES ASSUME NEW f \in Execution, NEW i \in DOMAIN log'[f],
                        log'[f][i].state = "APPLYING"
                 PROVE  <<log'[f][i].bundle, log'[f][i].step>> \in applied'
      BY DEF LogTrue
    <3>1. applied' = applied
      BY <1>11, LastCheckpointEffect DEF adapter
    <3>2. CASE log' = log
      BY <3>1, <3>2 DEF AInv, LogTrue
    <3>3. ASSUME NEW state \in {"COMPLETED", "FAILED"}, Appended(x, state, 0)
          PROVE  <<log'[f][i].bundle, log'[f][i].step>> \in applied'
      <4>1. OldEntry(f, i) \/ NewEntry(x, state, 0, f, i)
        BY <1>1, <1>11, <3>3, LastCheckpointEffect, EntriesAfter
      <4>2. ~NewEntry(x, state, 0, f, i)
        BY <3>3 DEF NewEntry, NewCheckpoint
      <4> QED
        BY <3>1, <4>1, <4>2 DEF AInv, LogTrue, OldEntry
    <3> QED
      BY <1>11, <3>2, <3>3, LastCheckpointEffect
  <2> QED
    BY <1>11, <2>1, <2>2, LastCheckpointEffect, TrueAfter DEF adapter
<1>12. ASSUME NEW x \in Executor, Release(x) \/ Crash(x) PROVE AInv'
  BY <1>2, <1>12, EndEffect, TrueAfter
<1>13. ASSUME NEW x \in Executor, NEW e \in Execution, NEW b \in Bundle, Start(x, e, b) PROVE AInv'
  <2>1. CallTrue(x)'
    <3>1. /\ \A i \in DOMAIN log[e] : log[e][i].bundle = b
          /\ call'[x].bundle = b /\ call'[x].step = 1 /\ pc'[x] = "inspect"
          /\ \A k \in call'[x].done : \E i \in DOMAIN log[e] :
                 log[e][i].state = "APPLYING" /\ log[e][i].step = k
          /\ applied' = applied
      BY <1>13, StartEffect DEF adapter
    <3>2. \A k \in call'[x].done : <<b, k>> \in applied
      BY <3>1 DEF AInv, LogTrue
    <3>3. \A i \in 1..Steps : ~(i < 1)
      BY CallFields
    <3> QED
      BY <3>1, <3>2, <3>3 DEF CallTrue
  <2> QED
    BY <1>2, <1>13, <2>1, StartEffect, TrueAfter DEF adapter
<1>14. ASSUME (\E x \in Executor : Cancel(x)) \/ Tick \/ UNCHANGED mvars PROVE AInv'
  BY <1>2, <1>14, EnvironmentEffect DEF AInv, CallTrue, adapter
<1> QED
  BY <1>3, <1>4, <1>5, <1>6, <1>7, <1>8, <1>9, <1>10, <1>11, <1>12, <1>13, <1>14, MSteps

--------------------------------------------------------------------------------
(* The cutover.                                                            *)

Finishing(x) == pc[x] \in {"post", "complete"}

BeforeCutover ==
    /\ active = Source /\ generation = 0
    /\ \A x \in Executor : ~Finishing(x)
    /\ \A e \in Execution : ~Completed(e)

\* One call at most is about to complete, and only while no execution is complete.
AfterCutover ==
    /\ active \in Bundle /\ generation = 1
    /\ \A x, y \in Executor : Finishing(x) /\ Finishing(y) => x = y
    /\ \A x \in Executor : Finishing(x) =>
           call[x].bundle = active /\ \A e \in Execution : ~Completed(e)
    /\ \A e, f \in Execution : Completed(e) /\ Completed(f) => e = f
    /\ \A e \in Execution : \A i \in DOMAIN log[e] :
           log[e][i].state = "COMPLETED" => log[e][i].bundle = active

\* A call that may still activate has inspected the source schema.
ExpectsSource(x) ==
    pc[x] \notin {"idle", "inspect", "fail", "release"} => call[x].generation = 0

Announced(b) ==
    \E e \in Execution : \E i \in DOMAIN log[e] :
        log[e][i].state = "ACTIVATING" /\ log[e][i].bundle = b

HasAnnounced(x) == pc[x] \in {"activate", "cutover"} => Announced(call[x].bundle)

CInv ==
    /\ BeforeCutover \/ AfterCutover
    /\ \A x \in Executor : ExpectsSource(x) /\ HasAnnounced(x)
    /\ CutoverAnnounced
    /\ ActivatedFullyApplied

LEMMA CInit == MInit => CInv
<1> SUFFICES ASSUME MInit PROVE CInv
  OBVIOUS
<1>1. BeforeCutover
  BY DEF MInit, BeforeCutover, Finishing, Completed
<1> QED
  BY <1>1, NamesAssumption DEF MInit, CInv, ExpectsSource, HasAnnounced, CutoverAnnounced, ActivatedFullyApplied

\* Checkpoints stay; none but those of complete say COMPLETED.
LogGrows ==
    \A e \in Execution : \A i \in DOMAIN log[e] :
        i \in DOMAIN log'[e] /\ log'[e][i] = log[e][i]
NothingCompletes ==
    \A e \in Execution : \A i \in DOMAIN log'[e] :
        log'[e][i].state = "COMPLETED" => OldEntry(e, i)

LEMMA AppendedGrows ==
  ASSUME NEW x, NEW state, NEW step, Appended(x, state, step), call[x].id \in Execution
  PROVE  /\ LogGrows
         /\ state # "COMPLETED" => NothingCompletes
         /\ \E i \in DOMAIN log'[call[x].id] :
                log'[call[x].id][i] = NewCheckpoint(x, state, step)
<1>1. LogGrows
  <2> SUFFICES ASSUME NEW e \in Execution, NEW i \in DOMAIN log[e]
               PROVE  i \in DOMAIN log'[e] /\ log'[e][i] = log[e][i]
    BY DEF LogGrows
  <2>1. CASE e # call[x].id
    BY <2>1 DEF Appended
  <2>2. CASE e = call[x].id
    <3>1. PICK n \in Nat : /\ DOMAIN log[e] = 1..n /\ DOMAIN log'[e] = 1..(n + 1)
                           /\ \A j \in 1..n : log'[e][j] = log[e][j]
      BY <2>2 DEF Appended
    <3>2. i \in 1..n /\ i \in 1..(n + 1)
      BY <3>1
    <3> QED
      BY <3>1, <3>2
  <2> QED
    BY <2>1, <2>2
<1>2. ASSUME state # "COMPLETED" PROVE NothingCompletes
  <2> SUFFICES ASSUME NEW e \in Execution, NEW i \in DOMAIN log'[e],
                      log'[e][i].state = "COMPLETED"
               PROVE  OldEntry(e, i)
    BY DEF NothingCompletes
  <2>1. OldEntry(e, i) \/ NewEntry(x, state, step, e, i)
    BY EntriesAfter
  <2> QED
    BY <1>2, <2>1 DEF NewEntry, NewCheckpoint
<1>3. Len(log[call[x].id]) + 1 \in DOMAIN log'[call[x].id]
  BY DEF Appended
<1> QED
  BY <1>1, <1>2, <1>3 DEF Appended

\* A step of x that neither activates a schema nor completes an execution.
Ordinary(x) ==
    /\ OthersKept(x) /\ active' = active /\ generation' = generation
    /\ applied \subseteq applied' /\ LogGrows /\ NothingCompletes
    /\ Finishing(x)' => Finishing(x) /\ call'[x] = call[x]
    /\ ExpectsSource(x)' /\ HasAnnounced(x)'

LEMMA OrdinaryKeeps ==
  ASSUME CInv, NEW x \in Executor, Ordinary(x)
  PROVE  CInv'
<1>1. \A b : Announced(b) => Announced(b)'
  BY DEF Ordinary, LogGrows, Announced
<1>2. \A e \in Execution : Completed(e)' => Completed(e)
  BY DEF Ordinary, NothingCompletes, OldEntry, Completed
<1>3. \A y \in Executor : Finishing(y)' => Finishing(y) /\ call'[y] = call[y]
  BY DEF Ordinary, OthersKept, Finishing
<1>4. ASSUME BeforeCutover PROVE BeforeCutover'
  BY <1>2, <1>3, <1>4 DEF BeforeCutover, Ordinary
<1>5. ASSUME AfterCutover PROVE AfterCutover'
  <2>1. \A e \in Execution : \A i \in DOMAIN log'[e] :
            log'[e][i].state = "COMPLETED" => log'[e][i].bundle = active'
    BY <1>5 DEF AfterCutover, Ordinary, NothingCompletes, OldEntry
  <2> QED
    BY <1>2, <1>3, <1>5, <2>1 DEF AfterCutover, Ordinary
<1>6. \A y \in Executor : ExpectsSource(y)' /\ HasAnnounced(y)'
  <2> SUFFICES ASSUME NEW y \in Executor, y # x PROVE ExpectsSource(y)' /\ HasAnnounced(y)'
    BY DEF Ordinary
  <2>1. pc'[y] = pc[y] /\ call'[y] = call[y] /\ ExpectsSource(y) /\ HasAnnounced(y)
    BY DEF Ordinary, OthersKept, CInv
  <2> QED
    BY <1>1, <2>1 DEF ExpectsSource, HasAnnounced
<1>7. CutoverAnnounced'
  BY <1>1 DEF CInv, CutoverAnnounced, Announced, Ordinary
<1>8. ActivatedFullyApplied'
  BY DEF CInv, ActivatedFullyApplied, Ordinary
<1>9. BeforeCutover' \/ AfterCutover'
  BY <1>4, <1>5 DEF CInv
<1> QED
  BY <1>6, <1>7, <1>8, <1>9 DEF CInv

LEMMA UnchangedLog ==
  ASSUME log' = log
  PROVE  LogGrows /\ NothingCompletes
  BY DEF LogGrows, NothingCompletes, OldEntry

\* Every step but an activation and the COMPLETED checkpoint is ordinary.
LEMMA OrdinarySteps ==
  ASSUME TInv, CInv, NEW x \in Executor,
         \/ Raises(x) \/ Inspect(x) \/ AcquireLock(x) \/ SkipStep(x) \/ ApplyStep(x)
         \/ CheckpointAction(x) \/ Moves(x) \/ Fail(x)
         \/ Release(x) \/ Crash(x)
         \/ \E e \in Execution, b \in Bundle : Start(x, e, b)
  PROVE  Ordinary(x)
<1>1. ExpectsSource(x) /\ HasAnnounced(x)
  BY DEF CInv
<1>2. pc[x] # "idle" => call[x].id \in Execution
  BY DEF TInv, CallTyped
<1>3. CASE Raises(x)
  BY <1>3, RaiseEffect, UnchangedLog
  DEF Ordinary, CallKept, Finishing, ExpectsSource, HasAnnounced, adapter
<1>4. CASE Inspect(x)
  <2>1. active = Source => generation = 0
    BY NamesAssumption DEF CInv, BeforeCutover, AfterCutover
  <2> QED
    BY <1>4, <2>1, InspectEffect, UnchangedLog
    DEF Ordinary, Finishing, ExpectsSource, HasAnnounced, adapter
<1>5. CASE AcquireLock(x)
  BY <1>1, <1>5, AcquireLockEffect, UnchangedLog
  DEF Ordinary, Finishing, ExpectsSource, HasAnnounced
<1>6. CASE SkipStep(x)
  BY <1>1, <1>6, SkipStepEffect, UnchangedLog
  DEF Ordinary, CallSkips, Finishing, ExpectsSource, HasAnnounced, adapter
<1>7. CASE ApplyStep(x)
  BY <1>1, <1>7, ApplyStepEffect, UnchangedLog
  DEF Ordinary, CallKept, Finishing, ExpectsSource, HasAnnounced
<1>8. CASE CheckpointAction(x)
  <2>1. ASSUME NEW from \in Location \ {"idle", "inspect", "fail", "release"},
               NEW to \in {"steps", "fail", "validate", "activate"},
               NEW state \in MigrationState, NEW step \in 0..Steps, state # "COMPLETED",
               to = "activate" => state = "ACTIVATING",
               Checkpoints(x, from, to, state, step)
        PROVE  Ordinary(x)
    <3>1. /\ OthersKept(x) /\ CallRecords(x, step) /\ pc[x] = from /\ pc'[x] = to
          /\ Appended(x, state, step) /\ UNCHANGED adapter
      BY <2>1, CheckpointsEffect DEF Location
    <3>2. LogGrows /\ NothingCompletes
      BY <1>2, <2>1, <3>1, AppendedGrows
    <3>3. HasAnnounced(x)'
      <4>1. PICK i \in DOMAIN log'[call[x].id] :
                log'[call[x].id][i] = NewCheckpoint(x, state, step)
        BY <1>2, <2>1, <3>1, AppendedGrows
      <4>2. call'[x].bundle = call[x].bundle /\ call[x].id \in Execution
        BY <1>2, <2>1, <3>1 DEF CallRecords, CallGoesOn
      <4> QED
        BY <2>1, <3>1, <4>1, <4>2 DEF HasAnnounced, Announced, NewCheckpoint
    <3>4. ExpectsSource(x)'
      BY <1>1, <2>1, <3>1 DEF ExpectsSource, CallRecords
    <3> QED
      BY <2>1, <3>1, <3>2, <3>3, <3>4 DEF Ordinary, Finishing, adapter
  <2>2. 0 \in 0..Steps /\ (pc[x] = "applied" => call[x].step \in 0..Steps)
    BY CallFields DEF TInv, CallTyped
  <2>3. CASE Checkpoints(x, "plan", "steps", "PLANNED", 0)
    BY <2>1, <2>2, <2>3 DEF Location, MigrationState
  <2>4. CASE Checkpoints(x, "plan", "fail", "PLANNED", 0)
    BY <2>1, <2>2, <2>4 DEF Location, MigrationState
  <2>5. CASE Checkpoints(x, "applied", "steps", "APPLYING", call[x].step)
    <3>1. call[x].step \in 0..Steps
      BY <2>2, <2>5 DEF Checkpoints
    <3> QED
      BY <2>1, <2>5, <3>1 DEF Location, MigrationState
  <2>6. CASE Checkpoints(x, "steps", "validate", "VALIDATING", 0)
    BY <2>1, <2>2, <2>6 DEF Location, MigrationState
  <2>7. CASE Checkpoints(x, "activating", "activate", "ACTIVATING", 0)
    BY <2>1, <2>2, <2>7 DEF Location, MigrationState
  <2> QED
    BY <1>8, <2>3, <2>4, <2>5, <2>6, <2>7, CheckpointActions
<1>9. CASE Moves(x)
  BY <1>1, <1>9, MoveEffect, UnchangedLog
  DEF Ordinary, CallKept, Finishing, ExpectsSource, HasAnnounced, Announced, adapter
<1>10. CASE Fail(x)
  <2>1. LogGrows /\ NothingCompletes /\ pc[x] = "fail"
    <3>1. CASE log' = log
      BY <1>10, <3>1, UnchangedLog DEF Fail
    <3>2. CASE log' # log
      <4>1. Appended(x, "FAILED", 0) /\ pc[x] = "fail"
        BY <1>10, <3>2, LastCheckpointEffect DEF Fail
      <4> QED
        BY <1>2, <4>1, AppendedGrows
    <3> QED
      BY <3>1, <3>2
  <2> QED
    BY <1>10, <2>1, LastCheckpointEffect
    DEF Ordinary, Finishing, ExpectsSource, HasAnnounced, adapter
<1>11. CASE Release(x) \/ Crash(x)
  BY <1>11, EndEffect, UnchangedLog DEF Ordinary, Finishing, ExpectsSource, HasAnnounced
<1>12. ASSUME NEW e \in Execution, NEW b \in Bundle, Start(x, e, b) PROVE Ordinary(x)
  BY <1>12, StartEffect, UnchangedLog
  DEF Ordinary, Finishing, ExpectsSource, HasAnnounced, adapter
<1> QED
  BY <1>3, <1>4, <1>5, <1>6, <1>7, <1>8, <1>9, <1>10, <1>11, <1>12

LEMMA ActivateKeeps ==
  ASSUME TInv, AInv, CInv, NEW x \in Executor, Activate(x)
  PROVE  CInv'
<1>1. /\ OthersKept(x) /\ call'[x] = call[x] /\ pc[x] = "cutover"
      /\ pc'[x] \in {"post", "fail"} /\ log' = log /\ applied' = applied
  BY ActivateEffect DEF CallKept
<1>2. CASE generation # call[x].generation
  <2>1. Ordinary(x)
    BY <1>1, <1>2, ActivateEffect, UnchangedLog
    DEF Ordinary, Finishing, ExpectsSource, HasAnnounced
  <2> QED
    BY <2>1, OrdinaryKeeps
<1>3. CASE ~(active' = call[x].bundle /\ generation' = generation + 1)
  <2>1. Ordinary(x)
    BY <1>1, <1>3, ActivateEffect, UnchangedLog
    DEF Ordinary, Finishing, ExpectsSource, HasAnnounced
  <2> QED
    BY <2>1, OrdinaryKeeps
<1>4. CASE /\ generation = call[x].generation
           /\ active' = call[x].bundle /\ generation' = generation + 1
  <2>1. generation = 0 /\ Announced(call[x].bundle) /\ BeforeCutover
    BY <1>1, <1>4 DEF CInv, ExpectsSource, HasAnnounced, BeforeCutover, AfterCutover
  <2>2. /\ call[x].bundle \in Bundle
        /\ \A i \in 1..Steps : <<call[x].bundle, i>> \in applied
    <3>1. CallTrue(x) /\ call[x].bundle \in Bundle
      BY <1>1 DEF AInv, TInv, CallTyped
    <3>2. \A i \in 1..Steps : i < call[x].step
      BY <1>1, <3>1, CallFields DEF CallTrue
    <3> QED
      BY <3>1, <3>2 DEF CallTrue
  <2>3. \A e \in Execution : ~Completed(e)'
    BY <1>1, <2>1 DEF BeforeCutover, Completed
  <2>4. \A y \in Executor : Finishing(y)' => y = x
    BY <1>1, <2>1 DEF BeforeCutover, Finishing, OthersKept
  <2>5. AfterCutover'
    <3>1. \A e \in Execution : \A i \in DOMAIN log'[e] : log'[e][i].state # "COMPLETED"
      BY <2>3 DEF Completed
    <3>2. generation' = 1 /\ active' \in Bundle
      BY <1>4, <2>1, <2>2
    <3> QED
      BY <1>1, <1>4, <2>3, <2>4, <3>1, <3>2 DEF AfterCutover
  <2>6. \A y \in Executor : ExpectsSource(y)' /\ HasAnnounced(y)'
    <3> SUFFICES ASSUME NEW y \in Executor PROVE ExpectsSource(y)' /\ HasAnnounced(y)'
      OBVIOUS
    <3>1. ExpectsSource(y) /\ HasAnnounced(y) /\ call'[y] = call[y]
      BY <1>1 DEF CInv, OthersKept
    <3>2. pc'[y] = pc[y] \/ y = x
      BY <1>1 DEF OthersKept
    <3>3. CASE pc'[y] = pc[y]
      BY <1>1, <3>1, <3>3 DEF ExpectsSource, HasAnnounced, Announced
    <3>4. CASE y = x
      BY <1>1, <3>1, <3>4 DEF ExpectsSource, HasAnnounced
    <3> QED
      BY <3>2, <3>3, <3>4
  <2>7. CutoverAnnounced'
    BY <1>1, <1>4, <2>1 DEF CutoverAnnounced, Announced
  <2>8. ActivatedFullyApplied'
    BY <1>1, <1>4, <2>2 DEF ActivatedFullyApplied
  <2> QED
    BY <2>5, <2>6, <2>7, <2>8 DEF CInv
<1> QED
  BY <1>2, <1>3, <1>4

LEMMA CompleteKeeps ==
  ASSUME TInv, CInv, NEW x \in Executor, Complete(x)
  PROVE  CInv'
<1>1. /\ OthersKept(x) /\ call'[x] = call[x] /\ pc[x] = "complete"
      /\ pc'[x] \in {"fail", "release"} /\ Appended(x, "COMPLETED", 0)
      /\ active' = active /\ generation' = generation /\ applied' = applied
  BY LastCheckpointEffect DEF CallKept, Complete, adapter
<1>2. call[x].id \in Execution /\ LogGrows
  BY <1>1, AppendedGrows DEF TInv, CallTyped
<1>3. Finishing(x) /\ AfterCutover
  BY <1>1 DEF CInv, BeforeCutover, Finishing
<1>4. call[x].bundle = active /\ \A e \in Execution : ~Completed(e)
  BY <1>3 DEF AfterCutover
<1>5. \A e \in Execution : \A i \in DOMAIN log'[e] :
          log'[e][i].state = "COMPLETED" => e = call[x].id /\ log'[e][i].bundle = active
  <2> SUFFICES ASSUME NEW e \in Execution, NEW i \in DOMAIN log'[e],
                      log'[e][i].state = "COMPLETED"
               PROVE  e = call[x].id /\ log'[e][i].bundle = active
    OBVIOUS
  <2>1. OldEntry(e, i) \/ NewEntry(x, "COMPLETED", 0, e, i)
    BY <1>1, <1>2, EntriesAfter
  <2>2. ~OldEntry(e, i)
    BY <1>4 DEF OldEntry, Completed
  <2> QED
    BY <1>4, <2>1, <2>2 DEF NewEntry, NewCheckpoint
<1>6. \A e \in Execution : Completed(e)' => e = call[x].id
  BY <1>5 DEF Completed
<1>7. \A y \in Executor : ~Finishing(y)'
  <2> SUFFICES ASSUME NEW y \in Executor, Finishing(y)' PROVE FALSE
    OBVIOUS
  <2>1. y # x
    BY <1>1 DEF Finishing
  <2>2. Finishing(y)
    BY <1>1, <2>1 DEF OthersKept, Finishing
  <2> QED
    BY <1>3, <2>1, <2>2 DEF AfterCutover
<1>8. AfterCutover'
  BY <1>1, <1>3, <1>5, <1>6, <1>7 DEF AfterCutover
<1>9. \A y \in Executor : ExpectsSource(y)' /\ HasAnnounced(y)'
  <2> SUFFICES ASSUME NEW y \in Executor PROVE ExpectsSource(y)' /\ HasAnnounced(y)'
    OBVIOUS
  <2>1. CASE y = x
    BY <1>1, <2>1 DEF ExpectsSource, HasAnnounced
  <2>2. CASE y # x
    <3>1. pc'[y] = pc[y] /\ call'[y] = call[y] /\ ExpectsSource(y) /\ HasAnnounced(y)
      BY <1>1, <2>2 DEF OthersKept, CInv
    <3> QED
      BY <1>2, <3>1 DEF ExpectsSource, HasAnnounced, Announced, LogGrows
  <2> QED
    BY <2>1, <2>2
<1>10. CutoverAnnounced' /\ ActivatedFullyApplied'
  BY <1>1, <1>2 DEF CInv, CutoverAnnounced, ActivatedFullyApplied, LogGrows
<1> QED
  BY <1>8, <1>9, <1>10 DEF CInv

LEMMA CStep == TInv /\ AInv /\ CInv /\ [MNext]_mvars => CInv'
<1> SUFFICES ASSUME TInv, AInv, CInv, [MNext]_mvars PROVE CInv'
  OBVIOUS
<1>1. ASSUME NEW x \in Executor,
             \/ Raises(x) \/ Inspect(x) \/ AcquireLock(x) \/ SkipStep(x) \/ ApplyStep(x)
             \/ CheckpointAction(x) \/ Moves(x) \/ Fail(x)
             \/ Release(x) \/ Crash(x)
             \/ \E e \in Execution, b \in Bundle : Start(x, e, b)
      PROVE  CInv'
  BY <1>1, OrdinarySteps, OrdinaryKeeps
<1>2. ASSUME NEW x \in Executor, Activate(x) PROVE CInv'
  BY <1>2, ActivateKeeps
<1>3. ASSUME NEW x \in Executor, Complete(x) PROVE CInv'
  BY <1>3, CompleteKeeps
<1>4. ASSUME (\E x \in Executor : Cancel(x)) \/ Tick \/ UNCHANGED mvars PROVE CInv'
  <2>1. /\ pc' = pc /\ call' = call /\ log' = log
        /\ active' = active /\ generation' = generation /\ applied' = applied
    BY <1>4, EnvironmentEffect DEF adapter
  <2> QED
    BY <2>1 DEF CInv, BeforeCutover, AfterCutover, Finishing, Completed, ExpectsSource,
                HasAnnounced, Announced, CutoverAnnounced, ActivatedFullyApplied
<1> QED
  BY <1>1, <1>2, <1>3, <1>4, MSteps

--------------------------------------------------------------------------------
LEMMA MigrationInvariant == MSpec => [](TInv /\ HInv /\ AInv /\ CInv)
<1>1. MInit => TInv /\ HInv /\ AInv /\ CInv
  BY TInit, HInit, AInit, CInit
<1>2. TInv /\ HInv /\ AInv /\ CInv /\ [MNext]_mvars => (TInv /\ HInv /\ AInv /\ CInv)'
  BY TStep, HStep, AStep, CStep
<1> QED
  BY <1>1, <1>2, PTL DEF MSpec

(***************************************************************************)
(* A schema is active only when every step of its bundle has taken effect, *)
(* whatever a resumed execution skips and wherever jobs die.               *)
(***************************************************************************)
THEOREM ActivationSound == MSpec => []ActivatedFullyApplied
<1>1. CInv => ActivatedFullyApplied
  BY DEF CInv
<1> QED
  BY <1>1, MigrationInvariant, PTL

(***************************************************************************)
(* Executors that start from one source schema cut over once, and only the *)
(* execution of the one that did is ever COMPLETED.                        *)
(***************************************************************************)
THEOREM CutoverOnce == MSpec => []OneCutover
<1>1. TInv /\ HInv /\ CInv => OneCutover
  <2> SUFFICES ASSUME TInv, HInv, CInv PROVE OneCutover
    OBVIOUS
  <2>1. generation <= 1
    BY DEF CInv, BeforeCutover, AfterCutover
  <2>2. \A e, f \in Execution : Completed(e) /\ Completed(f) => e = f
    BY DEF CInv, BeforeCutover, AfterCutover
  <2>3. ASSUME NEW e \in Execution, Completed(e) PROVE log[e][1].bundle = active
    <3>1. PICK i \in DOMAIN log[e] : log[e][i].state = "COMPLETED"
      BY <2>3 DEF Completed
    <3>2. log[e][i].bundle = active
      BY <2>3, <3>1 DEF CInv, BeforeCutover, AfterCutover
    <3>3. 1 \in DOMAIN log[e]
      BY <3>1, LastSequenceTyped
    <3> QED
      BY <3>1, <3>2, <3>3 DEF HInv, ExecutionHistory
  <2> QED
    BY <2>1, <2>2, <2>3 DEF OneCutover
<1> QED
  BY <1>1, MigrationInvariant, PTL

(***************************************************************************)
(* The history shows ACTIVATING for the schema that is active, wherever    *)
(* the job that activated it died or failed.                               *)
(***************************************************************************)
THEOREM AnnouncedFirst == MSpec => []CutoverAnnounced
<1>1. CInv => CutoverAnnounced
  BY DEF CInv
<1> QED
  BY <1>1, MigrationInvariant, PTL
================================================================================
