--------------------------- MODULE RebuildCoordinator ---------------------------
(***************************************************************************)
(* RebuildCoordinator.rebuild: jobs that each build a new generation of a  *)
(* projection's target next to the active one and cut over to it, several  *)
(* of them possibly at once.                                               *)
(*                                                                         *)
(* The hooks belong to an adapter outside the package.  A scan returns the *)
(* rows up to a boundary, the tail what was committed since, and a         *)
(* validation counts both sides as they are.  The adapter is asked to      *)
(* activate over an expected previous generation only; one that activates  *)
(* all the same reports which generation it replaced.  Every hook may      *)
(* raise, before or after it has taken effect, and a job may die between   *)
(* any two calls.  Rows are numbered in the order of their commit, so the  *)
(* contents of a generation are a number.                                  *)
(*                                                                         *)
(* A definition called Faulty... is the definition after it with a bug in  *)
(* it.  No specification uses one: each shows that a property can fail.    *)
(***************************************************************************)
EXTENDS Integers, FiniteSets

CONSTANTS
    Job,            \* calls of rebuild that may run at the same time
    BatchSize,      \* batch_size of the plan
    MaxRows,        \* bound on the rows of the source
    MaxGenerations, \* bound on the generations created
    MaxFaults,      \* bound on hooks that raise or misbehave
    MaxCrashes      \* bound on crashes

ASSUME RebuildAssumption ==
    /\ BatchSize \in Nat \ {0}
    /\ MaxRows \in Nat /\ MaxGenerations \in Nat /\ MaxFaults \in Nat /\ MaxCrashes \in Nat

Generation == 0..MaxGenerations

VARIABLES
    source,    \* rows committed to the source
    created,   \* adapter: the generations that exist or have existed
    parent,    \* adapter: the generation that each was created to replace
    rows,      \* adapter: the rows of each generation
    active,    \* adapter: the active generation
    retained,  \* adapter: generations kept for a rollback
    discarded, \* adapter: generations that were discarded
    evidence,  \* the sink: the COMPLETED record of each generation cut over to
    pc,        \* where each job is
    call,      \* local variables of each job
    cancelled, \* cancellation tokens
    faults, crashes \* what is left of the bounds

bvars == <<source, created, parent, rows, active, retained, discarded, evidence, pc,
           call, cancelled, faults, crashes>>
adapter == <<created, parent, rows, active, retained, discarded>>
rest    == <<source, evidence, crashes>>

Location == {"idle", "create", "scan", "tail", "validate", "activate", "retain",
             "record", "discard"}

\* boundary: rows at capture_boundary; final: final_boundary of the tail.
Call == [boundary : Nat, generation : Generation, scanned : Nat, final : Nat]

NoCall == [boundary |-> 0, generation |-> 0, scanned |-> 0, final |-> 0]

RebuildEvidence == [generation : Generation, previous : Generation, boundary : Nat]

BTypeOK ==
    /\ source \in 0..MaxRows
    /\ created \in SUBSET Generation
    /\ parent \in [Generation -> Generation]
    /\ rows \in [Generation -> 0..MaxRows]
    /\ active \in created
    /\ retained \subseteq created /\ discarded \subseteq created
    /\ evidence \subseteq RebuildEvidence
    /\ pc \in [Job -> Location]
    /\ call \in [Job -> Call]
    /\ cancelled \in [Job -> BOOLEAN]
    /\ faults \in Nat /\ crashes \in Nat

BInit ==
    /\ source \in 0..MaxRows
    /\ created = {0}
    /\ parent = [g \in Generation |-> 0]
    /\ rows = [g \in Generation |-> IF g = 0 THEN source ELSE 0]
    /\ active = 0
    /\ retained = {} /\ discarded = {} /\ evidence = {}
    /\ pc = [x \in Job |-> "idle"]
    /\ call = [x \in Job |-> NoCall]
    /\ cancelled = [x \in Job |-> FALSE]
    /\ faults = MaxFaults
    /\ crashes = MaxCrashes

--------------------------------------------------------------------------------
Goto(x, location) == pc' = [pc EXCEPT ![x] = location]

Fault == faults > 0 /\ faults' = faults - 1

\* The end of the call, whether it returns or raises.
End(x) ==
    /\ Goto(x, "idle")
    /\ call' = [call EXCEPT ![x] = NoCall]
    /\ cancelled' = [cancelled EXCEPT ![x] = FALSE]

Previous(x) == parent[call[x].generation]

\* raise_if_cancelled, of a token that is not cancelled yet, and capture_boundary.
CaptureBoundary(x) ==
    /\ pc[x] = "idle"
    /\ Cardinality(created) + Cardinality({y \in Job : pc[y] = "create"}) <= MaxGenerations
    /\ call' = [call EXCEPT ![x].boundary = source]
    /\ Goto(x, "create")
    /\ UNCHANGED <<adapter, rest, cancelled, faults>>

\* Before the try block: a generation created by a hook that raises is nobody's to discard.
CreateGeneration(x) ==
    /\ pc[x] = "create"
    /\ \/ LET g == Cardinality(created) IN
             /\ created' = created \cup {g}
             /\ parent' = [parent EXCEPT ![g] = active]
             /\ \/ /\ call' = [call EXCEPT ![x].generation = g]
                   /\ Goto(x, "scan")
                   /\ UNCHANGED <<cancelled, faults>>
                \/ End(x) /\ Fault
       \/ End(x) /\ Fault /\ UNCHANGED <<created, parent>>
    /\ UNCHANGED <<rows, active, retained, discarded, rest>>

FaultyWriteBatch(x) ==  \* scans on beyond the boundary
    /\ pc[x] = "scan" /\ ~cancelled[x]
    /\ \E size \in 1..BatchSize :
          /\ call' = [call EXCEPT ![x].scanned = @ + size]
          /\ rows' = [rows EXCEPT ![call[x].generation] = call[x].scanned + size]
    /\ UNCHANGED <<created, parent, active, retained, discarded, pc, rest, cancelled, faults>>

\* One batch of the scan is written to the new generation.
WriteBatch(x) ==
    /\ pc[x] = "scan" /\ ~cancelled[x]
    /\ \E size \in 1..BatchSize :
          /\ call[x].scanned + size <= call[x].boundary
          /\ call' = [call EXCEPT ![x].scanned = @ + size]
          /\ rows' = [rows EXCEPT ![call[x].generation] = call[x].scanned + size]
    /\ UNCHANGED <<created, parent, active, retained, discarded, pc, rest, cancelled, faults>>

ScanEnds(x) ==
    /\ pc[x] = "scan" /\ ~cancelled[x] /\ call[x].scanned = call[x].boundary
    /\ Goto(x, "tail")
    /\ UNCHANGED <<adapter, call, rest, cancelled, faults>>

Tail(x) ==
    /\ pc[x] = "tail"
    /\ call' = [call EXCEPT ![x].final = source]
    /\ rows' = [rows EXCEPT ![call[x].generation] = source]
    /\ Goto(x, "validate")
    /\ UNCHANGED <<created, parent, active, retained, discarded, rest, cancelled, faults>>

\* The counts must agree as well, so a row committed since the tail fails it.
Validate(x) ==
    /\ pc[x] = "validate" /\ ~cancelled[x]
    /\ Goto(x, IF source = rows[call[x].generation] THEN "activate" ELSE "discard")
    /\ UNCHANGED <<adapter, call, rest, cancelled, faults>>

FaultyGiveUp(x) ==  \* no finally clause
    /\ \/ pc[x] \in {"scan", "validate"} /\ cancelled[x] /\ UNCHANGED faults
       \/ pc[x] \in {"scan", "tail", "validate"} /\ Fault
    /\ End(x)
    /\ UNCHANGED <<adapter, rest>>

\* Before activation: cancellation, a failing hook, an oversized batch, a failed validation.
GiveUp(x) ==
    /\ \/ pc[x] \in {"scan", "validate"} /\ cancelled[x] /\ UNCHANGED faults
       \/ pc[x] \in {"scan", "tail", "validate"} /\ Fault
    /\ Goto(x, "discard")
    /\ UNCHANGED <<adapter, call, cancelled, rest>>

\* The finally clause, when no activation was attempted; discard may raise too.
Discard(x) ==
    /\ pc[x] = "discard"
    /\ \/ discarded' = discarded \cup {call[x].generation} /\ UNCHANGED faults
       \/ UNCHANGED discarded /\ Fault
    /\ End(x)
    /\ UNCHANGED <<created, parent, rows, active, retained, rest>>

(***************************************************************************)
(* activation_attempted is set before the hook is called: from here on the *)
(* generation may be active, whatever the hook answers.  A hook that       *)
(* replaced another generation than the expected one is found out by what  *)
(* it reports.                                                             *)
(***************************************************************************)
FaultyActivate(x) ==  \* activation_attempted is set after the call
    /\ pc[x] = "activate"
    /\ \/ /\ active = Previous(x)
          /\ active' = call[x].generation
          /\ \/ Goto(x, "retain") /\ UNCHANGED faults
             \/ Goto(x, "discard") /\ Fault
       \/ /\ active # Previous(x)
          /\ Goto(x, "discard")
          /\ UNCHANGED <<active, faults>>
    /\ UNCHANGED <<created, parent, rows, retained, discarded, call, cancelled, rest>>

FaultyReport(x) ==  \* what was replaced is not compared with what was expected
    /\ pc[x] = "activate"
    /\ active' = call[x].generation
    /\ Goto(x, "retain")
    /\ UNCHANGED <<created, parent, rows, retained, discarded, call, cancelled, rest, faults>>

Activate(x) ==
    /\ pc[x] = "activate"
    /\ \/ /\ active = Previous(x)
          /\ active' = call[x].generation
          /\ \/ Goto(x, "retain") /\ UNCHANGED <<call, cancelled, faults>>
             \/ End(x) /\ Fault
       \/ /\ active = Previous(x) /\ Fault
          /\ End(x)
          /\ UNCHANGED active
       \/ /\ active # Previous(x) /\ Fault
          /\ active' = call[x].generation
          /\ End(x)
       \/ /\ active # Previous(x)
          /\ End(x)
          /\ UNCHANGED <<active, faults>>
    /\ UNCHANGED <<created, parent, rows, retained, discarded, rest>>

Retain(x) ==
    /\ pc[x] = "retain"
    /\ \/ /\ retained' = retained \cup {Previous(x)}
          /\ Goto(x, "record")
          /\ UNCHANGED <<call, cancelled, faults>>
       \/ /\ retained' \in {retained, retained \cup {Previous(x)}}
          /\ End(x) /\ Fault
    /\ UNCHANGED <<created, parent, rows, active, discarded, rest>>

Record(x) ==
    /\ pc[x] = "record"
    /\ \/ /\ evidence' = evidence \cup
                {[generation |-> call[x].generation, previous |-> Previous(x),
                  boundary |-> call[x].final]}
          /\ UNCHANGED faults
       \/ Fault /\ UNCHANGED evidence
    /\ End(x)
    /\ UNCHANGED <<adapter, source, crashes>>

--------------------------------------------------------------------------------
Cancel(x) ==
    /\ pc[x] # "idle" /\ ~cancelled[x]
    /\ cancelled' = [cancelled EXCEPT ![x] = TRUE]
    /\ UNCHANGED <<adapter, source, evidence, pc, call, faults, crashes>>

Crash(x) ==
    /\ pc[x] # "idle"
    /\ crashes > 0 /\ crashes' = crashes - 1
    /\ End(x)
    /\ UNCHANGED <<adapter, source, evidence, faults>>

Commit ==
    /\ source < MaxRows
    /\ source' = source + 1
    /\ UNCHANGED <<adapter, evidence, pc, call, cancelled, faults, crashes>>

JobStep(x) ==
    \/ CreateGeneration(x)
    \/ WriteBatch(x)
    \/ ScanEnds(x)
    \/ Tail(x)
    \/ Validate(x)
    \/ GiveUp(x)
    \/ Discard(x)
    \/ Activate(x)
    \/ Retain(x)
    \/ Record(x)

BNext ==
    \/ \E x \in Job : JobStep(x) \/ CaptureBoundary(x) \/ Cancel(x) \/ Crash(x)
    \/ Commit

BSpec == BInit /\ [][BNext]_bvars

--------------------------------------------------------------------------------
(***************************************************************************)
(* A generation that serves reads, or is kept for a rollback on record, is *)
(* never discarded: a job that cannot know whether its activation took     *)
(* effect leaves the generation alone, and a job that lost the race        *)
(* discards its own only.                                                  *)
(***************************************************************************)
ServingNotDiscarded ==
    /\ active \notin discarded
    /\ \A e \in evidence : {e.generation, e.previous} \cap discarded = {}

(***************************************************************************)
(* The evidence of a cutover is true: the new generation holds every row   *)
(* up to the boundary on record, the one it replaced is retained, and the  *)
(* cutovers on record form one line, no generation replaced twice, however *)
(* many jobs raced from the same starting point.                           *)
(***************************************************************************)
EvidenceTrue ==
    \A e \in evidence :
        /\ rows[e.generation] >= e.boundary
        /\ e.previous \in retained
        /\ \A f \in evidence : e.previous = f.previous => e = f

(***************************************************************************)
(* A rebuild that fails cleans up: of the generations made to replace the  *)
(* active one, all are discarded or being built but one for every hook     *)
(* that failed and every job that died.  (One that was refused activation  *)
(* because another job had cut over first stays behind, on purpose.)       *)
(***************************************************************************)
LeftoversBounded ==
    LET leftovers == {g \in created \ ({0} \cup discarded) :
                        parent[g] = active /\ \A x \in Job : call[x].generation # g}
    IN  Cardinality(leftovers) <= (MaxFaults - faults) + (MaxCrashes - crashes)
================================================================================
