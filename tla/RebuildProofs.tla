----------------------------- MODULE RebuildProofs -----------------------------
(***************************************************************************)
(* Proofs about the rebuild coordinator, for every number of jobs, rows,   *)
(* generations, faults and crashes.                                        *)
(***************************************************************************)
EXTENDS RebuildCoordinator, FiniteSetTheorems, TLAPS

\* A job owns its generation from create_generation to the end of the call.
Owning(x)   == pc[x] \notin {"idle", "create"}
\* Its activation took effect over the expected generation.
Cutting(x)  == pc[x] \in {"retain", "record"}
\* Its generation has not been activated.
Building(x) == Owning(x) /\ ~Cutting(x)

Creating == {x \in Job : pc[x] = "create"}

(***************************************************************************)
(* Generations are numbered as they are created, and the bound leaves room *)
(* for those that jobs are about to create.                                *)
(***************************************************************************)
Numbered ==
    /\ Cardinality(created) \in Nat \ {0}
    /\ created = 0..(Cardinality(created) - 1)
    /\ IsFiniteSet(Creating)
    /\ Cardinality(created) + Cardinality(Creating) <= MaxGenerations + 1

CallTyped(x) ==
    /\ call[x].boundary <= MaxRows
    /\ ~Owning(x) => call[x].generation = 0
    /\ Owning(x) => call[x].generation \in created

TInv ==
    /\ BTypeOK /\ Numbered
    /\ \A x \in Job : CallTyped(x)
    /\ \A g \in Generation : parent[g] \in created
    /\ faults <= MaxFaults /\ crashes <= MaxCrashes

LEMMA NoCallTyped == NoCall \in Call /\ 0 \in Generation
  BY RebuildAssumption DEF NoCall, Call, Generation

LEMMA Types ==
  ASSUME TInv
  PROVE  /\ pc \in [Job -> Location] /\ call \in [Job -> Call]
         /\ cancelled \in [Job -> BOOLEAN]
         /\ source \in 0..MaxRows /\ created \subseteq Generation
         /\ parent \in [Generation -> Generation] /\ rows \in [Generation -> 0..MaxRows]
         /\ active \in created /\ retained \subseteq created /\ discarded \subseteq created
         /\ evidence \subseteq RebuildEvidence /\ faults \in Nat /\ crashes \in Nat
         /\ \A x \in Job : /\ call[x].boundary \in Nat /\ call[x].generation \in Generation
                           /\ call[x].scanned \in Nat /\ call[x].final \in Nat
         /\ \A g \in Generation : parent[g] \in created
  BY DEF TInv, BTypeOK, Call

--------------------------------------------------------------------------------
(***************************************************************************)
(* The effect of each action on the job that takes it.                     *)
(***************************************************************************)
OthersKept(x) ==
    /\ pc' \in [Job -> Location] /\ call' \in [Job -> Call]
    /\ \A y \in Job \ {x} : pc'[y] = pc[y] /\ call'[y] = call[y]

\* The call moves on and keeps its generation and its boundary.
GoesOn(x) ==
    /\ call'[x].generation = call[x].generation /\ call'[x].boundary = call[x].boundary

Ended(x) == pc'[x] = "idle" /\ call'[x] = NoCall

LEMMA EndEffect ==
  ASSUME TInv, NEW x \in Job, End(x)
  PROVE  OthersKept(x) /\ Ended(x) /\ cancelled' \in [Job -> BOOLEAN]
<1>1. cancelled' \in [Job -> BOOLEAN]
  BY Types DEF End
<1> QED
  BY <1>1, Types, NoCallTyped DEF End, Goto, OthersKept, Ended, Location

LEMMA FaultEffect ==
  ASSUME TInv, faults' = faults \/ Fault
  PROVE  faults' \in Nat /\ faults' <= MaxFaults /\ faults' <= faults
  BY Types, RebuildAssumption DEF TInv, Fault

LEMMA GotoEffect ==
  ASSUME TInv, NEW x \in Job, NEW location \in Location, Goto(x, location)
  PROVE  /\ pc' \in [Job -> Location] /\ pc'[x] = location
         /\ \A y \in Job \ {x} : pc'[y] = pc[y]
  BY Types DEF Goto

LEMMA CaptureEffect ==
  ASSUME TInv, NEW x \in Job, CaptureBoundary(x)
  PROVE  /\ OthersKept(x) /\ pc[x] = "idle" /\ pc'[x] = "create"
         /\ call'[x].generation = call[x].generation /\ call'[x].boundary = source
         /\ UNCHANGED <<adapter, rest, cancelled, faults>>
<1> DEFINE c == [call[x] EXCEPT !.boundary = source]
<1>1. call' = [call EXCEPT ![x] = c] /\ source \in Nat
  BY Types DEF CaptureBoundary
<1>2. c \in Call /\ c.generation = call[x].generation /\ c.boundary = source
  BY <1>1, Types DEF Call
<1>3. pc' \in [Job -> Location] /\ pc'[x] = "create" /\ \A y \in Job \ {x} : pc'[y] = pc[y]
  BY GotoEffect DEF CaptureBoundary, Location
<1> HIDE DEF c
<1> QED
  BY <1>1, <1>2, <1>3, Types DEF CaptureBoundary, OthersKept

\* A new generation takes the next number; its parent is the active one.
\* The job owns it, unless the hook raised.
Owns(x, g) ==
    /\ pc'[x] = "scan" /\ faults' = faults
    /\ call'[x].generation = g /\ call'[x].boundary = call[x].boundary

Creates(x, g) ==
    /\ g = Cardinality(created)
    /\ created' = created \cup {g} /\ parent' = [parent EXCEPT ![g] = active]
    /\ Owns(x, g) \/ (Ended(x) /\ Fault)

LEMMA RoomToCreate ==
  ASSUME TInv, NEW x \in Job, pc[x] = "create"
  PROVE  Cardinality(created) \in Generation /\ Cardinality(created) \notin created
<1>1. x \in Creating /\ IsFiniteSet(Creating)
  BY DEF TInv, Numbered, Creating
<1>2. Cardinality(Creating) \in Nat /\ Cardinality(Creating) # 0
  BY <1>1, FS_CardinalityType, FS_EmptySet
<1> QED
  BY <1>2, RebuildAssumption DEF TInv, Numbered, Generation

LEMMA CreateEffect ==
  ASSUME TInv, NEW x \in Job, CreateGeneration(x)
  PROVE  /\ OthersKept(x) /\ pc[x] = "create" /\ cancelled' \in [Job -> BOOLEAN]
         /\ \/ \E g \in Generation : Creates(x, g)
            \/ Ended(x) /\ Fault /\ UNCHANGED <<created, parent>>
         /\ UNCHANGED <<rows, active, retained, discarded, rest>>
<1>1. CASE End(x)
  <2>1. OthersKept(x) /\ Ended(x) /\ cancelled' \in [Job -> BOOLEAN] /\ ~Goto(x, "scan")
    BY <1>1, EndEffect, GotoEffect DEF Ended, Location
  <2>2. Cardinality(created) \in Generation
    BY RoomToCreate DEF CreateGeneration
  <2> QED
    BY <2>1, <2>2 DEF CreateGeneration, Creates
<1>2. CASE ~End(x)
  <2> DEFINE g == Cardinality(created)
             c == [call[x] EXCEPT !.generation = g]
  <2>1. /\ pc[x] = "create" /\ g \in Generation
    BY RoomToCreate DEF CreateGeneration
  <2>2. /\ call' = [call EXCEPT ![x] = c] /\ Goto(x, "scan")
        /\ created' = created \cup {g} /\ parent' = [parent EXCEPT ![g] = active]
        /\ UNCHANGED <<cancelled, faults>>
    BY <1>2 DEF CreateGeneration
  <2>3. c \in Call /\ c.generation = g /\ c.boundary = call[x].boundary
    BY <2>1, Types DEF Call
  <2>4. pc' \in [Job -> Location] /\ pc'[x] = "scan" /\ \A y \in Job \ {x} : pc'[y] = pc[y]
    BY <2>2, GotoEffect DEF Location
  <2>5. call' \in [Job -> Call] /\ call'[x] = c /\ \A y \in Job \ {x} : call'[y] = call[y]
    BY <2>2, <2>3, Types
  <2>6. Creates(x, g)
    BY <2>1, <2>2, <2>3, <2>4, <2>5 DEF Creates, Owns
  <2>7. cancelled' \in [Job -> BOOLEAN]
    BY <2>2, Types
  <2> HIDE DEF g, c
  <2> QED
    BY <2>1, <2>4, <2>5, <2>6, <2>7 DEF OthersKept, CreateGeneration
<1> QED
  BY <1>1, <1>2

\* The rows of the generation change while it is scanned and tailed.
LEMMA WriteEffect ==
  ASSUME TInv, NEW x \in Job, WriteBatch(x) \/ Tail(x)
  PROVE  /\ OthersKept(x) /\ GoesOn(x) /\ pc[x] \in {"scan", "tail"}
         /\ \E r \in 0..MaxRows :
               /\ rows' = [rows EXCEPT ![call[x].generation] = r]
               /\ pc'[x] = "scan" \/ (pc'[x] = "validate" /\ call'[x].final = r)
         /\ UNCHANGED <<created, parent, active, retained, discarded, rest, cancelled, faults>>
<1>1. CASE WriteBatch(x)
  <2>1. PICK size \in 1..BatchSize :
            /\ call[x].scanned + size <= call[x].boundary
            /\ call' = [call EXCEPT ![x].scanned = @ + size]
            /\ rows' = [rows EXCEPT ![call[x].generation] = call[x].scanned + size]
    BY <1>1 DEF WriteBatch
  <2> DEFINE r == call[x].scanned + size
             c == [call[x] EXCEPT !.scanned = r]
  <2>2. r \in 0..MaxRows /\ r \in Nat
    BY <2>1, Types, RebuildAssumption DEF TInv, CallTyped
  <2>3. call' = [call EXCEPT ![x] = c] /\ rows' = [rows EXCEPT ![call[x].generation] = r]
    BY <2>1, Types
  <2> HIDE DEF r
  <2>4. c \in Call /\ c.generation = call[x].generation /\ c.boundary = call[x].boundary
    BY <2>2, Types DEF Call
  <2> HIDE DEF c
  <2>5. call' \in [Job -> Call] /\ call'[x] = c /\ \A y \in Job \ {x} : call'[y] = call[y]
    BY <2>3, <2>4, Types
  <2>6. /\ pc[x] = "scan" /\ pc' = pc
        /\ UNCHANGED <<created, parent, active, retained, discarded, rest, cancelled, faults>>
    BY <1>1 DEF WriteBatch
  <2> QED
    BY <2>2, <2>3, <2>4, <2>5, <2>6, Types DEF OthersKept, GoesOn
<1>2. CASE Tail(x)
  <2> DEFINE c == [call[x] EXCEPT !.final = source]
  <2>1. /\ source \in 0..MaxRows /\ source \in Nat
        /\ call' = [call EXCEPT ![x] = c] /\ rows' = [rows EXCEPT ![call[x].generation] = source]
        /\ Goto(x, "validate") /\ pc[x] = "tail"
    BY <1>2, Types, RebuildAssumption DEF Tail
  <2>2. /\ c \in Call /\ c.generation = call[x].generation /\ c.boundary = call[x].boundary
        /\ c.final = source
    BY <2>1, Types DEF Call
  <2>3. pc' \in [Job -> Location] /\ pc'[x] = "validate" /\ \A y \in Job \ {x} : pc'[y] = pc[y]
    BY <2>1, GotoEffect DEF Location
  <2> HIDE DEF c
  <2>4. call' \in [Job -> Call] /\ call'[x] = c /\ \A y \in Job \ {x} : call'[y] = call[y]
    BY <2>1, <2>2, Types
  <2> QED
    BY <1>2, <2>1, <2>2, <2>3, <2>4 DEF OthersKept, GoesOn, Tail
<1> QED
  BY <1>1, <1>2

\* The end of the scan, the verdict of the validation, and giving up.
LEMMA MoveEffect ==
  ASSUME TInv, NEW x \in Job, ScanEnds(x) \/ Validate(x) \/ GiveUp(x)
  PROVE  /\ OthersKept(x) /\ call' = call /\ pc[x] \in {"scan", "tail", "validate"}
         /\ \/ pc'[x] \in {"tail", "discard"}
            \/ pc[x] = "validate" /\ pc'[x] = "activate"
         /\ faults' = faults \/ Fault
         /\ UNCHANGED <<adapter, rest, cancelled>>
<1>1. CASE ScanEnds(x)
  BY <1>1, Types, GotoEffect DEF ScanEnds, OthersKept, Location
<1>2. CASE Validate(x)
  BY <1>2, Types, GotoEffect DEF Validate, OthersKept, Location
<1>3. CASE GiveUp(x)
  BY <1>3, Types, GotoEffect DEF GiveUp, OthersKept, Location
<1> QED
  BY <1>1, <1>2, <1>3

LEMMA DiscardEffect ==
  ASSUME TInv, NEW x \in Job, Discard(x)
  PROVE  /\ OthersKept(x) /\ Ended(x) /\ pc[x] = "discard" /\ cancelled' \in [Job -> BOOLEAN]
         /\ \/ discarded' = discarded \cup {call[x].generation} /\ faults' = faults
            \/ discarded' = discarded /\ Fault
         /\ UNCHANGED <<created, parent, rows, active, retained, rest>>
  BY EndEffect DEF Discard

LEMMA ActivateEffect ==
  ASSUME TInv, NEW x \in Job, Activate(x)
  PROVE  /\ OthersKept(x) /\ pc[x] = "activate" /\ cancelled' \in [Job -> BOOLEAN]
         /\ \/ pc'[x] = "retain" /\ call' = call /\ active = Previous(x)
               /\ active' = call[x].generation /\ faults' = faults
            \/ Ended(x) /\ active' = call[x].generation /\ Fault
            \/ Ended(x) /\ active' = active /\ Fault
            \/ Ended(x) /\ active # Previous(x) /\ active' = active /\ faults' = faults
         /\ UNCHANGED <<created, parent, rows, retained, discarded, rest>>
<1>1. CASE End(x)
  <2>1. ~Goto(x, "retain")
    BY <1>1, Types DEF End, Goto
  <2>2. OthersKept(x) /\ Ended(x) /\ cancelled' \in [Job -> BOOLEAN]
    BY <1>1, EndEffect
  <2> QED
    BY <2>1, <2>2 DEF Activate
<1>2. CASE ~End(x)
  <2>1. /\ Goto(x, "retain") /\ UNCHANGED <<call, cancelled, faults>>
        /\ active = Previous(x) /\ active' = call[x].generation
    BY <1>2 DEF Activate
  <2>2. pc' \in [Job -> Location] /\ pc'[x] = "retain" /\ \A y \in Job \ {x} : pc'[y] = pc[y]
    BY <2>1, GotoEffect DEF Location
  <2> QED
    BY <2>1, <2>2, Types DEF Activate, OthersKept
<1> QED
  BY <1>1, <1>2

LEMMA RetainEffect ==
  ASSUME TInv, NEW x \in Job, Retain(x)
  PROVE  /\ OthersKept(x) /\ pc[x] = "retain" /\ cancelled' \in [Job -> BOOLEAN]
         /\ \/ /\ pc'[x] = "record" /\ call' = call /\ faults' = faults
               /\ retained' = retained \cup {Previous(x)}
            \/ /\ Ended(x) /\ Fault
               /\ retained' \in {retained, retained \cup {Previous(x)}}
         /\ UNCHANGED <<created, parent, rows, active, discarded, rest>>
<1>1. CASE End(x)
  <2>1. OthersKept(x) /\ Ended(x) /\ cancelled' \in [Job -> BOOLEAN] /\ ~Goto(x, "record")
    BY <1>1, EndEffect, GotoEffect DEF Ended, Location
  <2> QED
    BY <2>1 DEF Retain
<1>2. CASE ~End(x)
  <2>1. /\ Goto(x, "record") /\ UNCHANGED <<call, cancelled, faults>>
        /\ retained' = retained \cup {Previous(x)}
    BY <1>2 DEF Retain
  <2>2. pc' \in [Job -> Location] /\ pc'[x] = "record" /\ \A y \in Job \ {x} : pc'[y] = pc[y]
    BY <2>1, GotoEffect DEF Location
  <2> QED
    BY <2>1, <2>2, Types DEF Retain, OthersKept
<1> QED
  BY <1>1, <1>2

NewEvidence(x) ==
    [generation |-> call[x].generation, previous |-> Previous(x), boundary |-> call[x].final]

LEMMA RecordEffect ==
  ASSUME TInv, NEW x \in Job, Record(x)
  PROVE  /\ OthersKept(x) /\ Ended(x) /\ pc[x] = "record" /\ cancelled' \in [Job -> BOOLEAN]
         /\ \/ evidence' = evidence \cup {NewEvidence(x)} /\ faults' = faults
            \/ evidence' = evidence /\ Fault
         /\ UNCHANGED <<adapter, source, crashes>>
  BY EndEffect DEF Record, NewEvidence

LEMMA CrashEffect ==
  ASSUME TInv, NEW x \in Job, Crash(x)
  PROVE  /\ OthersKept(x) /\ Ended(x) /\ pc[x] # "idle" /\ cancelled' \in [Job -> BOOLEAN]
         /\ crashes' = crashes - 1 /\ crashes' \in Nat
         /\ UNCHANGED <<adapter, source, evidence, faults>>
  BY EndEffect, Types DEF Crash

LEMMA EnvironmentEffect ==
  ASSUME TInv, (\E x \in Job : Cancel(x)) \/ Commit \/ UNCHANGED bvars
  PROVE  /\ pc' = pc /\ call' = call /\ cancelled' \in [Job -> BOOLEAN]
         /\ source' \in 0..MaxRows /\ UNCHANGED <<adapter, evidence, faults, crashes>>
<1>1. cancelled' \in [Job -> BOOLEAN]
  BY Types DEF Cancel, Commit, bvars
<1> QED
  BY <1>1, Types, RebuildAssumption DEF Cancel, Commit, bvars, adapter

--------------------------------------------------------------------------------
(* Types.                                                                  *)

LEMMA TInit == BInit => TInv
<1> SUFFICES ASSUME BInit PROVE TInv
  OBVIOUS
<1>1. 0 \in Generation /\ NoCall \in Call /\ NoCall.generation = 0 /\ NoCall.boundary = 0
  BY NoCallTyped DEF NoCall
<1>2. BTypeOK
  BY <1>1, RebuildAssumption DEF BInit, BTypeOK, Location
<1>3. Numbered
  <2>1. Cardinality({0}) = 1
    BY FS_Singleton
  <2>2. Creating = {}
    BY DEF BInit, Creating
  <2>3. IsFiniteSet(Creating) /\ Cardinality(Creating) = 0
    BY <2>2, FS_EmptySet
  <2>4. created = {0} /\ {0} = 0..(1 - 1)
    BY DEF BInit
  <2> QED
    BY <2>1, <2>3, <2>4, RebuildAssumption DEF Numbered
<1>4. \A x \in Job : CallTyped(x)
  BY <1>1, RebuildAssumption DEF BInit, CallTyped, Owning
<1> QED
  BY <1>2, <1>3, <1>4, RebuildAssumption DEF TInv, BInit

\* Once x is not about to create a generation, it takes no room any more.
LEMMA RoomAfter ==
  ASSUME TInv, NEW x \in Job, OthersKept(x), pc'[x] # "create"
  PROVE  /\ IsFiniteSet(Creating') /\ Cardinality(Creating) \in Nat
         /\ Cardinality(Creating') <= Cardinality(Creating)
         /\ pc[x] = "create" => Cardinality(Creating') = Cardinality(Creating) - 1
<1>1. Creating' = Creating \ {x}
  BY DEF OthersKept, Creating
<1>2. IsFiniteSet(Creating)
  BY DEF TInv, Numbered
<1>3. /\ IsFiniteSet(Creating \ {x}) /\ Cardinality(Creating) \in Nat
      /\ Cardinality(Creating \ {x}) = IF x \in Creating THEN Cardinality(Creating) - 1
                                                         ELSE Cardinality(Creating)
  BY <1>2, FS_RemoveElement, FS_CardinalityType
<1> QED
  BY <1>1, <1>3 DEF Creating

\* The types hold after a step of x that creates nothing.
LEMMA TypedAfter ==
  ASSUME TInv, NEW x \in Job, OthersKept(x), pc'[x] # "create", CallTyped(x)',
         created' = created, parent' = parent, source' = source,
         rows' \in [Generation -> 0..MaxRows],
         active' \in created, retained' \subseteq created, discarded' \subseteq created,
         evidence' \subseteq RebuildEvidence, cancelled' \in [Job -> BOOLEAN],
         faults' \in Nat, faults' <= MaxFaults, crashes' \in Nat, crashes' <= MaxCrashes
  PROVE  TInv'
<1>1. BTypeOK'
  BY Types DEF BTypeOK, OthersKept
<1>2. Numbered'
  <2>1. /\ IsFiniteSet(Creating') /\ Cardinality(Creating) \in Nat /\ Cardinality(Creating') \in Nat
        /\ Cardinality(Creating') <= Cardinality(Creating)
    BY RoomAfter, FS_CardinalityType
  <2> QED
    BY <2>1, RebuildAssumption DEF TInv, Numbered
<1>3. \A y \in Job : CallTyped(y)'
  BY DEF TInv, CallTyped, OthersKept, Owning
<1> QED
  BY <1>1, <1>2, <1>3 DEF TInv

LEMMA EndedTyped ==
  ASSUME NEW x \in Job, Ended(x)
  PROVE  CallTyped(x)' /\ pc'[x] # "create" /\ ~Owning(x)' /\ call'[x].generation = 0
  BY RebuildAssumption DEF Ended, CallTyped, Owning, NoCall

LEMMA TStep == TInv /\ [BNext]_bvars => TInv'
<1> SUFFICES ASSUME TInv, [BNext]_bvars PROVE TInv'
  OBVIOUS
<1>1. faults <= MaxFaults /\ crashes <= MaxCrashes /\ \A x \in Job : CallTyped(x)
  BY DEF TInv
<1>2. ASSUME NEW x \in Job, CaptureBoundary(x) PROVE TInv'
  <2>1. /\ OthersKept(x) /\ pc[x] = "idle" /\ pc'[x] = "create"
        /\ call'[x].generation = call[x].generation /\ call'[x].boundary = source
        /\ UNCHANGED <<adapter, rest, cancelled, faults>>
    BY <1>2, CaptureEffect
  <2>2. BTypeOK'
    BY <2>1, Types DEF BTypeOK, OthersKept, adapter, rest
  <2>3. Numbered'
    <3>1. Creating' = Creating \cup {x} /\ x \notin Creating
      BY <2>1 DEF OthersKept, Creating
    <3>2. IsFiniteSet(Creating)
      BY DEF TInv, Numbered
    <3>3. /\ IsFiniteSet(Creating \cup {x}) /\ Cardinality(Creating) \in Nat
          /\ Cardinality(Creating \cup {x}) = Cardinality(Creating) + 1
      BY <3>1, <3>2, FS_AddElement, FS_CardinalityType
    <3>4. Cardinality(created) + Cardinality(Creating) <= MaxGenerations
      BY <1>2 DEF CaptureBoundary, Creating
    <3> QED
      BY <2>1, <3>1, <3>3, <3>4, RebuildAssumption DEF TInv, Numbered, adapter
  <2>4. \A y \in Job : CallTyped(y)'
    BY <1>1, <2>1, Types DEF CallTyped, OthersKept, Owning, adapter
  <2> QED
    BY <1>1, <2>1, <2>2, <2>3, <2>4, Types DEF TInv, rest, adapter
<1>3. ASSUME NEW x \in Job, CreateGeneration(x) PROVE TInv'
  <2>1. /\ OthersKept(x) /\ pc[x] = "create" /\ cancelled' \in [Job -> BOOLEAN]
        /\ UNCHANGED <<rows, active, retained, discarded, rest>>
    BY <1>3, CreateEffect
  <2>2. ASSUME NEW g \in Generation, Creates(x, g) PROVE TInv'
    <3>1. /\ g = Cardinality(created) /\ g \in Nat \ {0} /\ created = 0..(g - 1)
          /\ created' = created \cup {g} /\ pc'[x] # "create"
      BY <2>2 DEF Creates, Owns, Ended, TInv, Numbered
    <3>2. created' = 0..g
      <4>1. \A n : n \in 0..(g - 1) \/ n = g <=> n \in 0..g
        BY <3>1
      <4>2. created' \subseteq 0..g /\ 0..g \subseteq created'
        BY <3>1, <4>1
      <4> QED
        BY <4>2
    <3>3. Cardinality(created') = g + 1
      <4>1. Cardinality(0..g) = g + 1
        BY <3>1, FS_Interval
      <4> QED
        BY <3>2, <4>1
    <3>4. parent' \in [Generation -> Generation] /\ created' \subseteq Generation
      BY <2>2, <3>1, Types DEF Creates
    <3>5. faults' \in Nat /\ faults' <= MaxFaults
      BY <2>2, FaultEffect DEF Creates, Owns
    <3>6. BTypeOK'
      BY <2>1, <3>1, <3>4, <3>5, Types DEF BTypeOK, OthersKept, rest
    <3>7. Numbered'
      <4>1. /\ IsFiniteSet(Creating') /\ Cardinality(Creating) \in Nat
            /\ Cardinality(Creating') = Cardinality(Creating) - 1
        BY <2>1, <3>1, RoomAfter
      <4>2. g + Cardinality(Creating) <= MaxGenerations + 1
        BY <3>1 DEF TInv, Numbered
      <4>3. (g + 1) - 1 = g /\ g + 1 \in Nat \ {0}
        BY <3>1
      <4>4. g + 1 + Cardinality(Creating') <= MaxGenerations + 1
        BY <3>1, <4>1, <4>2, RebuildAssumption
      <4> QED
        BY <3>2, <3>3, <4>1, <4>3, <4>4 DEF Numbered
    <3>8. \A y \in Job : CallTyped(y)'
      <4>1. CallTyped(x)'
        BY <1>1, <2>2, <3>1, EndedTyped DEF CallTyped, Owning, Creates, Owns
      <4> QED
        BY <1>1, <2>1, <3>1, <4>1 DEF CallTyped, OthersKept, Owning
    <3>9. \A h \in Generation : parent'[h] \in created'
      BY <2>2, Types DEF Creates
    <3> QED
      BY <1>1, <2>1, <3>5, <3>6, <3>7, <3>8, <3>9 DEF TInv, rest
  <2>3. CASE Ended(x) /\ Fault /\ UNCHANGED <<created, parent>>
    BY <1>1, <2>1, <2>3, EndedTyped, FaultEffect, Types, TypedAfter DEF rest
  <2> QED
    BY <1>3, <2>2, <2>3, CreateEffect
<1>4. ASSUME NEW x \in Job, WriteBatch(x) \/ Tail(x) PROVE TInv'
  <2>1. /\ OthersKept(x) /\ GoesOn(x) /\ pc[x] \in {"scan", "tail"}
        /\ pc'[x] \in {"scan", "validate"} /\ rows' \in [Generation -> 0..MaxRows]
        /\ UNCHANGED <<created, parent, active, retained, discarded, rest, cancelled, faults>>
    BY <1>4, WriteEffect, Types
  <2>2. CallTyped(x)'
    BY <1>1, <2>1 DEF CallTyped, GoesOn, Owning
  <2> QED
    BY <1>1, <2>1, <2>2, Types, TypedAfter DEF rest
<1>5. ASSUME NEW x \in Job, ScanEnds(x) \/ Validate(x) \/ GiveUp(x) PROVE TInv'
  <2>1. /\ OthersKept(x) /\ call' = call /\ pc[x] \in {"scan", "tail", "validate"}
        /\ pc'[x] \in {"tail", "discard", "activate"}
        /\ faults' = faults \/ Fault
        /\ UNCHANGED <<adapter, rest, cancelled>>
    BY <1>5, MoveEffect
  <2>2. CallTyped(x)'
    BY <1>1, <2>1 DEF CallTyped, Owning, adapter
  <2> QED
    BY <1>1, <2>1, <2>2, FaultEffect, Types, TypedAfter DEF rest, adapter
<1>6. ASSUME NEW x \in Job, Discard(x) PROVE TInv'
  <2>1. discarded' \subseteq created
    BY <1>1, <1>6, DiscardEffect, Types DEF CallTyped, Owning
  <2>2. faults' = faults \/ Fault
    BY <1>6, DiscardEffect
  <2> QED
    BY <1>1, <1>6, <2>1, <2>2, DiscardEffect, EndedTyped, FaultEffect, Types, TypedAfter DEF rest
<1>7. ASSUME NEW x \in Job, Activate(x) PROVE TInv'
  <2>1. active' \in created
    BY <1>1, <1>7, ActivateEffect, Types DEF CallTyped, Owning
  <2>2. faults' = faults \/ Fault
    BY <1>7, ActivateEffect
  <2>3. CallTyped(x)' /\ pc'[x] # "create"
    BY <1>1, <1>7, ActivateEffect, EndedTyped DEF CallTyped, Owning
  <2> QED
    BY <1>1, <1>7, <2>1, <2>2, <2>3, ActivateEffect, FaultEffect, Types, TypedAfter DEF rest
<1>8. ASSUME NEW x \in Job, Retain(x) PROVE TInv'
  <2>1. retained' \subseteq created
    BY <1>8, RetainEffect, Types DEF Previous
  <2>2. faults' = faults \/ Fault
    BY <1>8, RetainEffect
  <2>3. CallTyped(x)' /\ pc'[x] # "create"
    BY <1>1, <1>8, RetainEffect, EndedTyped DEF CallTyped, Owning
  <2> QED
    BY <1>1, <1>8, <2>1, <2>2, <2>3, RetainEffect, FaultEffect, Types, TypedAfter DEF rest
<1>9. ASSUME NEW x \in Job, Record(x) PROVE TInv'
  <2>1. evidence' \subseteq RebuildEvidence
    BY <1>9, RecordEffect, Types DEF NewEvidence, RebuildEvidence, Previous
  <2>2. faults' = faults \/ Fault
    BY <1>9, RecordEffect
  <2> QED
    BY <1>1, <1>9, <2>1, <2>2, RecordEffect, EndedTyped, FaultEffect, Types, TypedAfter
    DEF adapter
<1>10. ASSUME NEW x \in Job, Crash(x) PROVE TInv'
  <2>1. crashes' <= MaxCrashes
    BY <1>1, <1>10, CrashEffect, Types, RebuildAssumption
  <2> QED
    BY <1>1, <1>10, <2>1, CrashEffect, EndedTyped, Types, TypedAfter DEF adapter
<1>11. ASSUME (\E x \in Job : Cancel(x)) \/ Commit \/ UNCHANGED bvars PROVE TInv'
  <2>1. /\ pc' = pc /\ call' = call /\ cancelled' \in [Job -> BOOLEAN]
        /\ source' \in 0..MaxRows /\ UNCHANGED <<adapter, evidence, faults, crashes>>
    BY <1>11, EnvironmentEffect
  <2>2. BTypeOK'
    BY <2>1, Types DEF BTypeOK, adapter
  <2>3. Numbered' /\ \A x \in Job : CallTyped(x)'
    BY <1>1, <2>1 DEF TInv, Numbered, Creating, CallTyped, Owning, adapter
  <2> QED
    BY <1>1, <2>1, <2>2, <2>3, Types DEF TInv, adapter
<1> QED
  BY <1>2, <1>3, <1>4, <1>5, <1>6, <1>7, <1>8, <1>9, <1>10, <1>11 DEF BNext, JobStep

\* The rebuild model is well typed.
THEOREM RebuildTypes == BSpec => []BTypeOK
<1>1. TInv => BTypeOK
  BY DEF TInv
<1> QED
  BY <1>1, TInit, TStep, PTL DEF BSpec

--------------------------------------------------------------------------------
(* Which generations a job may touch.                                      *)

(***************************************************************************)
(* A generation being built is its job's alone: not active, the parent of  *)
(* none, not on record.                                                    *)
(***************************************************************************)
Fresh(x) ==
    Building(x) => /\ call[x].generation # active
                   /\ \A g \in Generation : parent[g] # call[x].generation
                   /\ \A e \in evidence : call[x].generation \notin {e.generation, e.previous}

Owned(x) == Owning(x) => call[x].generation \notin {0} \cup discarded

\* After the tail the generation holds the rows up to the final boundary.
Filled(x) ==
    pc[x] \in {"validate", "activate", "retain", "record"} =>
        rows[call[x].generation] = call[x].final

\* What a job replaced does not come back, and is nobody else's to replace.
Replaced(x) ==
    /\ Cutting(x) => Previous(x) # active /\ \A e \in evidence : e.previous # Previous(x)
    /\ pc[x] = "record" => Previous(x) \in retained

Apart(x, y) ==
    x # y => /\ Owning(x) /\ Owning(y) => call[x].generation # call[y].generation
             /\ Cutting(x) /\ Cutting(y) => Previous(x) # Previous(y)

Recorded ==
    \A e \in evidence : e.previous # active /\ e.generation \in created /\ e.previous \in created

JobsOK == /\ \A x \in Job : Fresh(x) /\ Owned(x) /\ Filled(x) /\ Replaced(x)
          /\ \A x, y \in Job : Apart(x, y)

GInv ==
    /\ JobsOK /\ Recorded
    /\ 0 \in created /\ \A g \in Generation : parent[g] \notin discarded
    /\ ServingNotDiscarded /\ EvidenceTrue

LEMMA GInit == BInit => GInv
<1> SUFFICES ASSUME BInit PROVE GInv
  OBVIOUS
<1>1. JobsOK
  BY DEF BInit, JobsOK, Fresh, Owned, Filled, Replaced, Apart, Building, Owning, Cutting
<1> QED
  BY <1>1 DEF BInit, GInv, Recorded, ServingNotDiscarded, EvidenceTrue

(***************************************************************************)
(* A step that changes neither the adapter nor the evidence, and takes no  *)
(* job across its activation, keeps all of it.                             *)
(***************************************************************************)
KeepsPlace(x) ==
    \/ ~Owning(x)'
    \/ /\ call'[x] = call[x] /\ Owning(x)
       /\ Cutting(x)' => Cutting(x) /\ pc'[x] = pc[x]
       /\ Building(x)' => Building(x)
       /\ pc'[x] \in {"validate", "activate"} => pc[x] \in {"validate", "activate"}

LEMMA QuietKeeps ==
  ASSUME GInv, UNCHANGED <<adapter, evidence>>, \A x \in Job : KeepsPlace(x)
  PROVE  GInv'
<1>1. /\ parent' = parent /\ active' = active /\ discarded' = discarded /\ rows' = rows
      /\ retained' = retained /\ created' = created /\ evidence' = evidence
  BY DEF adapter
<1>2. ASSUME NEW x \in Job PROVE Fresh(x)' /\ Owned(x)' /\ Filled(x)' /\ Replaced(x)'
  <2>1. Fresh(x) /\ Owned(x) /\ Filled(x) /\ Replaced(x) /\ KeepsPlace(x)
    BY DEF GInv, JobsOK
  <2>2. Fresh(x)' /\ Owned(x)'
    BY <1>1, <2>1 DEF Fresh, Owned, KeepsPlace, Building
  <2>3. Filled(x)'
    BY <1>1, <2>1 DEF Filled, KeepsPlace, Cutting, Owning
  <2>4. Replaced(x)'
    BY <1>1, <2>1 DEF Replaced, KeepsPlace, Cutting, Owning, Previous
  <2> QED
    BY <2>2, <2>3, <2>4
<1>3. ASSUME NEW x \in Job, NEW y \in Job PROVE Apart(x, y)'
  BY <1>1 DEF GInv, JobsOK, Apart, KeepsPlace, Cutting, Owning, Previous
<1>4. JobsOK'
  BY <1>2, <1>3 DEF JobsOK
<1> QED
  BY <1>1, <1>4 DEF GInv, Recorded, ServingNotDiscarded, EvidenceTrue

LEMMA OthersKeepPlace ==
  ASSUME NEW x \in Job, OthersKept(x), KeepsPlace(x)
  PROVE  \A y \in Job : KeepsPlace(y)
  BY DEF OthersKept, KeepsPlace, Owning, Cutting, Building

\* The number of a new generation is new to everyone.
LEMMA CreateKeeps ==
  ASSUME TInv, GInv, NEW x \in Job, NEW g \in Generation, Creates(x, g), OthersKept(x),
         pc[x] = "create", UNCHANGED <<rows, active, retained, discarded, evidence>>
  PROVE  GInv'
<1>1. g \notin created /\ g # 0 /\ active \in created /\ discarded \subseteq created
  BY RoomToCreate, Types DEF Creates, GInv
<1>2. /\ parent'[g] = active /\ \A h \in Generation : h # g => parent'[h] = parent[h]
  BY Types DEF Creates
<1>3. /\ created' = created \cup {g}
      /\ ~Owning(x)' \/ (pc'[x] = "scan" /\ call'[x].generation = g)
  BY EndedTyped DEF Creates, Owns
<1>4. \A e \in evidence : e.generation \in created /\ e.previous \in created
  BY DEF GInv, Recorded
<1>5. \A h \in Generation : parent'[h] # g
  BY <1>1, <1>2, Types
<1>6. \A y \in Job \ {x} :
          /\ pc'[y] = pc[y] /\ call'[y] = call[y]
          /\ Owning(y) => call[y].generation \in created /\ call[y].generation # g
          /\ Owning(y) => Previous(y)' = Previous(y)
  <2> SUFFICES ASSUME NEW y \in Job \ {x}
               PROVE  /\ pc'[y] = pc[y] /\ call'[y] = call[y]
                      /\ Owning(y) => call[y].generation \in created /\ call[y].generation # g
                      /\ Owning(y) => Previous(y)' = Previous(y)
    OBVIOUS
  <2>1. pc'[y] = pc[y] /\ call'[y] = call[y]
    BY DEF OthersKept
  <2>2. Owning(y) => call[y].generation \in created /\ call[y].generation # g
    BY <1>1 DEF TInv, CallTyped
  <2> QED
    BY <1>2, <2>1, <2>2, Types DEF Previous
<1>7. Fresh(x)' /\ Owned(x)' /\ Filled(x)' /\ Replaced(x)'
  <2>1. CASE ~Owning(x)'
    BY <2>1 DEF Fresh, Owned, Filled, Replaced, Building, Owning, Cutting
  <2>2. CASE pc'[x] = "scan" /\ call'[x].generation = g
    BY <1>1, <1>4, <1>5, <2>2 DEF Fresh, Owned, Filled, Replaced, Building, Owning, Cutting
  <2> QED
    BY <1>3, <2>1, <2>2
<1>8. ASSUME NEW y \in Job \ {x} PROVE Fresh(y)' /\ Owned(y)' /\ Filled(y)' /\ Replaced(y)'
  <2>1. Fresh(y) /\ Owned(y) /\ Filled(y) /\ Replaced(y)
    BY DEF GInv, JobsOK
  <2>2. Fresh(y)'
    BY <1>2, <1>6, <2>1, Types DEF Fresh, Building, Owning, Cutting
  <2>3. Owned(y)' /\ Filled(y)'
    BY <1>6, <2>1 DEF Owned, Filled, Owning
  <2>4. Replaced(y)'
    BY <1>6, <2>1 DEF Replaced, Cutting, Owning
  <2> QED
    BY <2>2, <2>3, <2>4
<1>9. ASSUME NEW y \in Job, NEW z \in Job, y # z PROVE Apart(y, z)'
  <2>1. CASE y # x /\ z # x
    BY <1>6, <2>1 DEF GInv, JobsOK, Apart, Owning, Cutting
  <2>2. CASE y = x \/ z = x
    BY <1>3, <1>6, <1>9, <2>2 DEF Apart, Owning, Cutting
  <2> QED
    BY <2>1, <2>2
<1>10. JobsOK'
  BY <1>7, <1>8, <1>9 DEF JobsOK, Apart
<1>11. \A h \in Generation : parent'[h] \notin discarded'
  BY <1>2 DEF GInv, ServingNotDiscarded
<1> QED
  BY <1>3, <1>10, <1>11 DEF GInv, Recorded, ServingNotDiscarded, EvidenceTrue

\* Writing touches the rows of the job's own generation, which is not on record.
LEMMA WriteKeeps ==
  ASSUME TInv, GInv, NEW x \in Job, WriteBatch(x) \/ Tail(x)
  PROVE  GInv'
<1>1. /\ OthersKept(x) /\ GoesOn(x) /\ pc[x] \in {"scan", "tail"} /\ Building(x)
      /\ created' = created /\ parent' = parent /\ active' = active /\ retained' = retained
      /\ discarded' = discarded /\ evidence' = evidence
  BY WriteEffect DEF rest, Building, Owning, Cutting
<1>2. PICK r \in 0..MaxRows :
          /\ rows' = [rows EXCEPT ![call[x].generation] = r]
          /\ pc'[x] = "scan" \/ (pc'[x] = "validate" /\ call'[x].final = r)
  BY WriteEffect
<1>3. /\ rows'[call[x].generation] = r
      /\ \A h \in Generation : h # call[x].generation => rows'[h] = rows[h]
  BY <1>2, Types
<1>4. Fresh(x) /\ Owned(x)
  BY DEF GInv, JobsOK
<1>5. Fresh(x)' /\ Owned(x)' /\ Filled(x)' /\ Replaced(x)'
  BY <1>1, <1>2, <1>3, <1>4
  DEF Fresh, Owned, Filled, Replaced, Building, Owning, Cutting, GoesOn
<1>6. ASSUME NEW y \in Job \ {x} PROVE Fresh(y)' /\ Owned(y)' /\ Filled(y)' /\ Replaced(y)'
  <2>1. Fresh(y) /\ Owned(y) /\ Filled(y) /\ Replaced(y) /\ Apart(x, y)
    BY DEF GInv, JobsOK
  <2>2. pc'[y] = pc[y] /\ call'[y] = call[y]
    BY <1>1 DEF OthersKept
  <2>3. Fresh(y)' /\ Owned(y)' /\ Replaced(y)'
    BY <1>1, <2>1, <2>2 DEF Fresh, Owned, Replaced, Building, Owning, Cutting, Previous
  <2>4. Filled(y)'
    BY <1>1, <1>3, <2>1, <2>2, Types DEF Filled, Apart, Owning
  <2> QED
    BY <2>3, <2>4
<1>7. ASSUME NEW y \in Job, NEW z \in Job PROVE Apart(y, z)'
  <2>1. /\ Apart(y, z) /\ (Owning(y)' => Owning(y)) /\ (Owning(z)' => Owning(z))
        /\ (Cutting(y)' => Cutting(y)) /\ (Cutting(z)' => Cutting(z))
        /\ call'[y].generation = call[y].generation /\ call'[z].generation = call[z].generation
    BY <1>1, <1>2 DEF GInv, JobsOK, OthersKept, GoesOn, Owning, Cutting
  <2> QED
    BY <1>1, <2>1 DEF Apart, Previous
<1>8. EvidenceTrue'
  <2> SUFFICES ASSUME NEW e \in evidence PROVE rows'[e.generation] >= e.boundary
    BY <1>1 DEF GInv, EvidenceTrue
  <2>1. e.generation # call[x].generation /\ e.generation \in Generation
    BY <1>1, <1>4, Types DEF Fresh, RebuildEvidence
  <2> QED
    BY <1>3, <2>1 DEF GInv, EvidenceTrue
<1>9. JobsOK'
  BY <1>5, <1>6, <1>7 DEF JobsOK
<1> QED
  BY <1>1, <1>8, <1>9 DEF GInv, Recorded, ServingNotDiscarded

\* A job discards a generation of its own that nobody else knows.
LEMMA DiscardKeeps ==
  ASSUME TInv, GInv, NEW x \in Job, OthersKept(x), Ended(x), pc[x] = "discard",
         discarded' = discarded \cup {call[x].generation},
         UNCHANGED <<created, parent, rows, active, retained, evidence>>
  PROVE  GInv'
<1>1. Building(x) /\ Fresh(x) /\ ~Owning(x)' /\ ~Cutting(x)'
  BY EndedTyped DEF GInv, JobsOK, Building, Owning, Cutting, Ended
<1>2. Fresh(x)' /\ Owned(x)' /\ Filled(x)' /\ Replaced(x)'
  BY <1>1 DEF Fresh, Owned, Filled, Replaced, Building, Ended, Owning
<1>3. ASSUME NEW y \in Job \ {x} PROVE Fresh(y)' /\ Owned(y)' /\ Filled(y)' /\ Replaced(y)'
  <2>1. Fresh(y) /\ Owned(y) /\ Filled(y) /\ Replaced(y) /\ Apart(x, y)
    BY DEF GInv, JobsOK
  <2>2. pc'[y] = pc[y] /\ call'[y] = call[y]
    BY DEF OthersKept
  <2>3. Fresh(y)' /\ Filled(y)' /\ Replaced(y)'
    BY <2>1, <2>2 DEF Fresh, Filled, Replaced, Building, Owning, Cutting, Previous
  <2>4. Owned(y)'
    BY <1>1, <2>1, <2>2 DEF Owned, Apart, Building, Owning
  <2> QED
    BY <2>3, <2>4
<1>4. ASSUME NEW y \in Job, NEW z \in Job PROVE Apart(y, z)'
  <2>1. CASE y # x /\ z # x
    BY <2>1 DEF GInv, JobsOK, OthersKept, Apart, Owning, Cutting, Previous
  <2>2. CASE y = x \/ z = x
    BY <1>1, <2>2 DEF Apart
  <2> QED
    BY <2>1, <2>2
<1>5. ServingNotDiscarded' /\ \A g \in Generation : parent'[g] \notin discarded'
  BY <1>1 DEF Fresh, GInv, ServingNotDiscarded
<1>6. JobsOK'
  BY <1>2, <1>3, <1>4 DEF JobsOK
<1> QED
  BY <1>5, <1>6 DEF GInv, Recorded, EvidenceTrue

(***************************************************************************)
(* Activation: the generation was nobody's parent and on no record, so     *)
(* what had been replaced before stays replaced.                           *)
(***************************************************************************)
LEMMA ActivateKeeps ==
  ASSUME TInv, GInv, NEW x \in Job, OthersKept(x), pc[x] = "activate",
         active' = call[x].generation,
         Ended(x) \/ (pc'[x] = "retain" /\ call' = call /\ active = Previous(x)),
         UNCHANGED <<created, parent, rows, retained, discarded, evidence>>
  PROVE  GInv'
<1>1. /\ Building(x) /\ Owning(x) /\ Fresh(x) /\ Owned(x) /\ Filled(x) /\ ~Building(x)'
      /\ call[x].generation \in Generation
  BY Types DEF GInv, JobsOK, Building, Owning, Cutting, Ended
<1>2. \A h \in Generation : parent[h] # active'
  BY <1>1 DEF Fresh
<1>3. Fresh(x)' /\ Owned(x)' /\ Filled(x)'
  BY <1>1 DEF Fresh, Owned, Filled, Owning, Ended
<1>4. Replaced(x)'
  <2>1. CASE Ended(x)
    BY <2>1 DEF Replaced, Cutting, Ended
  <2>2. CASE pc'[x] = "retain" /\ call' = call /\ active = Previous(x)
    <3>1. Previous(x)' = Previous(x) /\ Previous(x) = parent[call[x].generation]
      BY <2>2 DEF Previous
    <3>2. Previous(x) # active'
      BY <1>1, <1>2, <3>1
    <3>3. \A e \in evidence : e.previous # Previous(x)
      BY <2>2 DEF GInv, Recorded
    <3> QED
      BY <2>2, <3>1, <3>2, <3>3 DEF Replaced
  <2> QED
    BY <2>1, <2>2
<1>5. ASSUME NEW y \in Job \ {x} PROVE Fresh(y)' /\ Owned(y)' /\ Filled(y)' /\ Replaced(y)'
  <2>1. Fresh(y) /\ Owned(y) /\ Filled(y) /\ Replaced(y) /\ Apart(x, y)
    BY DEF GInv, JobsOK
  <2>2. pc'[y] = pc[y] /\ call'[y] = call[y]
    BY DEF OthersKept
  <2>3. Fresh(y)'
    BY <1>1, <2>1, <2>2 DEF Fresh, Apart, Building, Owning, Cutting
  <2>4. Owned(y)' /\ Filled(y)'
    BY <2>1, <2>2 DEF Owned, Filled, Owning
  <2>5. Replaced(y)'
    BY <1>2, <2>1, <2>2, Types DEF Replaced, Cutting, Previous
  <2> QED
    BY <2>3, <2>4, <2>5
<1>6. ASSUME NEW y \in Job, NEW z \in Job, y # z PROVE Apart(y, z)'
  <2>1. CASE y # x /\ z # x
    BY <2>1 DEF GInv, JobsOK, OthersKept, Apart, Owning, Cutting, Previous
  <2>2. ASSUME NEW w \in Job \ {x} PROVE Apart(x, w)' /\ Apart(w, x)'
    <3>1. CASE Ended(x)
      BY <3>1 DEF Apart, Ended, Owning, Cutting
    <3>2. CASE pc'[x] = "retain" /\ call' = call /\ active = Previous(x)
      <4>1. pc'[w] = pc[w] /\ Apart(x, w) /\ Replaced(w)
        BY DEF OthersKept, GInv, JobsOK
      <4>2. Owning(w) => call[x].generation # call[w].generation
        BY <1>1, <4>1 DEF Apart
      <4>3. Cutting(w) => Previous(w) # Previous(x)
        BY <3>2, <4>1 DEF Replaced
      <4> QED
        BY <3>2, <4>1, <4>2, <4>3 DEF Apart, Owning, Cutting, Previous
    <3> QED
      BY <3>1, <3>2
  <2> QED
    BY <1>6, <2>1, <2>2
<1>7. JobsOK'
  BY <1>3, <1>4, <1>5, <1>6 DEF JobsOK, Apart
<1>8. Recorded'
  BY <1>1 DEF Fresh, GInv, Recorded
<1>9. ServingNotDiscarded'
  BY <1>1 DEF Owned, GInv, ServingNotDiscarded
<1> QED
  BY <1>7, <1>8, <1>9 DEF GInv, EvidenceTrue

LEMMA RetainKeeps ==
  ASSUME TInv, GInv, NEW x \in Job, OthersKept(x), pc[x] = "retain",
         Ended(x) \/ (pc'[x] = "record" /\ call' = call),
         retained' = retained \cup {Previous(x)},
         UNCHANGED <<created, parent, rows, active, discarded, evidence>>
  PROVE  GInv'
<1>1. ASSUME NEW y \in Job PROVE Fresh(y)' /\ Owned(y)' /\ Filled(y)' /\ Replaced(y)'
  <2>1. Fresh(y) /\ Owned(y) /\ Filled(y) /\ Replaced(y)
    BY DEF GInv, JobsOK
  <2>2. CASE y = x /\ Ended(x)
    BY <2>2 DEF Fresh, Owned, Filled, Replaced, Building, Owning, Cutting, Ended
  <2>3. CASE y = x /\ pc'[x] = "record" /\ call' = call
    BY <2>1, <2>3 DEF Fresh, Owned, Filled, Replaced, Building, Owning, Cutting, Previous
  <2>4. CASE y # x
    <3>1. pc'[y] = pc[y] /\ call'[y] = call[y]
      BY <2>4 DEF OthersKept
    <3> QED
      BY <2>1, <3>1 DEF Fresh, Owned, Filled, Replaced, Building, Owning, Cutting, Previous
  <2> QED
    BY <2>2, <2>3, <2>4
<1>2. ASSUME NEW y \in Job, NEW z \in Job PROVE Apart(y, z)'
  <2>1. \A w \in Job : /\ Owning(w)' => Owning(w) /\ call'[w] = call[w]
                       /\ Cutting(w)' => Cutting(w)
    BY DEF OthersKept, Owning, Cutting, Ended
  <2>2. Cutting(y)' => Owning(y)'
    BY DEF Owning, Cutting
  <2>3. Cutting(z)' => Owning(z)'
    BY DEF Owning, Cutting
  <2> QED
    BY <2>1, <2>2, <2>3 DEF GInv, JobsOK, Apart, Previous
<1>3. JobsOK'
  BY <1>1, <1>2 DEF JobsOK
<1> QED
  BY <1>3 DEF GInv, Recorded, ServingNotDiscarded, EvidenceTrue

\* The evidence names a generation that is filled and one that is retained.
LEMMA RecordKeeps ==
  ASSUME TInv, GInv, NEW x \in Job, OthersKept(x), Ended(x), pc[x] = "record",
         evidence' = evidence \cup {NewEvidence(x)}, UNCHANGED adapter
  PROVE  GInv'
<1>1. /\ created' = created /\ parent' = parent /\ active' = active /\ retained' = retained
      /\ rows' = rows /\ discarded' = discarded
  BY DEF adapter
<1>2. /\ Owning(x) /\ Cutting(x) /\ ~Owning(x)' /\ ~Cutting(x)' /\ ~Building(x)'
      /\ Owned(x) /\ Filled(x) /\ Replaced(x)
  BY DEF GInv, JobsOK, Building, Owning, Cutting, Ended
<1>3. /\ call[x].generation \in created /\ Previous(x) \in created
      /\ call[x].generation \in Generation /\ Previous(x) \notin discarded
      /\ call[x].generation \notin discarded
  BY <1>2, Types DEF TInv, CallTyped, Previous, GInv, Owned
<1>4. /\ NewEvidence(x).generation = call[x].generation
      /\ NewEvidence(x).previous = Previous(x) /\ NewEvidence(x).boundary = call[x].final
  BY DEF NewEvidence
<1>5. ASSUME NEW y \in Job \ {x} PROVE Fresh(y)' /\ Owned(y)' /\ Filled(y)' /\ Replaced(y)'
  <2>1. Fresh(y) /\ Owned(y) /\ Filled(y) /\ Replaced(y) /\ Apart(x, y)
    BY DEF GInv, JobsOK
  <2>2. pc'[y] = pc[y] /\ call'[y] = call[y] /\ Previous(y)' = Previous(y)
    BY <1>1 DEF OthersKept, Previous
  <2>3. Building(y) => call[y].generation \notin {call[x].generation, Previous(x)}
    BY <1>2, <1>3, <2>1 DEF Fresh, Apart, Building, Previous
  <2>4. Fresh(y)'
    BY <1>1, <1>4, <2>1, <2>2, <2>3 DEF Fresh, Building, Owning, Cutting
  <2>5. Owned(y)' /\ Filled(y)'
    BY <1>1, <2>1, <2>2 DEF Owned, Filled, Owning
  <2>6. Replaced(y)'
    BY <1>1, <1>2, <1>4, <2>1, <2>2 DEF Replaced, Apart, Cutting
  <2> QED
    BY <2>4, <2>5, <2>6
<1>6. Fresh(x)' /\ Owned(x)' /\ Filled(x)' /\ Replaced(x)'
  BY <1>2 DEF Fresh, Owned, Filled, Replaced, Ended
<1>7. ASSUME NEW y \in Job, NEW z \in Job PROVE Apart(y, z)'
  <2>1. CASE y # x /\ z # x
    BY <1>1, <2>1 DEF GInv, JobsOK, OthersKept, Apart, Owning, Cutting, Previous
  <2>2. CASE y = x \/ z = x
    BY <1>2, <2>2 DEF Apart
  <2> QED
    BY <2>1, <2>2
<1>8. JobsOK'
  BY <1>5, <1>6, <1>7 DEF JobsOK
<1>9. Recorded' /\ ServingNotDiscarded'
  BY <1>1, <1>2, <1>3, <1>4 DEF GInv, Recorded, ServingNotDiscarded, Replaced
<1>10. EvidenceTrue'
  <2>1. rows[call[x].generation] >= call[x].final /\ Previous(x) \in retained
    BY <1>2, <1>3, Types DEF Filled, Replaced
  <2>2. \A e \in evidence : e.previous # Previous(x)
    BY <1>2 DEF Replaced
  <2> QED
    BY <1>1, <1>4, <2>1, <2>2 DEF GInv, EvidenceTrue
<1> QED
  BY <1>1, <1>8, <1>9, <1>10 DEF GInv

LEMMA GStep == TInv /\ GInv /\ [BNext]_bvars => GInv'
<1> SUFFICES ASSUME TInv, GInv, [BNext]_bvars PROVE GInv'
  OBVIOUS
<1>1. ASSUME NEW x \in Job, OthersKept(x), KeepsPlace(x), UNCHANGED <<adapter, evidence>>
      PROVE  GInv'
  BY <1>1, OthersKeepPlace, QuietKeeps
<1>2. \A x \in Job : Ended(x) => KeepsPlace(x)
  BY EndedTyped DEF KeepsPlace
<1>3. ASSUME NEW x \in Job, CaptureBoundary(x) PROVE GInv'
  BY <1>1, <1>3, CaptureEffect DEF KeepsPlace, Owning, rest
<1>4. ASSUME NEW x \in Job, CreateGeneration(x) PROVE GInv'
  <2>1. CASE \E g \in Generation : Creates(x, g)
    BY <1>4, <2>1, CreateEffect, CreateKeeps DEF rest
  <2>2. CASE Ended(x) /\ UNCHANGED <<created, parent>>
    BY <1>1, <1>2, <1>4, <2>2, CreateEffect DEF rest, adapter
  <2> QED
    BY <1>4, <2>1, <2>2, CreateEffect
<1>5. ASSUME NEW x \in Job, WriteBatch(x) \/ Tail(x) PROVE GInv'
  BY <1>5, WriteKeeps
<1>6. ASSUME NEW x \in Job, ScanEnds(x) \/ Validate(x) \/ GiveUp(x) PROVE GInv'
  <2>1. KeepsPlace(x)
    BY <1>6, MoveEffect DEF KeepsPlace, Owning, Cutting, Building
  <2> QED
    BY <1>1, <1>6, <2>1, MoveEffect DEF rest
<1>7. ASSUME NEW x \in Job, Discard(x) PROVE GInv'
  <2>1. CASE discarded' = discarded \cup {call[x].generation}
    BY <1>7, <2>1, DiscardEffect, DiscardKeeps DEF rest
  <2>2. CASE discarded' = discarded
    BY <1>1, <1>2, <1>7, <2>2, DiscardEffect DEF rest, adapter
  <2> QED
    BY <1>7, <2>1, <2>2, DiscardEffect
<1>8. ASSUME NEW x \in Job, Activate(x) PROVE GInv'
  <2>1. CASE active' = call[x].generation
    BY <1>8, <2>1, ActivateEffect, ActivateKeeps DEF rest
  <2>2. CASE Ended(x) /\ active' = active
    BY <1>1, <1>2, <1>8, <2>2, ActivateEffect DEF rest, adapter
  <2> QED
    BY <1>8, <2>1, <2>2, ActivateEffect
<1>9. ASSUME NEW x \in Job, Retain(x) PROVE GInv'
  <2>1. CASE retained' = retained \cup {Previous(x)}
    BY <1>9, <2>1, RetainEffect, RetainKeeps DEF rest
  <2>2. CASE Ended(x) /\ retained' = retained
    BY <1>1, <1>2, <1>9, <2>2, RetainEffect DEF rest, adapter
  <2> QED
    BY <1>9, <2>1, <2>2, RetainEffect
<1>10. ASSUME NEW x \in Job, Record(x) PROVE GInv'
  <2>1. CASE evidence' = evidence \cup {NewEvidence(x)}
    BY <1>10, <2>1, RecordEffect, RecordKeeps
  <2>2. CASE evidence' = evidence
    BY <1>1, <1>2, <1>10, <2>2, RecordEffect
  <2> QED
    BY <1>10, <2>1, <2>2, RecordEffect
<1>11. ASSUME NEW x \in Job, Crash(x) PROVE GInv'
  BY <1>1, <1>2, <1>11, CrashEffect
<1>12. ASSUME (\E x \in Job : Cancel(x)) \/ Commit \/ UNCHANGED bvars PROVE GInv'
  <2>1. pc' = pc /\ call' = call /\ UNCHANGED <<adapter, evidence>>
    BY <1>12, EnvironmentEffect
  <2>2. \A x \in Job : KeepsPlace(x)
    BY <2>1 DEF KeepsPlace, Owning, Cutting, Building
  <2> QED
    BY <2>1, <2>2, QuietKeeps
<1> QED
  BY <1>3, <1>4, <1>5, <1>6, <1>7, <1>8, <1>9, <1>10, <1>11, <1>12 DEF BNext, JobStep

LEMMA RebuildInvariant == BSpec => [](TInv /\ GInv)
<1>1. BInit => TInv /\ GInv
  BY TInit, GInit
<1>2. TInv /\ GInv /\ [BNext]_bvars => (TInv /\ GInv)'
  BY TStep, GStep
<1> QED
  BY <1>1, <1>2, PTL DEF BSpec

(***************************************************************************)
(* No job discards what serves reads or is on record, although it may not  *)
(* know whether its activation took effect and others race with it.        *)
(***************************************************************************)
THEOREM ServingKept == BSpec => []ServingNotDiscarded
<1>1. GInv => ServingNotDiscarded
  BY DEF GInv
<1> QED
  BY <1>1, RebuildInvariant, PTL

(***************************************************************************)
(* The evidence of every cutover is true, and no generation is replaced    *)
(* twice on record, although an adapter may activate over another          *)
(* generation than it was told to.                                         *)
(***************************************************************************)
THEOREM EvidenceSound == BSpec => []EvidenceTrue
<1>1. GInv => EvidenceTrue
  BY DEF GInv
<1> QED
  BY <1>1, RebuildInvariant, PTL

--------------------------------------------------------------------------------
(* What failing rebuilds leave behind.                                     *)

Leftovers == {g \in created \ ({0} \cup discarded) :
                 parent[g] = active /\ \A x \in Job : call[x].generation # g}

Spent == (MaxFaults - faults) + (MaxCrashes - crashes)

LEMMA LeftoversFinite ==
  ASSUME TInv
  PROVE  IsFiniteSet(Leftovers) /\ Cardinality(Leftovers) \in Nat /\ Spent \in Nat
<1>1. IsFiniteSet(0..MaxGenerations)
  BY RebuildAssumption, FS_Interval
<1>2. Leftovers \in SUBSET (0..MaxGenerations)
  BY Types DEF Leftovers, Generation
<1>3. IsFiniteSet(Leftovers)
  BY <1>1, <1>2, FS_Subset
<1> QED
  BY <1>3, FS_CardinalityType, Types, RebuildAssumption DEF TInv, Spent

LEMMA DifferencesTyped ==
  ASSUME NEW f \in Nat, NEW c \in Nat, f <= MaxFaults, c <= MaxCrashes
  PROVE  (MaxFaults - f) + (MaxCrashes - c) \in Nat
  BY RebuildAssumption

\* Nothing new is left behind, or one generation for a fault or a crash.
LEMMA FewerLeftovers ==
  ASSUME TInv, TInv', LeftoversBounded, Leftovers' \subseteq Leftovers, Spent <= Spent'
  PROVE  LeftoversBounded'
<1>1. /\ IsFiniteSet(Leftovers) /\ Cardinality(Leftovers) \in Nat /\ Spent \in Nat
  BY LeftoversFinite
<1>2. Spent' \in Nat
  <2>1. BTypeOK' /\ faults' <= MaxFaults /\ crashes' <= MaxCrashes
    BY DEF TInv
  <2>2. faults' \in Nat /\ crashes' \in Nat
    BY <2>1 DEF BTypeOK
  <2>3. Spent' = (MaxFaults - faults') + (MaxCrashes - crashes')
    BY DEF Spent
  <2> QED
    BY <2>1, <2>2, <2>3, DifferencesTyped
<1>3. Cardinality(Leftovers') \in Nat /\ Cardinality(Leftovers') <= Cardinality(Leftovers)
  BY <1>1, FS_Subset, FS_CardinalityType
<1>4. Cardinality(Leftovers) <= Spent
  BY DEF LeftoversBounded, Leftovers, Spent
<1>5. Cardinality(Leftovers') <= Spent'
  BY <1>1, <1>2, <1>3, <1>4
<1> QED
  BY <1>5 DEF LeftoversBounded, Leftovers, Spent

LEMMA OneLeftover ==
  ASSUME TInv, TInv', LeftoversBounded, NEW g, Leftovers' \subseteq Leftovers \cup {g},
         Spent' = Spent + 1
  PROVE  LeftoversBounded'
<1>1. /\ IsFiniteSet(Leftovers) /\ Cardinality(Leftovers) \in Nat /\ Spent \in Nat
  BY LeftoversFinite
<1>2. /\ IsFiniteSet(Leftovers \cup {g})
      /\ Cardinality(Leftovers \cup {g}) \in Nat
      /\ Cardinality(Leftovers \cup {g}) <= Cardinality(Leftovers) + 1
  BY <1>1, FS_AddElement, FS_CardinalityType
<1>3. Cardinality(Leftovers') \in Nat /\ Cardinality(Leftovers') <= Cardinality(Leftovers \cup {g})
  BY <1>2, FS_Subset, FS_CardinalityType
<1>4. Cardinality(Leftovers) <= Spent
  BY DEF LeftoversBounded, Leftovers, Spent
<1>5. Cardinality(Leftovers') <= Spent'
  BY <1>1, <1>2, <1>3, <1>4
<1> QED
  BY <1>5 DEF LeftoversBounded, Leftovers, Spent

LEMMA SpentAfter ==
  ASSUME TInv
  PROVE  /\ faults' = faults /\ crashes' = crashes => Spent' = Spent
         /\ Fault /\ crashes' = crashes => Spent' = Spent + 1
         /\ faults' = faults /\ crashes' = crashes - 1 => Spent' = Spent + 1
         /\ Spent <= Spent /\ Spent <= Spent + 1
  BY Types, RebuildAssumption DEF Spent, Fault

\* A step that changes neither the generations nor who owns them.
SameOwners ==
    /\ created' = created /\ parent' = parent /\ active' = active /\ discarded' = discarded
    /\ \A y \in Job : call'[y].generation = call[y].generation

LEMMA LInit == BInit => LeftoversBounded
<1> SUFFICES ASSUME BInit PROVE LeftoversBounded
  OBVIOUS
<1>1. Leftovers = {}
  BY DEF BInit, Leftovers
<1>2. Cardinality(Leftovers) = 0
  BY <1>1, FS_EmptySet
<1>3. Spent = 0
  BY RebuildAssumption DEF BInit, Spent
<1>4. Cardinality(Leftovers) <= Spent
  BY <1>2, <1>3
<1> QED
  BY <1>4 DEF LeftoversBounded, Leftovers, Spent

LEMMA LStep == TInv /\ TInv' /\ GInv /\ LeftoversBounded /\ [BNext]_bvars => LeftoversBounded'
<1> SUFFICES ASSUME TInv, TInv', GInv, LeftoversBounded, [BNext]_bvars PROVE LeftoversBounded'
  OBVIOUS
<1>1. ASSUME SameOwners, Spent <= Spent' PROVE LeftoversBounded'
  BY <1>1, FewerLeftovers DEF SameOwners, Leftovers
<1>2. ASSUME NEW x \in Job, OthersKept(x), Ended(x), created' = created, parent' = parent,
             active' = active, discarded' = discarded
      PROVE  /\ Leftovers' \subseteq Leftovers \cup {call[x].generation}
             /\ call[x].generation = 0 \/ Previous(x) # active => Leftovers' \subseteq Leftovers
  BY <1>2 DEF OthersKept, Leftovers, Previous
<1>3. ASSUME NEW x \in Job, CaptureBoundary(x) PROVE LeftoversBounded'
  BY <1>1, <1>3, CaptureEffect, SpentAfter DEF SameOwners, OthersKept, adapter, rest
<1>4. ASSUME NEW x \in Job, CreateGeneration(x) PROVE LeftoversBounded'
  <2>1. /\ OthersKept(x) /\ pc[x] = "create" /\ call[x].generation = 0
        /\ UNCHANGED <<active, discarded, crashes>>
    BY <1>4, CreateEffect DEF TInv, CallTyped, Owning, rest
  <2>2. ASSUME NEW g \in Generation, Creates(x, g) PROVE LeftoversBounded'
    <3>1. /\ created' = created \cup {g}
          /\ \A h \in Generation : h # g => parent'[h] = parent[h]
      BY <2>2, Types DEF Creates
    <3>2. CASE Owns(x, g)
      <4>1. Leftovers' \subseteq Leftovers
        BY <2>1, <3>1, <3>2, Types DEF Leftovers, OthersKept, Owns
      <4> QED
        BY <2>1, <3>2, <4>1, SpentAfter, FewerLeftovers DEF Owns
    <3>3. CASE Ended(x) /\ Fault
      <4>1. Leftovers' \subseteq Leftovers \cup {g}
        BY <2>1, <3>1, <3>3, EndedTyped, Types DEF Leftovers, OthersKept
      <4> QED
        BY <2>1, <3>3, <4>1, SpentAfter, OneLeftover
    <3> QED
      BY <2>2, <3>2, <3>3 DEF Creates
  <2>3. CASE Ended(x) /\ Fault /\ UNCHANGED <<created, parent>>
    BY <1>2, <2>1, <2>3, SpentAfter, FewerLeftovers
  <2> QED
    BY <1>4, <2>2, <2>3, CreateEffect
<1>5. ASSUME NEW x \in Job, WriteBatch(x) \/ Tail(x) PROVE LeftoversBounded'
  BY <1>1, <1>5, WriteEffect, SpentAfter DEF SameOwners, OthersKept, GoesOn, rest
<1>6. ASSUME NEW x \in Job, ScanEnds(x) \/ Validate(x) \/ GiveUp(x) PROVE LeftoversBounded'
  <2>1. SameOwners /\ crashes' = crashes /\ (faults' = faults \/ Fault)
    BY <1>6, MoveEffect DEF SameOwners, adapter, rest
  <2> QED
    BY <1>1, <2>1, SpentAfter
<1>7. ASSUME NEW x \in Job, Discard(x) PROVE LeftoversBounded'
  <2>1. /\ OthersKept(x) /\ Ended(x) /\ crashes' = crashes
        /\ created' = created /\ parent' = parent /\ active' = active
    BY <1>7, DiscardEffect DEF rest
  <2>2. CASE discarded' = discarded \cup {call[x].generation} /\ faults' = faults
    <3>1. Leftovers' \subseteq Leftovers
      BY <2>1, <2>2 DEF OthersKept, Leftovers
    <3> QED
      BY <2>1, <2>2, <3>1, SpentAfter, FewerLeftovers
  <2>3. CASE discarded' = discarded /\ Fault
    BY <1>2, <2>1, <2>3, SpentAfter, OneLeftover
  <2> QED
    BY <1>7, <2>2, <2>3, DiscardEffect
<1>8. ASSUME NEW x \in Job, Activate(x) PROVE LeftoversBounded'
  <2>1. /\ OthersKept(x) /\ pc[x] = "activate" /\ crashes' = crashes
        /\ created' = created /\ parent' = parent /\ discarded' = discarded
        /\ faults' = faults \/ Fault
    BY <1>8, ActivateEffect DEF rest
  <2>2. CASE active' = call[x].generation
    <3>1. \A h \in Generation : parent[h] # call[x].generation
      BY <2>1 DEF GInv, JobsOK, Fresh, Building, Owning, Cutting
    <3>2. Leftovers' = {}
      BY <2>1, <2>2, <3>1, Types DEF Leftovers
    <3> QED
      BY <2>1, <3>2, SpentAfter, FewerLeftovers
  <2>3. CASE Ended(x) /\ active # Previous(x) /\ active' = active
    BY <1>2, <2>1, <2>3, SpentAfter, FewerLeftovers
  <2>4. CASE Ended(x) /\ active' = active /\ Fault
    BY <1>2, <2>1, <2>4, SpentAfter, OneLeftover
  <2> QED
    BY <1>8, <2>2, <2>3, <2>4, ActivateEffect
<1>9. ASSUME NEW x \in Job, Retain(x) \/ Record(x) PROVE LeftoversBounded'
  <2>1. /\ OthersKept(x) /\ crashes' = crashes /\ created' = created /\ parent' = parent
        /\ active' = active /\ discarded' = discarded /\ Cutting(x)
    BY <1>9, RetainEffect, RecordEffect DEF rest, adapter, Cutting
  <2>2. faults' = faults \/ Fault
    BY <1>9, RetainEffect, RecordEffect
  <2>3. Previous(x) # active
    BY <2>1 DEF GInv, JobsOK, Replaced
  <2>4. CASE Ended(x)
    BY <1>2, <2>1, <2>2, <2>3, <2>4, SpentAfter, FewerLeftovers
  <2>5. CASE call' = call
    BY <1>1, <2>1, <2>2, <2>5, SpentAfter DEF SameOwners
  <2> QED
    BY <1>9, <2>4, <2>5, RetainEffect, RecordEffect
<1>10. ASSUME NEW x \in Job, Crash(x) PROVE LeftoversBounded'
  BY <1>2, <1>10, CrashEffect, SpentAfter, OneLeftover DEF adapter
<1>11. ASSUME (\E x \in Job : Cancel(x)) \/ Commit \/ UNCHANGED bvars PROVE LeftoversBounded'
  BY <1>1, <1>11, EnvironmentEffect, SpentAfter DEF SameOwners, adapter
<1> QED
  BY <1>3, <1>4, <1>5, <1>6, <1>7, <1>8, <1>9, <1>10, <1>11 DEF BNext, JobStep

(***************************************************************************)
(* Of the generations made to replace the active one, no more stay behind  *)
(* undiscarded and unowned than hooks have failed and jobs have died.      *)
(***************************************************************************)
THEOREM LeftoversAccounted == BSpec => []LeftoversBounded
<1>1. BInit => TInv /\ GInv /\ LeftoversBounded
  BY TInit, GInit, LInit
<1>2. TInv /\ GInv /\ LeftoversBounded /\ [BNext]_bvars => (TInv /\ GInv /\ LeftoversBounded)'
  BY TStep, GStep, LStep
<1> QED
  BY <1>1, <1>2, PTL DEF BSpec
================================================================================
