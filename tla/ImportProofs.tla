----------------------------- MODULE ImportProofs -----------------------------
(***************************************************************************)
(* Proofs about logical imports and validated restores, for every set of   *)
(* exports, every damage of their artifacts and every number of importers, *)
(* calls and faults.                                                       *)
(***************************************************************************)
EXTENDS LogicalImport, SequenceTheorems, TLAPS

Line == LogicalRecord \cup {Garbage}

TInv ==
    /\ ITypeOK
    /\ stored \in [Export -> Seq(Seq(Line))]
    /\ \A e \in Export : Len(stored[e]) = Len(e)
    /\ call \in [Importer -> Call \cup {NoCall}]
    /\ \A i \in Importer :
          /\ pc[i] = "idle" => changed[i] = FALSE
          /\ pc[i] # "idle" => /\ call[i].part \in 1..(Len(call[i].export) + 1)
                               /\ Len(written[i]) = Len(call[i].export)

LEMMA Types ==
  ASSUME TInv
  PROVE  /\ stored \in [Export -> Seq(Seq(Line))]
         /\ target \in Contents /\ objects \subseteq LogicalRecord
         /\ pc \in [Importer -> {"idle", "verify", "write"}]
         /\ call \in [Importer -> Call \cup {NoCall}]
         /\ cancelled \in [Importer -> BOOLEAN] /\ changed \in [Importer -> BOOLEAN]
         /\ written \in [Importer -> Seq(Seq(LogicalRecord))]
         /\ reports \subseteq ImportReport /\ validated \subseteq RestoreValidationEvidence
         /\ calls \in Nat /\ damages \in Nat /\ faults \in Nat
  BY DEF TInv, ITypeOK

LEMMA ExportTyped ==
  ASSUME NEW e \in Export
  PROVE  e \in Seq(Seq(LogicalRecord)) /\ Len(e) \in Nat /\ DOMAIN e = 1..Len(e)
         /\ \A p \in 1..Len(e) : e[p] \in Seq(LogicalRecord)
  BY ImportAssumption, LenProperties, ElementOfSeq

LEMMA CallTyped ==
  ASSUME TInv, NEW i \in Importer, pc[i] # "idle"
  PROVE  /\ call[i] \in Call /\ call[i].export \in Export /\ call[i].policy \in MergePolicy
         /\ call[i].read \in Seq(LogicalRecord) /\ call[i].batch \in Seq(LogicalRecord)
         /\ Len(call[i].read) \in Nat /\ Len(call[i].batch) \in Nat
         /\ call[i].part \in Nat /\ call[i].part >= 1
         /\ call[i].part <= Len(call[i].export) + 1
         /\ Len(written[i]) = Len(call[i].export) /\ Len(written[i]) \in Nat
         /\ written[i] \in Seq(Seq(LogicalRecord))
         /\ \A p \in 1..Len(written[i]) : written[i][p] \in Seq(LogicalRecord)
<1>1. /\ call[i] \in Call /\ call[i].export \in Export /\ call[i].policy \in MergePolicy
      /\ call[i].read \in Seq(LogicalRecord) /\ call[i].batch \in Seq(LogicalRecord)
      /\ call[i].part \in Nat
  BY DEF TInv, ITypeOK, Call
<1>2. Len(call[i].export) \in Nat
  BY <1>1, ExportTyped
<1>3. Len(call[i].read) \in Nat /\ Len(call[i].batch) \in Nat
  BY <1>1, LenProperties
<1>4. /\ Len(written[i]) = Len(call[i].export) /\ call[i].part \in 1..(Len(call[i].export) + 1)
      /\ written[i] \in Seq(Seq(LogicalRecord))
  BY Types DEF TInv
<1>5. \A p \in 1..Len(written[i]) : written[i][p] \in Seq(LogicalRecord)
  BY <1>4, ElementOfSeq
<1> QED
  BY <1>1, <1>2, <1>3, <1>4, <1>5

\* The artifact of a partition, and the partition it should be.
LEMMA ArtifactTyped ==
  ASSUME TInv, NEW i \in Importer, Reading(i)
  PROVE  /\ pc[i] # "idle" /\ call[i].part \in 1..Len(call[i].export)
         /\ call[i].part \in 1..Len(written[i])
         /\ Artifact(i) \in Seq(Line) /\ Len(Artifact(i)) \in Nat
         /\ \A k \in 1..Len(Artifact(i)) : Artifact(i)[k] \in Line
         /\ call[i].export[call[i].part] \in Seq(LogicalRecord)
         /\ Len(call[i].export[call[i].part]) \in Nat
<1>1. pc[i] # "idle" /\ call[i].part <= Len(call[i].export)
  BY DEF Reading
<1>2. /\ call[i].export \in Export /\ call[i].part \in Nat /\ call[i].part >= 1
      /\ Len(written[i]) = Len(call[i].export)
  BY <1>1, CallTyped
<1>3. Len(call[i].export) \in Nat
  BY <1>2, ExportTyped
<1>4. call[i].part \in 1..Len(call[i].export)
  BY <1>1, <1>2, <1>3
<1>5. stored[call[i].export] \in Seq(Seq(Line)) /\ Len(stored[call[i].export]) = Len(call[i].export)
  BY <1>2, Types DEF TInv
<1>6. Artifact(i) \in Seq(Line)
  BY <1>4, <1>5, ElementOfSeq DEF Artifact
<1>7. call[i].export[call[i].part] \in Seq(LogicalRecord)
  BY <1>2, <1>4, ExportTyped
<1> QED
  BY <1>1, <1>2, <1>4, <1>6, <1>7, LenProperties, ElementOfSeq

--------------------------------------------------------------------------------
(***************************************************************************)
(* The effect of each action on the importer that takes it.                *)
(***************************************************************************)
OthersKept(i) ==
    /\ pc' \in [Importer -> {"idle", "verify", "write"}]
    /\ call' \in [Importer -> Call \cup {NoCall}]
    /\ cancelled' \in [Importer -> BOOLEAN] /\ changed' \in [Importer -> BOOLEAN]
    /\ written' \in [Importer -> Seq(Seq(LogicalRecord))]
    /\ \A j \in Importer \ {i} : /\ pc'[j] = pc[j] /\ call'[j] = call[j]
                                 /\ changed'[j] = changed[j] /\ written'[j] = written[j]

Ended(i) ==
    /\ OthersKept(i) /\ pc[i] # "idle"
    /\ pc'[i] = "idle" /\ changed'[i] = FALSE /\ written'[i] = << >>

\* The call goes on with the same export and policy.
GoesOn(i) ==
    /\ OthersKept(i) /\ pc[i] # "idle" /\ pc'[i] # "idle"
    /\ changed'[i] = changed[i]
    /\ call'[i] \in Call
    /\ call'[i].export = call[i].export /\ call'[i].policy = call[i].policy

LEMMA EndEffect ==
  ASSUME TInv, NEW i \in Importer, pc[i] # "idle", End(i)
  PROVE  Ended(i)
<1>1. << >> \in Seq(Seq(LogicalRecord)) /\ NoCall \in Call \cup {NoCall}
  BY EmptySeq
<1> QED
  BY <1>1, Types, Zenon DEF End, Ended, OthersKept

Starts(i) ==
    /\ OthersKept(i) /\ pc[i] = "idle" /\ pc'[i] = "verify" /\ changed'[i] = changed[i]
    /\ call'[i] \in Call /\ call'[i].part = 1
    /\ call'[i].read = << >> /\ call'[i].batch = << >>
    /\ Len(written'[i]) = Len(call'[i].export)
    /\ \A p \in 1..Len(written'[i]) : written'[i][p] = << >>
    /\ UNCHANGED <<stored, target, objects, reports, validated>>

LEMMA StartPassEffect ==
  ASSUME TInv, NEW i \in Importer, NEW e \in Export, NEW policy \in MergePolicy,
         NEW pass \in {"verify", "write"}, StartPass(i, pass, e, policy)
  PROVE  /\ pc' \in [Importer -> {"idle", "verify", "write"}] /\ pc'[i] = pass
         /\ call' \in [Importer -> Call \cup {NoCall}]
         /\ call'[i] \in Call /\ call'[i].part = 1 /\ call'[i].read = << >>
         /\ call'[i].batch = << >> /\ call'[i].export = e /\ call'[i].policy = policy
         /\ \A j \in Importer \ {i} : pc'[j] = pc[j] /\ call'[j] = call[j]
<1> DEFINE c == [export |-> e, policy |-> policy, part |-> 1, read |-> << >>, batch |-> << >>]
<1>1. << >> \in Seq(LogicalRecord)
  BY EmptySeq
<1>2. /\ c \in Call /\ c.part = 1 /\ c.read = << >> /\ c.batch = << >>
      /\ c.export = e /\ c.policy = policy
  BY <1>1 DEF Call
<1>3. call' = [call EXCEPT ![i] = c] /\ pc' = [pc EXCEPT ![i] = pass]
  BY DEF StartPass
<1> HIDE DEF c
<1> QED
  BY <1>2, <1>3, Types

LEMMA ImportEffect ==
  ASSUME TInv, NEW i \in Importer, ImportExport(i)
  PROVE  Starts(i)
<1>1. PICK e \in Export, policy \in MergePolicy :
         /\ StartPass(i, "verify", e, policy)
         /\ written' = [written EXCEPT ![i] = [p \in 1..Len(e) |-> << >>]]
  BY DEF ImportExport
<1> DEFINE w == [p \in 1..Len(e) |-> << >>]
<1>2. Len(e) \in Nat
  BY ExportTyped
<1>3. w \in Seq(Seq(LogicalRecord)) /\ Len(w) = Len(e) /\ \A p \in 1..Len(e) : w[p] = << >>
  BY <1>2
<1> HIDE DEF w
<1>4. /\ written' \in [Importer -> Seq(Seq(LogicalRecord))] /\ written'[i] = w
      /\ \A j \in Importer \ {i} : written'[j] = written[j]
  BY <1>1, <1>3, Types DEF w
<1>5. /\ pc[i] = "idle" /\ UNCHANGED <<cancelled, changed>>
      /\ UNCHANGED <<stored, target, objects, reports, validated>>
  BY DEF ImportExport
<1>6. /\ pc' \in [Importer -> {"idle", "verify", "write"}] /\ pc'[i] = "verify"
      /\ call' \in [Importer -> Call \cup {NoCall}]
      /\ call'[i] \in Call /\ call'[i].part = 1 /\ call'[i].read = << >>
      /\ call'[i].batch = << >> /\ call'[i].export = e
      /\ \A j \in Importer \ {i} : pc'[j] = pc[j] /\ call'[j] = call[j]
  BY <1>1, StartPassEffect
<1>7. OthersKept(i)
  BY <1>4, <1>5, <1>6, Types DEF OthersKept
<1> QED
  BY <1>3, <1>4, <1>5, <1>6, <1>7 DEF Starts

\* A call that fails leaves what it has written to the target.
Fails(i) ==
    /\ Ended(i) /\ target' \in Contents
    /\ UNCHANGED <<stored, objects, reports, validated>>

ConsumesLine(i, line) ==
    /\ Reading(i) /\ GoesOn(i) /\ pc'[i] = pc[i] /\ call'[i].part = call[i].part
    /\ Len(call[i].read) < Len(Artifact(i))
    /\ line = Artifact(i)[Len(call[i].read) + 1] /\ line \in LogicalRecord
    /\ call'[i].read = Append(call[i].read, line)
    /\ call'[i].batch = IF pc[i] = "write" THEN Append(call[i].batch, line) ELSE call[i].batch
    /\ objects' = IF pc[i] = "write" THEN objects \cup {line} ELSE objects
    /\ written'[i] = written[i]
    /\ UNCHANGED <<stored, target, reports, validated>>

Consumes(i) == \E line \in LogicalRecord : ConsumesLine(i, line)

LEMMA ConsumeEffect ==
  ASSUME TInv, NEW i \in Importer, Consume(i)
  PROVE  Fails(i) \/ Consumes(i)
<1> DEFINE line == Artifact(i)[Len(call[i].read) + 1]
<1>1. /\ Reading(i) /\ pc[i] # "idle" /\ Len(call[i].read) < Len(Artifact(i))
      /\ UNCHANGED <<stored, target, reports, validated>>
  BY DEF Consume, Reading
<1>2. CASE End(i) /\ UNCHANGED objects
  BY <1>1, <1>2, EndEffect, Types DEF Fails
<1>3. CASE ~(End(i) /\ UNCHANGED objects)
  <2> DEFINE write == pc[i] = "write"
             read == Append(call[i].read, line)
             batch == IF write THEN Append(call[i].batch, line) ELSE call[i].batch
             c == [call[i] EXCEPT !.read = read, !.batch = batch]
  <2>1. /\ Consumable(call[i].read, line)
        /\ call' = [call EXCEPT ![i].read = Append(@, line),
                                ![i].batch = IF pc[i] = "write" THEN Append(@, line) ELSE @]
        /\ objects' = IF pc[i] = "write" THEN objects \cup {line} ELSE objects
        /\ UNCHANGED <<pc, cancelled, changed, written>>
    BY <1>3 DEF Consume
  <2>2. line \in Line /\ line # Garbage
    BY <1>1, <2>1, ArtifactTyped, CallTyped DEF Consumable
  <2>3. line \in LogicalRecord
    BY <2>2 DEF Line
  <2> HIDE DEF line
  <2>4. read \in Seq(LogicalRecord) /\ batch \in Seq(LogicalRecord)
    BY <1>1, <2>3, CallTyped
  <2>5. call' = [call EXCEPT ![i] = c]
    BY <1>1, <2>1, CallTyped DEF Call
  <2> HIDE DEF read, batch
  <2>6. /\ c \in Call /\ c.export = call[i].export /\ c.policy = call[i].policy
        /\ c.part = call[i].part /\ c.read = read /\ c.batch = batch
    BY <1>1, <2>4, CallTyped DEF Call
  <2> HIDE DEF c
  <2>7. OthersKept(i) /\ call'[i] = c
    BY <2>1, <2>5, <2>6, Types DEF OthersKept
  <2>8. GoesOn(i)
    BY <1>1, <2>1, <2>6, <2>7 DEF GoesOn
  <2>9. ConsumesLine(i, line)
    BY <1>1, <2>1, <2>3, <2>6, <2>7, <2>8 DEF ConsumesLine, line, read, batch
  <2> QED
    BY <2>3, <2>9 DEF Consumes
<1> QED
  BY <1>2, <1>3

LEMMA MergeTyped ==
  ASSUME TInv, NEW policy, NEW batch \in Seq(LogicalRecord), NEW id \in Id
  PROVE  Merge(policy, batch, id) \in 0..MaxVersion
<1> DEFINE versions == {batch[k].version : k \in {j \in DOMAIN batch : batch[j].logical_id = id}}
           v == CHOOSE v \in versions : TRUE
<1>1. \A k \in DOMAIN batch : batch[k] \in LogicalRecord
  BY LenProperties, ElementOfSeq
<1>2. versions \subseteq 0..MaxVersion
  BY <1>1, ImportAssumption DEF LogicalRecord
<1>3. target[id] \in 0..MaxVersion
  BY Types DEF Contents
<1>4. versions # {} => v \in versions
  OBVIOUS
<1> HIDE DEF v, versions
<1>5. Merge(policy, batch, id) \in {target[id], v} /\ (versions = {} => Merge(policy, batch, id) = target[id])
  BY DEF Merge, v, versions
<1> QED
  BY <1>2, <1>3, <1>4, <1>5

Flushes(i) ==
    /\ Reading(i) /\ GoesOn(i) /\ pc'[i] = pc[i]
    /\ call'[i].part = call[i].part /\ call'[i].read = call[i].read
    /\ call[i].batch # << >> /\ call'[i].batch = << >>
    /\ Len(written'[i]) = Len(written[i])
    /\ \A p \in 1..Len(written[i]) :
          written'[i][p] = IF p = call[i].part THEN written[i][p] \o call[i].batch
                                               ELSE written[i][p]
    /\ \A id \in Id : target'[id] = Merge(call[i].policy, call[i].batch, id)
    /\ target' \in Contents
    /\ UNCHANGED <<stored, objects, reports, validated>>

LEMMA FlushEffect ==
  ASSUME TInv, NEW i \in Importer, Flush(i)
  PROVE  Fails(i) \/ Flushes(i)
<1>1. /\ Reading(i) /\ pc[i] # "idle" /\ call[i].batch # << >>
      /\ UNCHANGED <<stored, objects, reports, validated>>
  BY DEF Flush, Reading
<1>2. PICK size \in 0..Len(call[i].batch) :
         LET batch == SubSeq(call[i].batch, 1, size) IN
         /\ target' = [id \in Id |-> Merge(call[i].policy, batch, id)]
         /\ IF size = Len(call[i].batch)
            THEN /\ written' = [written EXCEPT ![i][call[i].part] = @ \o batch]
                 /\ call' = [call EXCEPT ![i].batch = << >>]
                 /\ UNCHANGED <<pc, cancelled, changed, faults>>
            ELSE End(i) /\ Fault
  BY DEF Flush
<1> DEFINE batch == SubSeq(call[i].batch, 1, size)
<1>3. batch \in Seq(LogicalRecord)
  <2>1. \A k \in 1..size : call[i].batch[k] \in LogicalRecord
    BY <1>1, CallTyped, ElementOfSeq
  <2>2. 1 \in Int /\ size \in Int
    BY <1>1, CallTyped
  <2> QED
    BY <2>1, <2>2, SubSeqProperties
<1>4. target' \in Contents
  <2>1. target' = [id \in Id |-> Merge(call[i].policy, batch, id)]
    BY <1>2
  <2> HIDE DEF batch
  <2> QED
    BY <1>3, <2>1, MergeTyped DEF Contents
<1>5. CASE size # Len(call[i].batch)
  BY <1>1, <1>2, <1>4, <1>5, EndEffect DEF Fails
<1>6. CASE size = Len(call[i].batch)
  <2>1. batch = call[i].batch
    BY <1>1, <1>6, CallTyped, SubSeqFull
  <2>2. /\ \A id \in Id : target'[id] = Merge(call[i].policy, call[i].batch, id)
        /\ written' = [written EXCEPT ![i][call[i].part] = @ \o call[i].batch]
        /\ call' = [call EXCEPT ![i].batch = << >>]
        /\ UNCHANGED <<pc, cancelled, changed>>
    BY <1>2, <1>6, <2>1
  <2> DEFINE c == [call[i] EXCEPT !.batch = << >>]
             p == call[i].part
             added == written[i][p] \o call[i].batch
             w == [written[i] EXCEPT ![p] = added]
  <2>3. call' = [call EXCEPT ![i] = c] /\ written' = [written EXCEPT ![i] = w]
    BY <2>2
  <2>4. << >> \in Seq(LogicalRecord)
    BY EmptySeq
  <2>5. /\ c \in Call /\ c.export = call[i].export /\ c.policy = call[i].policy
        /\ c.part = call[i].part /\ c.read = call[i].read /\ c.batch = << >>
    BY <1>1, <2>4, CallTyped DEF Call
  <2>6. p \in 1..Len(written[i]) /\ written[i] \in Seq(Seq(LogicalRecord))
    BY <1>1, ArtifactTyped, CallTyped
  <2>7. added \in Seq(LogicalRecord)
    BY <1>1, <2>6, CallTyped, ConcatProperties
  <2> HIDE DEF added
  <2>8. /\ w \in Seq(Seq(LogicalRecord)) /\ Len(w) = Len(written[i])
        /\ \A q \in 1..Len(written[i]) : w[q] = IF q = p THEN added ELSE written[i][q]
    BY <2>6, <2>7, ExceptSeq
  <2> HIDE DEF c, w
  <2>9. OthersKept(i) /\ call'[i] = c /\ written'[i] = w
    BY <2>2, <2>3, <2>5, <2>8, Types, ZenonT(40) DEF OthersKept
  <2>10. GoesOn(i)
    BY <1>1, <2>2, <2>5, <2>9 DEF GoesOn
  <2>11. \A q \in 1..Len(written[i]) :
            written'[i][q] = IF q = p THEN written[i][q] \o call[i].batch ELSE written[i][q]
    BY <2>8, <2>9 DEF added
  <2> QED
    BY <1>1, <1>4, <2>2, <2>5, <2>8, <2>9, <2>10, <2>11 DEF Flushes
<1> QED
  BY <1>5, <1>6

Passes(i) ==
    /\ Reading(i) /\ GoesOn(i) /\ pc'[i] = pc[i] /\ Matches(i)
    /\ Len(call[i].read) >= Len(Artifact(i))
    /\ call[i].batch = << >> /\ call'[i].batch = << >>
    /\ call'[i].part = call[i].part + 1 /\ call'[i].read = << >>
    /\ written'[i] = written[i]
    /\ UNCHANGED <<stored, target, objects, reports, validated>>

LEMMA EndPartitionEffect ==
  ASSUME TInv, NEW i \in Importer, EndPartition(i)
  PROVE  Fails(i) \/ Passes(i)
<1>1. /\ Reading(i) /\ pc[i] # "idle" /\ call[i].batch = << >>
      /\ Len(call[i].read) >= Len(Artifact(i))
      /\ UNCHANGED <<stored, target, objects, reports, validated>>
  BY DEF EndPartition, Reading
<1>2. CASE ~Matches(i)
  BY <1>1, <1>2, EndEffect, Types DEF EndPartition, Fails
<1>3. CASE Matches(i)
  <2>1. /\ call' = [call EXCEPT ![i].part = @ + 1, ![i].read = << >>]
        /\ UNCHANGED <<pc, cancelled, changed, written>>
    BY <1>3 DEF EndPartition
  <2>2. PICK part \in Nat, read \in Seq(LogicalRecord) :
           part = call[i].part + 1 /\ read = << >>
    BY <1>1, EmptySeq, CallTyped
  <2> DEFINE c == [call[i] EXCEPT !.part = part, !.read = read]
  <2>3. call' = [call EXCEPT ![i] = c]
    BY <1>1, <2>1, <2>2, CallTyped DEF Call
  <2>4. /\ c \in Call /\ c.export = call[i].export /\ c.policy = call[i].policy
        /\ c.part = call[i].part + 1 /\ c.read = << >> /\ c.batch = call[i].batch
    <3>1. call[i] \in Call
      BY <1>1, CallTyped
    <3> QED
      BY <2>2, <3>1 DEF Call
  <2> HIDE DEF c
  <2>5. OthersKept(i) /\ call'[i] = c
    BY <2>1, <2>3, <2>4, Types DEF OthersKept
  <2>6. GoesOn(i)
    BY <1>1, <2>1, <2>4, <2>5 DEF GoesOn
  <2> QED
    BY <1>1, <1>3, <2>1, <2>4, <2>5, <2>6 DEF Passes
<1> QED
  BY <1>2, <1>3

Rewinds(i) ==
    /\ ~Reading(i) /\ GoesOn(i) /\ pc[i] = "verify" /\ pc'[i] = "write"
    /\ call[i].policy = "require-empty" => \A id \in Id : target[id] = 0
    /\ call'[i].part = 1 /\ call'[i].read = << >> /\ call'[i].batch = << >>
    /\ written'[i] = written[i]
    /\ UNCHANGED <<stored, target, objects, reports, validated>>

LEMMA PreflightEffect ==
  ASSUME TInv, NEW i \in Importer, Preflight(i)
  PROVE  Fails(i) \/ Rewinds(i)
<1>1. /\ pc[i] = "verify" /\ ~Reading(i)
      /\ UNCHANGED <<stored, target, objects, reports, validated>>
  BY DEF Preflight
<1>2. CASE call[i].policy = "require-empty" /\ \E id \in Id : target[id] # 0
  BY <1>1, <1>2, EndEffect, Types DEF Preflight, Fails
<1>3. CASE ~(call[i].policy = "require-empty" /\ \E id \in Id : target[id] # 0)
  <2>1. /\ StartPass(i, "write", call[i].export, call[i].policy)
        /\ UNCHANGED <<cancelled, changed, written>>
    BY <1>3 DEF Preflight
  <2>2. call[i].export \in Export /\ call[i].policy \in MergePolicy
    BY <1>1, CallTyped
  <2>3. /\ pc' \in [Importer -> {"idle", "verify", "write"}] /\ pc'[i] = "write"
        /\ call' \in [Importer -> Call \cup {NoCall}]
        /\ call'[i] \in Call /\ call'[i].part = 1 /\ call'[i].read = << >>
        /\ call'[i].batch = << >> /\ call'[i].export = call[i].export
        /\ call'[i].policy = call[i].policy
        /\ \A j \in Importer \ {i} : pc'[j] = pc[j] /\ call'[j] = call[j]
    BY <2>1, <2>2, StartPassEffect
  <2>4. OthersKept(i)
    BY <2>1, <2>3, Types DEF OthersKept
  <2>5. GoesOn(i)
    BY <1>1, <2>1, <2>3, <2>4 DEF GoesOn
  <2> QED
    BY <1>1, <1>3, <2>1, <2>3, <2>5 DEF Rewinds
<1> QED
  BY <1>2, <1>3

Report(i) ==
    [export |-> call[i].export, policy |-> call[i].policy,
     target_fingerprint |-> target, written |-> written[i]]

Finishes(i) ==
    /\ Ended(i) /\ pc[i] = "write" /\ ~Reading(i)
    /\ reports' = reports \cup {Report(i)}
    /\ UNCHANGED <<stored, target, objects, validated>>

LEMMA FinalizeEffect ==
  ASSUME TInv, NEW i \in Importer, Finalize(i)
  PROVE  Finishes(i)
  BY EndEffect DEF Finalize, Finishes, Report

LEMMA GiveUpEffect ==
  ASSUME TInv, NEW i \in Importer, GiveUp(i)
  PROVE  Fails(i)
  BY EndEffect, Types DEF GiveUp, Fails

\* Every step of an importer.
Steps(i) ==
    \/ Starts(i) \/ Consumes(i) \/ Flushes(i) \/ Passes(i) \/ Rewinds(i) \/ Finishes(i)
    \/ Fails(i)

\* A step that leaves alone what importers do; the artifacts may change.
Marks ==
    \/ \E e \in Export : \E p \in DOMAIN e : \E content \in Damage \cup {e[p]} :
          /\ stored' = [stored EXCEPT ![e][p] = content]
          /\ changed' = [i \in Importer |-> pc[i] # "idle"]
          /\ UNCHANGED <<cancelled, validated>>
    \/ /\ cancelled' \in [Importer -> BOOLEAN]
       /\ UNCHANGED <<stored, changed, validated>>
    \/ /\ \E report \in reports :
             validated' = validated \cup {[export |-> report.export,
                                target_fingerprint |-> report.target_fingerprint]}
       /\ UNCHANGED <<stored, changed, cancelled>>

Elsewhere == Marks /\ UNCHANGED <<target, objects, pc, call, written, reports>>

LEMMA StepEffect ==
  ASSUME TInv, INext
  PROVE  Elsewhere \/ \E i \in Importer : Steps(i)
<1>1. ASSUME NEW i \in Importer, Cancel(i)
      PROVE  Elsewhere
  <2>1. cancelled' \in [Importer -> BOOLEAN]
    BY <1>1, Types DEF Cancel
  <2> QED
    BY <1>1, <2>1 DEF Cancel, Elsewhere, Marks
<1>2. CASE DamageArtifact
  BY <1>2 DEF DamageArtifact, Elsewhere, Marks
<1>3. CASE ValidateRestore
  BY <1>3 DEF ValidateRestore, ReportOf, Elsewhere, Marks
<1> QED
  BY <1>1, <1>2, <1>3, ImportEffect, ConsumeEffect, FlushEffect, EndPartitionEffect,
     PreflightEffect, FinalizeEffect, GiveUpEffect DEF INext, Steps

LEMMA CountersTyped ==
  ASSUME TInv, INext
  PROVE  calls' \in Nat /\ damages' \in Nat /\ faults' \in Nat
<1>1. /\ calls' = calls \/ (calls > 0 /\ calls' = calls - 1)
      /\ damages' = damages \/ (damages > 0 /\ damages' = damages - 1)
      /\ faults' = faults \/ (faults > 0 /\ faults' = faults - 1)
  BY DEF INext, ImportExport, Consume, Flush, EndPartition, Preflight, Finalize, GiveUp, Cancel,
         DamageArtifact, ValidateRestore, Fault
<1> QED
  BY <1>1, Types

\* The call of an importer after its step.
CallOK(i) ==
    /\ pc'[i] = "idle" => changed'[i] = FALSE
    /\ pc'[i] # "idle" => /\ call'[i] \in Call
                          /\ call'[i].part \in 1..(Len(call'[i].export) + 1)
                          /\ Len(written'[i]) = Len(call'[i].export)

LEMMA StepCallOK ==
  ASSUME TInv, NEW i \in Importer, Steps(i)
  PROVE  OthersKept(i) /\ CallOK(i)
<1>1. CASE Starts(i)
  <2>1. call'[i].export \in Export
    BY <1>1 DEF Starts, Call
  <2>2. Len(call'[i].export) \in Nat
    BY <2>1, ExportTyped
  <2> QED
    BY <1>1, <2>2 DEF Starts, CallOK
<1>2. CASE Consumes(i)
  BY <1>2, CallTyped DEF Consumes, ConsumesLine, GoesOn, CallOK, TInv
<1>3. CASE Flushes(i)
  BY <1>3, CallTyped DEF Flushes, GoesOn, CallOK, TInv
<1>4. CASE Passes(i)
  <2>1. call[i].part \in 1..Len(call[i].export) /\ Len(call[i].export) \in Nat
        /\ Len(written[i]) = Len(call[i].export)
    BY <1>4, ArtifactTyped, CallTyped, ExportTyped DEF Passes
  <2>2. call[i].part + 1 \in 1..(Len(call[i].export) + 1)
    BY <2>1
  <2> QED
    BY <1>4, <2>1, <2>2 DEF Passes, GoesOn, CallOK
<1>5. CASE Rewinds(i)
  <2>1. Len(call[i].export) \in Nat /\ Len(written[i]) = Len(call[i].export)
    BY <1>5, CallTyped, ExportTyped DEF Rewinds
  <2> QED
    BY <1>5, <2>1 DEF Rewinds, GoesOn, CallOK
<1>6. CASE Finishes(i) \/ Fails(i)
  BY <1>6 DEF Finishes, Fails, Ended, CallOK
<1> QED
  BY <1>1, <1>2, <1>3, <1>4, <1>5, <1>6 DEF Steps

LEMMA StepRest ==
  ASSUME TInv, NEW i \in Importer, Steps(i)
  PROVE  /\ stored' = stored /\ validated' = validated
         /\ target' \in Contents /\ objects' \subseteq LogicalRecord
         /\ objects \subseteq objects'
         /\ reports' \subseteq ImportReport
<1>1. CASE Consumes(i)
  <2>1. PICK line \in LogicalRecord : ConsumesLine(i, line)
    BY <1>1 DEF Consumes
  <2> QED
    BY <2>1, Types DEF ConsumesLine
<1>2. CASE Finishes(i)
  <2>1. Report(i) \in ImportReport
    BY <1>2, CallTyped, Types DEF Finishes, Report, ImportReport
  <2> QED
    BY <1>2, <2>1, Types DEF Finishes
<1>3. CASE Starts(i) \/ Flushes(i) \/ Passes(i) \/ Rewinds(i) \/ Fails(i)
  BY <1>3, Types DEF Starts, Flushes, Passes, Rewinds, Fails
<1> QED
  BY <1>1, <1>2, <1>3 DEF Steps

LEMMA StepTInv ==
  ASSUME TInv, INext, NEW i \in Importer, Steps(i)
  PROVE  TInv'
<1>1. OthersKept(i) /\ CallOK(i)
  BY StepCallOK
<1>2. /\ stored' = stored /\ validated' = validated
      /\ target' \in Contents /\ objects' \subseteq LogicalRecord
      /\ reports' \subseteq ImportReport
  BY StepRest
<1>3. ASSUME NEW j \in Importer
      PROVE  /\ pc'[j] = "idle" => changed'[j] = FALSE
             /\ pc'[j] # "idle" => /\ call'[j] \in Call
                                   /\ call'[j].part \in 1..(Len(call'[j].export) + 1)
                                   /\ Len(written'[j]) = Len(call'[j].export)
  <2>1. CASE j = i
    BY <1>1, <2>1 DEF CallOK
  <2>2. CASE j # i
    BY <1>1, <2>2 DEF OthersKept, TInv, ITypeOK
  <2> QED
    BY <2>1, <2>2
<1>4. ITypeOK'
  BY <1>1, <1>2, <1>3, CountersTyped DEF ITypeOK, OthersKept, TInv
<1> QED
  BY <1>1, <1>2, <1>3, <1>4 DEF TInv, OthersKept

LEMMA DamageTyped ==
  ASSUME TInv, NEW e \in Export, NEW p \in DOMAIN e, NEW content \in Damage \cup {e[p]},
         stored' = [stored EXCEPT ![e][p] = content]
  PROVE  stored' \in [Export -> Seq(Seq(Line))] /\ \A d \in Export : Len(stored'[d]) = Len(d)
<1>1. Len(e) \in Nat /\ p \in 1..Len(e) /\ e[p] \in Seq(LogicalRecord)
  BY ExportTyped
<1>2. content \in Seq(Line)
  <2>1. e[p] \in Seq(Line)
    BY <1>1, SeqMonotonic DEF Line
  <2> QED
    BY <2>1, ImportAssumption DEF Line
<1>3. stored[e] \in Seq(Seq(Line)) /\ Len(stored[e]) = Len(e)
  BY Types DEF TInv
<1> DEFINE s == [stored[e] EXCEPT ![p] = content]
<1>4. s \in Seq(Seq(Line)) /\ Len(s) = Len(e)
  BY <1>1, <1>2, <1>3, ExceptSeq
<1>5. stored' = [stored EXCEPT ![e] = s]
  OBVIOUS
<1> HIDE DEF s
<1> QED
  BY <1>4, <1>5, Types DEF TInv

LEMMA EvidenceTyped ==
  ASSUME TInv, NEW report \in reports
  PROVE  [export |-> report.export, target_fingerprint |-> report.target_fingerprint]
             \in RestoreValidationEvidence
  BY Types DEF ImportReport, RestoreValidationEvidence

LEMMA ElsewhereTInv ==
  ASSUME TInv, INext, Elsewhere
  PROVE  TInv'
<1>1. /\ stored' \in [Export -> Seq(Seq(Line))] /\ \A e \in Export : Len(stored'[e]) = Len(e)
      /\ validated' \subseteq RestoreValidationEvidence
      /\ cancelled' \in [Importer -> BOOLEAN] /\ changed' \in [Importer -> BOOLEAN]
      /\ \A i \in Importer : pc[i] = "idle" => changed'[i] = FALSE
  <2>1. ASSUME NEW e \in Export, NEW p \in DOMAIN e, NEW content \in Damage \cup {e[p]},
               stored' = [stored EXCEPT ![e][p] = content]
        PROVE  stored' \in [Export -> Seq(Seq(Line))] /\ \A d \in Export : Len(stored'[d]) = Len(d)
    BY <2>1, DamageTyped
  <2>2. stored' = stored => /\ stored' \in [Export -> Seq(Seq(Line))]
                            /\ \A e \in Export : Len(stored'[e]) = Len(e)
    BY DEF TInv
  <2>3. stored' \in [Export -> Seq(Seq(Line))] /\ \A e \in Export : Len(stored'[e]) = Len(e)
    BY <2>1, <2>2 DEF Elsewhere, Marks
  <2>4. validated' \subseteq RestoreValidationEvidence
    BY EvidenceTyped, Types DEF Elsewhere, Marks
  <2>5. cancelled' \in [Importer -> BOOLEAN]
    BY Types DEF Elsewhere, Marks
  <2>6. CASE changed' = changed
    BY <2>3, <2>4, <2>5, <2>6, Types DEF TInv
  <2>7. CASE changed' = [i \in Importer |-> pc[i] # "idle"]
    <3>1. changed' \in [Importer -> BOOLEAN] /\ \A i \in Importer : changed'[i] = (pc[i] # "idle")
      BY <2>7, Zenon
    <3>2. ASSUME NEW i \in Importer, pc[i] = "idle" PROVE changed'[i] = FALSE
      BY <3>1, <3>2, Zenon
    <3> QED
      BY <2>3, <2>4, <2>5, <3>1, <3>2
  <2> QED
    BY <2>6, <2>7 DEF Elsewhere, Marks
<1>2. UNCHANGED <<target, objects, pc, call, written, reports>>
  BY DEF Elsewhere
<1>3. ITypeOK'
  BY <1>1, <1>2, CountersTyped DEF ITypeOK, TInv, Line
<1> QED
  BY <1>1, <1>2, <1>3 DEF TInv

LEMMA TInvStep ==
  ASSUME TInv, [INext]_ivars
  PROVE  TInv'
<1>1. CASE UNCHANGED ivars
  BY <1>1 DEF TInv, ITypeOK, ivars
<1> QED
  BY <1>1, StepEffect, StepTInv, ElsewhereTInv

LEMMA TInvInit ==
  ASSUME IInit
  PROVE  TInv
<1>1. stored \in [Export -> Seq(Seq(Line))] /\ \A e \in Export : stored[e] = e
  <2>1. ASSUME NEW e \in Export PROVE e \in Seq(Seq(Line))
    <3>1. Seq(LogicalRecord) \subseteq Seq(Line)
      BY SeqMonotonic DEF Line
    <3> QED
      BY <3>1, ExportTyped, SeqMonotonic
  <2> QED
    BY <2>1 DEF IInit
<1>2. target \in Contents
  BY DEF IInit, Contents
<1>3. written \in [Importer -> Seq(Seq(LogicalRecord))]
  BY EmptySeq DEF IInit
<1>4. ITypeOK
  BY <1>1, <1>2, <1>3, ImportAssumption DEF IInit, ITypeOK, Line
<1> QED
  BY <1>1, <1>4 DEF IInit, TInv

--------------------------------------------------------------------------------
(***************************************************************************)
(* What has been handed to the target.                                     *)
(***************************************************************************)
\* What was read is what was handed over, then what is in the batch.
Split(handed, batch, read) ==
    /\ Len(read) = Len(handed) + Len(batch)
    /\ \A k \in 1..Len(handed) : handed[k] = read[k]
    /\ \A k \in 1..Len(batch) : batch[k] = read[Len(handed) + k]

LEMMA SplitEmpty == Split(<< >>, << >>, << >>)
  BY DEF Split

LEMMA SplitAppend ==
  ASSUME NEW S, NEW w \in Seq(S), NEW b \in Seq(S), NEW r \in Seq(S), NEW l \in S, Split(w, b, r)
  PROVE  Split(w, Append(b, l), Append(r, l))
<1>1. Len(w) \in Nat /\ Len(b) \in Nat /\ Len(r) \in Nat
  BY LenProperties
<1>2. /\ Len(Append(b, l)) = Len(b) + 1 /\ \A k \in 1..Len(b) : Append(b, l)[k] = b[k]
      /\ Append(b, l)[Len(b) + 1] = l
  OBVIOUS
<1>3. /\ Len(Append(r, l)) = Len(r) + 1 /\ \A k \in 1..Len(r) : Append(r, l)[k] = r[k]
      /\ Append(r, l)[Len(r) + 1] = l
  OBVIOUS
<1>4. \A k \in 1..Len(w) : w[k] = Append(r, l)[k]
  BY <1>1, <1>3 DEF Split
<1>5. ASSUME NEW k \in 1..Len(Append(b, l))
      PROVE  Append(b, l)[k] = Append(r, l)[Len(w) + k]
  <2>1. CASE k \in 1..Len(b)
    BY <1>1, <1>2, <1>3, <2>1 DEF Split
  <2>2. CASE k = Len(b) + 1
    BY <1>1, <1>2, <1>3, <2>2 DEF Split
  <2>3. k \in 1..(Len(b) + 1)
    BY <1>2, Zenon
  <2>4. k \in 1..Len(b) \/ k = Len(b) + 1
    BY <1>1, <2>3
  <2> QED
    BY <2>1, <2>2, <2>4
<1> QED
  BY <1>1, <1>2, <1>3, <1>4, <1>5 DEF Split

LEMMA SplitFlush ==
  ASSUME NEW S, NEW w \in Seq(S), NEW b \in Seq(S), NEW r \in Seq(S), Split(w, b, r)
  PROVE  Split(w \o b, << >>, r)
<1>1. Len(w) \in Nat /\ Len(b) \in Nat /\ Len(r) \in Nat
  BY LenProperties
<1>2. /\ Len(w \o b) = Len(w) + Len(b)
      /\ \A k \in 1..(Len(w) + Len(b)) : (w \o b)[k] = IF k <= Len(w) THEN w[k] ELSE b[k - Len(w)]
  BY ConcatProperties
<1>3. ASSUME NEW k \in 1..(Len(w) + Len(b))
      PROVE  (w \o b)[k] = r[k]
  <2>1. CASE k <= Len(w)
    BY <1>1, <1>2, <2>1 DEF Split
  <2>2. CASE k > Len(w)
    <3>1. k - Len(w) \in 1..Len(b) /\ Len(w) + (k - Len(w)) = k /\ ~(k <= Len(w))
      BY <1>1, <2>2
    <3>2. b[k - Len(w)] = r[Len(w) + (k - Len(w))]
      BY <3>1 DEF Split
    <3> QED
      BY <1>2, <3>1, <3>2
  <2> QED
    BY <1>1, <2>1, <2>2
<1> QED
  BY <1>1, <1>2, <1>3 DEF Split

LEMMA SplitAll ==
  ASSUME NEW S, NEW w \in Seq(S), NEW r \in Seq(S), Split(w, << >>, r)
  PROVE  w = r
<1>1. Len(w) \in Nat /\ Len(r) \in Nat /\ Len(<< >>) = 0
  BY LenProperties
<1>2. Len(w) = Len(r) /\ \A k \in 1..Len(w) : w[k] = r[k]
  BY <1>1 DEF Split
<1> QED
  BY <1>2, SeqEqual

Handed(i) ==
    /\ pc[i] = "verify" =>
          call[i].batch = << >> /\ \A p \in 1..Len(written[i]) : written[i][p] = << >>
    /\ pc[i] = "write" =>
          /\ \A p \in 1..Len(written[i]) :
                /\ p < call[i].part => written[i][p] = call[i].export[p]
                /\ p > call[i].part => written[i][p] = << >>
          /\ Reading(i) => Split(written[i][call[i].part], call[i].batch, call[i].read)

HInv == \A i \in Importer : Handed(i)

LEMMA BatchInWrite ==
  ASSUME TInv, NEW i \in Importer, Handed(i), Flushes(i)
  PROVE  pc[i] = "write"
  BY Types DEF Handed, Flushes, GoesOn

LEMMA StepHanded ==
  ASSUME TInv, NEW i \in Importer, Handed(i), Steps(i)
  PROVE  Handed(i)'
<1>1. CASE Starts(i)
  BY <1>1 DEF Starts, Handed
<1>2. CASE Consumes(i)
  <2>1. PICK line \in LogicalRecord : ConsumesLine(i, line)
    BY <1>2 DEF Consumes
  <2>2. /\ Reading(i) /\ pc'[i] = pc[i] /\ pc[i] # "idle" /\ call'[i].part = call[i].part
        /\ call'[i].export = call[i].export /\ written'[i] = written[i]
        /\ call'[i].read = Append(call[i].read, line)
        /\ call'[i].batch = IF pc[i] = "write" THEN Append(call[i].batch, line) ELSE call[i].batch
    BY <2>1 DEF ConsumesLine, GoesOn
  <2>3. CASE pc[i] = "write"
    <3> DEFINE w == written[i][call[i].part]
    <3>1. w \in Seq(LogicalRecord) /\ call[i].read \in Seq(LogicalRecord)
          /\ call[i].batch \in Seq(LogicalRecord)
      BY <2>2, ArtifactTyped, CallTyped
    <3>2. Split(w, call[i].batch, call[i].read)
      BY <2>2, <2>3 DEF Handed
    <3>3. Split(w, call'[i].batch, call'[i].read)
      BY <2>2, <2>3, <3>1, <3>2, SplitAppend
    <3> QED
      BY <2>2, <2>3, <3>3, ZenonT(30) DEF Handed, Split
  <2>4. CASE pc[i] = "verify"
    BY <2>2, <2>4 DEF Handed
  <2> QED
    BY <2>2, <2>3, <2>4, Types
<1>3. CASE Flushes(i)
  <2> DEFINE w == written[i][call[i].part]
  <2>1. pc[i] = "write"
    BY <1>3, BatchInWrite
  <2>2. /\ Reading(i) /\ pc'[i] = "write" /\ call'[i].part = call[i].part
        /\ call'[i].export = call[i].export /\ call'[i].read = call[i].read
        /\ call'[i].batch = << >> /\ Len(written'[i]) = Len(written[i])
        /\ \A p \in 1..Len(written[i]) :
              written'[i][p] = IF p = call[i].part THEN written[i][p] \o call[i].batch
                                                   ELSE written[i][p]
    BY <1>3, <2>1 DEF Flushes, GoesOn
  <2>3. /\ w \in Seq(LogicalRecord) /\ call[i].read \in Seq(LogicalRecord)
        /\ call[i].batch \in Seq(LogicalRecord) /\ call[i].part \in 1..Len(written[i])
        /\ call[i].part \in Nat /\ Len(written[i]) \in Nat
    BY <2>2, ArtifactTyped, CallTyped
  <2>4. Split(w, call[i].batch, call[i].read)
    BY <2>1, <2>2 DEF Handed
  <2>5. Split(w \o call[i].batch, << >>, call[i].read)
    BY <2>3, <2>4, SplitFlush
  <2>6. written'[i][call[i].part] = w \o call[i].batch
    BY <2>2, <2>3
  <2>7. Split(written'[i][call'[i].part], call'[i].batch, call'[i].read)
    BY <2>2, <2>5, <2>6
  <2>8. \A p \in 1..Len(written'[i]) :
           /\ p < call'[i].part => written'[i][p] = call'[i].export[p]
           /\ p > call'[i].part => written'[i][p] = << >>
    <3> SUFFICES ASSUME NEW p \in 1..Len(written[i])
                 PROVE  /\ p < call[i].part => written'[i][p] = call[i].export[p]
                        /\ p > call[i].part => written'[i][p] = << >>
      BY <2>2
    <3>1. /\ p < call[i].part => written[i][p] = call[i].export[p]
          /\ p > call[i].part => written[i][p] = << >>
      BY <2>1 DEF Handed
    <3>2. p < call[i].part \/ p > call[i].part => p # call[i].part
      BY <2>3
    <3>3. p # call[i].part => written'[i][p] = written[i][p]
      BY <2>2
    <3> QED
      BY <3>1, <3>2, <3>3
  <2> QED
    BY <2>2, <2>7, <2>8 DEF Handed, Split
<1>4. CASE Passes(i)
  <2>1. /\ Reading(i) /\ pc[i] # "idle" /\ pc'[i] = pc[i] /\ call'[i].part = call[i].part + 1
        /\ call'[i].export = call[i].export /\ call'[i].read = << >> /\ call[i].batch = << >>
        /\ call'[i].batch = << >> /\ written'[i] = written[i]
        /\ call[i].read = call[i].export[call[i].part]
    BY <1>4 DEF Passes, GoesOn, Matches
  <2>2. CASE pc[i] = "verify"
    BY <2>1, <2>2 DEF Handed
  <2>3. CASE pc[i] = "write"
    <3> DEFINE w == written[i][call[i].part]
    <3>1. /\ w \in Seq(LogicalRecord) /\ call[i].read \in Seq(LogicalRecord)
          /\ call[i].part \in 1..Len(written[i])
          /\ call[i].part \in Nat /\ Len(written[i]) \in Nat
      BY <2>1, ArtifactTyped, CallTyped
    <3>2. Split(w, << >>, call[i].read)
      BY <2>1, <2>3 DEF Handed
    <3>3. w = call[i].export[call[i].part]
      BY <2>1, <3>1, <3>2, SplitAll
    <3>4. ASSUME NEW p \in 1..Len(written[i])
          PROVE  /\ p < call[i].part + 1 => written[i][p] = call[i].export[p]
                 /\ p > call[i].part => written[i][p] = << >>
      <4>1. p < call[i].part + 1 => p < call[i].part \/ p = call[i].part
        BY <3>1, <3>4
      <4> QED
        BY <2>3, <3>3, <4>1 DEF Handed
    <3>5. Reading(i)' => call[i].part + 1 \in 1..Len(written[i]) /\ call[i].part + 1 > call[i].part
      <4>1. Len(written[i]) = Len(call[i].export)
        BY <2>1, CallTyped
      <4>2. Reading(i)' => call[i].part + 1 <= Len(written[i])
        BY <2>1, <4>1 DEF Reading
      <4> QED
        BY <3>1, <4>2
    <3>6. Reading(i)' => written[i][call[i].part + 1] = << >>
      BY <3>4, <3>5
    <3>7. ASSUME NEW p \in 1..Len(written[i])
          PROVE  /\ p < call[i].part + 1 => written[i][p] = call[i].export[p]
                 /\ p > call[i].part + 1 => written[i][p] = << >>
      <4>1. p > call[i].part + 1 => p > call[i].part
        BY <3>1, <3>7
      <4> QED
        BY <3>4, <4>1
    <3> QED
      BY <2>1, <2>3, <3>6, <3>7, SplitEmpty DEF Handed, Split
  <2> QED
    BY <2>1, <2>2, <2>3, Types
<1>5. CASE Rewinds(i)
  <2>1. /\ pc[i] = "verify" /\ pc'[i] = "write" /\ call'[i].part = 1 /\ call'[i].read = << >>
        /\ call'[i].batch = << >> /\ written'[i] = written[i]
        /\ call'[i].export = call[i].export
    BY <1>5 DEF Rewinds, GoesOn
  <2>2. \A p \in 1..Len(written[i]) : written[i][p] = << >>
    BY <2>1 DEF Handed
  <2>3. Len(written[i]) \in Nat /\ Len(written[i]) = Len(call[i].export)
    BY <2>1, CallTyped
  <2>4. Reading(i)' => 1 \in 1..Len(written[i])
    BY <2>1, <2>3 DEF Reading
  <2>5. \A p \in 1..Len(written[i]) : ~(p < 1)
    BY <2>3
  <2> QED
    BY <2>1, <2>2, <2>4, <2>5, SplitEmpty DEF Handed, Split
<1>6. CASE Finishes(i) \/ Fails(i)
  BY <1>6 DEF Finishes, Fails, Ended, Handed
<1> QED
  BY <1>1, <1>2, <1>3, <1>4, <1>5, <1>6 DEF Steps

LEMMA HInvStep ==
  ASSUME TInv, HInv, [INext]_ivars
  PROVE  HInv'
<1>1. CASE UNCHANGED <<pc, call, written>>
  BY <1>1 DEF HInv, Handed, Reading, Split
<1>2. ASSUME NEW i \in Importer, Steps(i), NEW j \in Importer
      PROVE  Handed(j)'
  <2>1. CASE j = i
    BY <1>2, <2>1, StepHanded DEF HInv
  <2>2. CASE j # i
    <3>1. pc'[j] = pc[j] /\ call'[j] = call[j] /\ written'[j] = written[j] /\ Handed(j)
      BY <1>2, <2>2, StepCallOK DEF OthersKept, HInv
    <3> QED
      BY <3>1 DEF Handed, Reading, Split
  <2> QED
    BY <2>1, <2>2
<1> QED
  BY <1>1, <1>2, StepEffect DEF HInv, Elsewhere, ivars

\* At the end of the second pass everything has been handed over.
LEMMA AllHanded ==
  ASSUME TInv, NEW i \in Importer, Handed(i), pc[i] = "write", ~Reading(i)
  PROVE  written[i] = call[i].export
<1>1. /\ written[i] \in Seq(Seq(LogicalRecord)) /\ call[i].export \in Seq(Seq(LogicalRecord))
      /\ Len(written[i]) = Len(call[i].export) /\ Len(written[i]) \in Nat /\ call[i].part \in Nat
  BY CallTyped, ExportTyped
<1>2. call[i].part > Len(written[i])
  BY <1>1 DEF Reading
<1>3. \A p \in 1..Len(written[i]) : p < call[i].part
  BY <1>1, <1>2
<1>4. \A p \in 1..Len(written[i]) : written[i][p] = call[i].export[p]
  BY <1>3 DEF Handed
<1> QED
  BY <1>1, <1>4, SeqEqual

LEMMA FaithfulStep ==
  ASSUME TInv, HInv, ReportFaithful, [INext]_ivars
  PROVE  ReportFaithful'
<1>1. CASE reports' = reports
  BY <1>1 DEF ReportFaithful
<1>2. ASSUME NEW i \in Importer, Finishes(i)
      PROVE  ReportFaithful'
  <2>1. reports' = reports \cup {Report(i)} /\ written[i] = call[i].export
    BY <1>2, AllHanded DEF Finishes, HInv
  <2>2. Report(i).written = Report(i).export
    BY <2>1 DEF Report
  <2> QED
    BY <2>1, <2>2 DEF ReportFaithful
<1>3. ASSUME NEW i \in Importer, Steps(i), ~Finishes(i)
      PROVE  reports' = reports
  BY <1>3 DEF Steps, Starts, Consumes, ConsumesLine, Flushes, Passes, Rewinds, Fails
<1> QED
  BY <1>1, <1>2, <1>3, StepEffect DEF Elsewhere, ivars

--------------------------------------------------------------------------------
(***************************************************************************)
(* Verification before writing.                                            *)
(***************************************************************************)
Prefix(s, t) == Len(s) <= Len(t) /\ \A k \in 1..Len(s) : s[k] = t[k]

LEMMA PrefixIsSubSeq ==
  ASSUME NEW S, NEW s \in Seq(S), NEW t \in Seq(S), Prefix(s, t)
  PROVE  s = SubSeq(t, 1, Len(s))
<1>1. Len(s) \in Nat /\ Len(t) \in Nat /\ 1 \in Int /\ Len(s) \in Int
  BY LenProperties
<1>2. \A k \in 1..Len(s) : t[k] \in S
  BY <1>1, ElementOfSeq DEF Prefix
<1>3. /\ SubSeq(t, 1, Len(s)) \in Seq(S)
      /\ Len(SubSeq(t, 1, Len(s))) = IF 1 <= Len(s) THEN Len(s) - 1 + 1 ELSE 0
      /\ \A k \in 1..(Len(s) - 1 + 1) : SubSeq(t, 1, Len(s))[k] = t[1 + k - 1]
  BY <1>1, <1>2, SubSeqProperties
<1>4. Len(SubSeq(t, 1, Len(s))) = Len(s)
  BY <1>1, <1>3
<1>5. \A k \in 1..Len(s) : SubSeq(t, 1, Len(s))[k] = t[k]
  BY <1>1, <1>3
<1>6. \A k \in 1..Len(s) : s[k] = SubSeq(t, 1, Len(s))[k]
  BY <1>5 DEF Prefix
<1> QED
  BY <1>3, <1>4, <1>6, SeqEqual

\* Unless an artifact changed, those read to the end are what they should be.
Trusted(i) ==
    pc[i] # "idle" /\ ~changed[i] =>
        /\ \A p \in 1..Len(call[i].export) :
              pc[i] = "write" \/ p < call[i].part => stored[call[i].export][p] = call[i].export[p]
        /\ Reading(i) => Prefix(call[i].read, Artifact(i))

VInv == \A i \in Importer : Trusted(i)

LEMMA EmptyPrefix ==
  ASSUME NEW S, NEW s \in Seq(S)
  PROVE  Prefix(<< >>, s)
  BY LenProperties DEF Prefix

LEMMA PrefixGrows ==
  ASSUME NEW S, NEW T, NEW s \in Seq(S), NEW t \in Seq(T), Prefix(s, t), Len(s) < Len(t),
         NEW l \in S, l = t[Len(s) + 1]
  PROVE  Prefix(Append(s, l), t)
<1>1. Len(s) \in Nat /\ Len(t) \in Nat
  BY LenProperties
<1>2. /\ Len(Append(s, l)) = Len(s) + 1 /\ \A k \in 1..Len(s) : Append(s, l)[k] = s[k]
      /\ Append(s, l)[Len(s) + 1] = l
  OBVIOUS
<1>3. ASSUME NEW k \in 1..(Len(s) + 1) PROVE Append(s, l)[k] = t[k]
  <2>1. k \in 1..Len(s) \/ k = Len(s) + 1
    BY <1>1
  <2> QED
    BY <1>2, <2>1 DEF Prefix
<1> QED
  BY <1>1, <1>2, <1>3 DEF Prefix

LEMMA PrefixWhole ==
  ASSUME NEW S, NEW T, NEW s \in Seq(S), NEW t \in Seq(T), Prefix(s, t), Len(s) >= Len(t),
         S \subseteq T
  PROVE  t = s
<1>1. Len(s) \in Nat /\ Len(t) \in Nat /\ s \in Seq(T)
  BY LenProperties, SeqMonotonic
<1> QED
  BY <1>1, SeqEqual DEF Prefix

LEMMA StoredTyped ==
  ASSUME TInv, NEW e \in Export, NEW p \in 1..Len(e)
  PROVE  stored[e][p] \in Seq(Line)
<1>1. stored[e] \in Seq(Seq(Line)) /\ Len(stored[e]) = Len(e)
  BY Types DEF TInv
<1> QED
  BY <1>1, ElementOfSeq

LEMMA StepTrusted ==
  ASSUME TInv, NEW i \in Importer, Trusted(i), Steps(i)
  PROVE  Trusted(i)'
<1> DEFINE Checked(p) == pc'[i] = "write" \/ p < call'[i].part
                             => stored[call'[i].export][p] = call'[i].export[p]
<1>1. stored' = stored
  BY StepRest
<1> SUFFICES ASSUME pc'[i] # "idle", ~changed'[i]
             PROVE  /\ \A p \in 1..Len(call'[i].export) : Checked(p)
                    /\ Reading(i)' =>
                          Prefix(call'[i].read, stored[call'[i].export][call'[i].part])
  BY <1>1 DEF Trusted, Prefix, Artifact
<1>2. ASSUME call'[i].read = << >>, Reading(i)'
      PROVE  Prefix(call'[i].read, stored[call'[i].export][call'[i].part])
  <2>1. call'[i] \in Call /\ call'[i].part \in 1..(Len(call'[i].export) + 1)
    BY StepCallOK DEF CallOK
  <2>2. call'[i].export \in Export /\ Len(call'[i].export) \in Nat
    BY <2>1, ExportTyped DEF Call
  <2>3. call'[i].part <= Len(call'[i].export)
    BY <1>2 DEF Reading
  <2>4. call'[i].part \in 1..Len(call'[i].export)
    BY <2>1, <2>2, <2>3
  <2>5. stored[call'[i].export][call'[i].part] \in Seq(Line)
    BY <2>2, <2>4, StoredTyped
  <2> QED
    BY <1>2, <2>5, EmptyPrefix
<1>3. CASE Starts(i)
  <2>1. \A p \in 1..Len(call'[i].export) : ~(p < 1)
    <3>1. Len(call'[i].export) \in Nat
      BY <1>3, ExportTyped DEF Starts, Call
    <3> QED
      BY <3>1
  <2> QED
    BY <1>2, <1>3, <2>1 DEF Starts
<1>4. ASSUME GoesOn(i)
      PROVE  /\ pc[i] # "idle" /\ ~changed[i] /\ call'[i].export = call[i].export
             /\ \A p \in 1..Len(call[i].export) :
                   pc[i] = "write" \/ p < call[i].part
                       => stored[call[i].export][p] = call[i].export[p]
             /\ Reading(i) => Prefix(call[i].read, Artifact(i))
  BY <1>4 DEF GoesOn, Trusted
<1>5. CASE Consumes(i)
  <2>1. PICK line \in LogicalRecord : ConsumesLine(i, line)
    BY <1>5 DEF Consumes
  <2>2. /\ GoesOn(i) /\ Reading(i) /\ pc'[i] = pc[i] /\ call'[i].part = call[i].part
        /\ Len(call[i].read) < Len(Artifact(i)) /\ line = Artifact(i)[Len(call[i].read) + 1]
        /\ call'[i].read = Append(call[i].read, line)
    BY <2>1 DEF ConsumesLine
  <2>3. call[i].read \in Seq(LogicalRecord) /\ Artifact(i) \in Seq(Line)
    BY <1>4, <2>2, CallTyped, ArtifactTyped
  <2>4. Prefix(call'[i].read, Artifact(i))
    BY <1>4, <2>2, <2>3, PrefixGrows
  <2>5. stored[call'[i].export][call'[i].part] = Artifact(i)
    BY <1>4, <2>2 DEF Artifact
  <2> QED
    BY <1>4, <2>2, <2>4, <2>5
<1>6. CASE Flushes(i)
  <2>1. /\ GoesOn(i) /\ Reading(i) /\ pc'[i] = pc[i] /\ call'[i].part = call[i].part
        /\ call'[i].read = call[i].read
    BY <1>6 DEF Flushes
  <2>2. stored[call'[i].export][call'[i].part] = Artifact(i)
    BY <1>4, <2>1 DEF Artifact
  <2> QED
    BY <1>4, <2>1, <2>2
<1>7. CASE Passes(i)
  <2>1. /\ GoesOn(i) /\ Reading(i) /\ pc'[i] = pc[i] /\ call'[i].part = call[i].part + 1
        /\ call'[i].read = << >> /\ Len(call[i].read) >= Len(Artifact(i))
        /\ call[i].read = call[i].export[call[i].part]
    BY <1>7 DEF Passes, Matches
  <2>2. /\ call[i].read \in Seq(LogicalRecord) /\ Artifact(i) \in Seq(Line)
        /\ call[i].part \in Nat /\ Len(call[i].export) \in Nat
    BY <1>4, <2>1, CallTyped, ArtifactTyped, ExportTyped
  <2>3. Artifact(i) = call[i].export[call[i].part]
    BY <1>4, <2>1, <2>2, PrefixWhole DEF Line
  <2>4. \A p \in 1..Len(call[i].export) : p < call[i].part + 1 => p < call[i].part \/ p = call[i].part
    BY <2>2
  <2>5. \A p \in 1..Len(call'[i].export) : Checked(p)
    BY <1>4, <2>1, <2>3, <2>4 DEF Artifact
  <2>6. Reading(i)' => Prefix(call'[i].read, stored[call'[i].export][call'[i].part])
    BY <1>2, <2>1
  <2> QED
    BY <2>5, <2>6
<1>8. CASE Rewinds(i)
  <2>1. GoesOn(i) /\ ~Reading(i) /\ call'[i].read = << >>
    BY <1>8 DEF Rewinds
  <2>2. call[i].part \in Nat /\ Len(call[i].export) \in Nat
    BY <1>4, <2>1, CallTyped, ExportTyped
  <2>3. \A p \in 1..Len(call[i].export) : p < call[i].part
    BY <1>4, <2>1, <2>2 DEF Reading
  <2>4. \A p \in 1..Len(call[i].export) : stored[call[i].export][p] = call[i].export[p]
    BY <1>4, <2>1, <2>3
  <2> QED
    BY <1>2, <1>4, <2>1, <2>4
<1>9. CASE Finishes(i) \/ Fails(i)
  BY <1>9 DEF Finishes, Fails, Ended
<1> QED
  BY <1>3, <1>5, <1>6, <1>7, <1>8, <1>9 DEF Steps

LEMMA VInvStep ==
  ASSUME TInv, VInv, [INext]_ivars
  PROVE  VInv'
<1>1. CASE UNCHANGED <<pc, call, changed, stored>>
  BY <1>1 DEF VInv, Trusted, Reading, Artifact, Prefix
<1>2. ASSUME NEW i \in Importer, Steps(i), NEW j \in Importer
      PROVE  Trusted(j)'
  <2>1. CASE j = i
    BY <1>2, <2>1, StepTrusted DEF VInv
  <2>2. CASE j # i
    <3>1. pc'[j] = pc[j] /\ call'[j] = call[j] /\ changed'[j] = changed[j] /\ stored' = stored
          /\ Trusted(j)
      BY <1>2, <2>2, StepCallOK, StepRest DEF OthersKept, VInv
    <3> QED
      BY <3>1 DEF Trusted, Reading, Artifact, Prefix
  <2> QED
    BY <2>1, <2>2
<1>3. ASSUME changed' = [i \in Importer |-> pc[i] # "idle"], pc' = pc, NEW j \in Importer
      PROVE  Trusted(j)'
  <2>1. changed'[j] = (pc[j] # "idle") /\ pc'[j] = pc[j]
    BY <1>3, Zenon
  <2>2. ~(pc'[j] # "idle" /\ ~changed'[j])
    BY <2>1, Zenon
  <2> QED
    BY <2>2 DEF Trusted
<1>4. ASSUME Elsewhere PROVE VInv'
  BY <1>1, <1>3, <1>4 DEF Elsewhere, Marks, VInv
<1> QED
  BY <1>1, <1>2, <1>4, StepEffect DEF VInv, ivars

--------------------------------------------------------------------------------
(***************************************************************************)
(* Objects before records.                                                 *)
(***************************************************************************)
Delivered(i) ==
    /\ \A p \in 1..Len(written[i]) : \A k \in 1..Len(written[i][p]) : written[i][p][k] \in objects
    /\ pc[i] # "idle" => \A k \in 1..Len(call[i].batch) : call[i].batch[k] \in objects

OInv == \A i \in Importer : Delivered(i)

LEMMA StepDelivered ==
  ASSUME TInv, NEW i \in Importer, Handed(i), Delivered(i), Steps(i)
  PROVE  Delivered(i)'
<1>1. Len(<< >>) = 0 /\ objects \subseteq objects'
  BY StepRest
<1>2. CASE Starts(i)
  BY <1>1, <1>2 DEF Starts, Delivered
<1>3. CASE Consumes(i)
  <2>1. PICK line \in LogicalRecord : ConsumesLine(i, line)
    BY <1>3 DEF Consumes
  <2>2. /\ pc[i] # "idle" /\ written'[i] = written[i]
        /\ call'[i].batch = IF pc[i] = "write" THEN Append(call[i].batch, line) ELSE call[i].batch
        /\ pc[i] = "write" => line \in objects'
    BY <2>1 DEF ConsumesLine, GoesOn
  <2>3. call[i].batch \in Seq(LogicalRecord) /\ Len(call[i].batch) \in Nat
    BY <2>2, CallTyped
  <2>4. \A k \in 1..Len(call'[i].batch) : call'[i].batch[k] \in objects'
    <3>1. CASE pc[i] # "write"
      BY <1>1, <2>2, <3>1 DEF Delivered
    <3>2. CASE pc[i] = "write"
      <4> DEFINE b == call[i].batch
      <4>1. /\ Len(Append(b, line)) = Len(b) + 1 /\ \A k \in 1..Len(b) : Append(b, line)[k] = b[k]
            /\ Append(b, line)[Len(b) + 1] = line
        BY <2>3
      <4>2. \A k \in 1..Len(b) : b[k] \in objects'
        BY <1>1, <2>2 DEF Delivered
      <4>3. call'[i].batch = Append(b, line) /\ Len(b) \in Nat /\ line \in objects'
        BY <2>2, <2>3, <3>2
      <4> HIDE DEF b
      <4>4. \A k \in 1..(Len(b) + 1) : k \in 1..Len(b) \/ k = Len(b) + 1
        BY <4>3
      <4>5. \A k \in 1..(Len(b) + 1) : Append(b, line)[k] \in objects'
        BY <4>1, <4>2, <4>3, <4>4
      <4> QED
        BY <4>1, <4>3, <4>5, Zenon
    <3> QED
      BY <3>1, <3>2
  <2> QED
    BY <1>1, <2>2, <2>4 DEF Delivered
<1>4. CASE Flushes(i)
  <2> DEFINE w == written[i][call[i].part]
             b == call[i].batch
  <2>1. /\ Reading(i) /\ pc[i] # "idle" /\ call'[i].batch = << >>
        /\ Len(written'[i]) = Len(written[i])
        /\ \A p \in 1..Len(written[i]) :
              written'[i][p] = IF p = call[i].part THEN w \o b ELSE written[i][p]
    BY <1>4 DEF Flushes, GoesOn
  <2>2. /\ w \in Seq(LogicalRecord) /\ b \in Seq(LogicalRecord)
        /\ Len(w) \in Nat /\ Len(b) \in Nat /\ call[i].part \in 1..Len(written[i])
    BY <2>1, ArtifactTyped, CallTyped, LenProperties
  <2>3. /\ \A k \in 1..Len(w) : w[k] \in objects
        /\ \A k \in 1..Len(b) : b[k] \in objects
    BY <2>1, <2>2 DEF Delivered
  <2>4. /\ Len(w \o b) = Len(w) + Len(b)
        /\ \A k \in 1..(Len(w) + Len(b)) : (w \o b)[k] = IF k <= Len(w) THEN w[k] ELSE b[k - Len(w)]
    BY <2>2, ConcatProperties
  <2> HIDE DEF w, b
  <2>5. ASSUME NEW k \in 1..(Len(w) + Len(b))
        PROVE  (w \o b)[k] \in objects
    <3>1. CASE k <= Len(w)
      BY <2>2, <2>3, <2>4, <3>1
    <3>2. CASE ~(k <= Len(w))
      <4>1. k - Len(w) \in 1..Len(b)
        BY <2>2, <3>2
      <4> QED
        BY <2>3, <2>4, <3>2, <4>1
    <3> QED
      BY <3>1, <3>2
  <2>6. \A k \in 1..Len(w \o b) : (w \o b)[k] \in objects
    BY <2>4, <2>5, Zenon
  <2>7. ASSUME NEW p \in 1..Len(written[i])
        PROVE  \A k \in 1..Len(written'[i][p]) : written'[i][p][k] \in objects
    <3>1. CASE p = call[i].part
      <4>1. written'[i][p] = w \o b
        BY <2>1, <3>1
      <4> QED
        BY <2>6, <4>1
    <3>2. CASE p # call[i].part
      BY <2>1, <3>2 DEF Delivered
    <3> QED
      BY <3>1, <3>2
  <2> QED
    BY <1>1, <2>1, <2>7 DEF Delivered
<1>5. CASE Passes(i) \/ Rewinds(i)
  BY <1>1, <1>5 DEF Passes, Rewinds, Delivered
<1>6. CASE Finishes(i) \/ Fails(i)
  BY <1>1, <1>6 DEF Finishes, Fails, Ended, Delivered
<1> QED
  BY <1>2, <1>3, <1>4, <1>5, <1>6 DEF Steps

LEMMA OInvStep ==
  ASSUME TInv, HInv, OInv, [INext]_ivars
  PROVE  OInv'
<1>1. CASE UNCHANGED <<pc, call, written, objects>>
  BY <1>1 DEF OInv, Delivered
<1>2. ASSUME NEW i \in Importer, Steps(i), NEW j \in Importer
      PROVE  Delivered(j)'
  <2>1. CASE j = i
    BY <1>2, <2>1, StepDelivered DEF OInv, HInv
  <2>2. CASE j # i
    <3>1. pc'[j] = pc[j] /\ call'[j] = call[j] /\ written'[j] = written[j]
          /\ objects \subseteq objects' /\ Delivered(j)
      BY <1>2, <2>2, StepCallOK, StepRest DEF OthersKept, OInv
    <3> QED
      BY <3>1 DEF Delivered
  <2> QED
    BY <2>1, <2>2
<1> QED
  BY <1>1, <1>2, StepEffect DEF OInv, Elsewhere, ivars

LEMMA SplitPrefix ==
  ASSUME NEW S, NEW w \in Seq(S), NEW b \in Seq(S), NEW r \in Seq(S), NEW t \in Seq(S),
         Split(w, b, r), Prefix(r, t)
  PROVE  Prefix(w, t)
<1>1. Len(w) \in Nat /\ Len(b) \in Nat /\ Len(r) \in Nat /\ Len(t) \in Nat
  BY LenProperties
<1> QED
  BY <1>1 DEF Split, Prefix

LEMMA VerifiedHolds ==
  ASSUME TInv, HInv, VInv, OInv
  PROVE  VerifiedFirst
<1> SUFFICES ASSUME NEW i \in Importer, NEW p \in DOMAIN written[i]
             PROVE  /\ pc[i] # "idle" /\ ~changed[i] =>
                          written[i][p] = SubSeq(call[i].export[p], 1, Len(written[i][p]))
                    /\ \A k \in DOMAIN written[i][p] : written[i][p][k] \in objects
  BY DEF VerifiedFirst
<1> DEFINE w == written[i][p]
<1>1. /\ written[i] \in Seq(Seq(LogicalRecord)) /\ p \in 1..Len(written[i])
      /\ w \in Seq(LogicalRecord)
  BY Types, LenProperties, ElementOfSeq
<1>2. \A k \in DOMAIN w : w[k] \in objects
  BY <1>1, LenProperties DEF OInv, Delivered
<1>3. ASSUME pc[i] # "idle", ~changed[i]
      PROVE  w = SubSeq(call[i].export[p], 1, Len(w))
  <2> DEFINE t == call[i].export[p]
  <2>1. /\ Handed(i) /\ Trusted(i) /\ call[i].part \in Nat /\ Len(written[i]) \in Nat
        /\ Len(written[i]) = Len(call[i].export)
    BY <1>3, CallTyped DEF HInv, VInv
  <2>2. t \in Seq(LogicalRecord) /\ Len(t) \in Nat
    BY <1>1, <1>3, <2>1, CallTyped, ExportTyped, LenProperties
  <2>3. CASE w = << >>
    BY <2>2, <2>3, EmptyPrefix, PrefixIsSubSeq, <1>1
  <2>4. CASE w = t
    <3>1. Prefix(w, t)
      BY <2>2, <2>4 DEF Prefix
    <3> QED
      BY <1>1, <2>2, <3>1, PrefixIsSubSeq
  <2>5. CASE pc[i] = "write" /\ p = call[i].part
    <3>1. Reading(i) /\ t = Artifact(i)
      <4>1. Reading(i)
        BY <1>1, <2>1, <2>5 DEF Reading
      <4> QED
        BY <1>1, <1>3, <2>1, <2>5, <4>1 DEF Trusted, Artifact
    <3>2. Split(w, call[i].batch, call[i].read) /\ Prefix(call[i].read, t)
      BY <1>3, <2>1, <2>5, <3>1 DEF Handed, Trusted
    <3>3. call[i].batch \in Seq(LogicalRecord) /\ call[i].read \in Seq(LogicalRecord)
      BY <1>3, CallTyped
    <3>4. Prefix(w, t)
      BY <1>1, <2>2, <3>2, <3>3, SplitPrefix
    <3> QED
      BY <1>1, <2>2, <3>4, PrefixIsSubSeq
  <2>6. \/ pc[i] = "verify"
        \/ pc[i] = "write" /\ p = call[i].part
        \/ pc[i] = "write" /\ p < call[i].part
        \/ pc[i] = "write" /\ p > call[i].part
    BY <1>1, <1>3, <2>1, Types
  <2> QED
    BY <1>1, <2>1, <2>3, <2>4, <2>5, <2>6 DEF Handed
<1> QED
  BY <1>2, <1>3

--------------------------------------------------------------------------------
(***************************************************************************)
(* What the merge policies promise, for imports one at a time of exports   *)
(* that hold an id in one version.                                         *)
(***************************************************************************)
OneAtATime == \A i, j \in Importer : i = j

Unambiguous == \A e \in Export, id \in Id : \A v, w \in VersionsOf(e, id) : v = w

InExport(e, r) == \E p \in 1..Len(e) : \E k \in 1..Len(e[p]) : e[p][k] = r

LEMMA InExportVersion ==
  ASSUME NEW e \in Export, NEW r \in LogicalRecord
  PROVE  InExport(e, r) <=> r.version \in VersionsOf(e, r.logical_id)
<1>1. DOMAIN e = 1..Len(e) /\ \A p \in 1..Len(e) : DOMAIN e[p] = 1..Len(e[p])
  BY ExportTyped, LenProperties
<1>2. r = [logical_id |-> r.logical_id, version |-> r.version] /\ r.version \in 1..MaxVersion
  BY DEF LogicalRecord
<1> QED
  BY <1>1, <1>2 DEF InExport, VersionsOf

\* The record has been handed over, or waits in the batch.
Put(i, r) == \E p \in 1..Len(written[i]) : \E k \in 1..Len(written[i][p]) : written[i][p][k] = r
InBatch(i, r) == \E k \in 1..Len(call[i].batch) : call[i].batch[k] = r

\* What was read of the partition is the beginning of what should be there.
InStep(i) == Reading(i) => Prefix(call[i].read, call[i].export[call[i].part])

Held(i, r) ==
    \/ target[r.logical_id] = r.version
    \/ call[i].policy = "preserve-newer" /\ target[r.logical_id] > r.version

Holds(i) ==
    pc[i] = "write" /\ InStep(i) =>
        /\ \A r \in LogicalRecord : Put(i, r) => Held(i, r)
        /\ call[i].policy = "require-empty" =>
              \A id \in Id : target[id] # 0 =>
                  \E r \in LogicalRecord : Put(i, r) /\ r.logical_id = id

PInv == \A i \in Importer : Holds(i)

LEMMA PutIsExported ==
  ASSUME TInv, NEW i \in Importer, Handed(i), pc[i] = "write", InStep(i),
         NEW r \in LogicalRecord, Put(i, r) \/ (Reading(i) /\ InBatch(i, r))
  PROVE  InExport(call[i].export, r)
<1>1. /\ call[i].part \in Nat /\ Len(written[i]) \in Nat
      /\ Len(written[i]) = Len(call[i].export)
      /\ \A p \in 1..Len(written[i]) : written[i][p] \in Seq(LogicalRecord)
  BY CallTyped
<1>2. ASSUME Reading(i)
      PROVE  LET w == written[i][call[i].part]
                 t == call[i].export[call[i].part]
             IN  /\ call[i].part \in 1..Len(call[i].export)
                 /\ \A k \in 1..Len(w) : k \in 1..Len(t) /\ w[k] = t[k]
                 /\ \A k \in 1..Len(call[i].batch) :
                       Len(w) + k \in 1..Len(t) /\ call[i].batch[k] = t[Len(w) + k]
  <2> DEFINE w == written[i][call[i].part]
             t == call[i].export[call[i].part]
             b == call[i].batch
             d == call[i].read
  <2>1. /\ call[i].part \in 1..Len(call[i].export) /\ w \in Seq(LogicalRecord)
        /\ t \in Seq(LogicalRecord)
    BY <1>1, <1>2, ArtifactTyped
  <2>2. b \in Seq(LogicalRecord) /\ d \in Seq(LogicalRecord)
    BY CallTyped
  <2>3. Len(w) \in Nat /\ Len(t) \in Nat /\ Len(b) \in Nat /\ Len(d) \in Nat
    BY <2>1, <2>2, LenProperties
  <2>4. Split(w, b, d) /\ Prefix(d, t)
    BY <1>2 DEF Handed, InStep
  <2> HIDE DEF w, t, b, d
  <2>5. \A k \in 1..Len(w) : k \in 1..Len(t) /\ w[k] = t[k]
    BY <2>3, <2>4 DEF Split, Prefix
  <2>6. \A k \in 1..Len(b) : Len(w) + k \in 1..Len(d) /\ Len(w) + k \in 1..Len(t)
    BY <2>3, <2>4 DEF Split, Prefix
  <2>7. \A k \in 1..Len(b) : b[k] = t[Len(w) + k]
    BY <2>4, <2>6 DEF Split, Prefix
  <2> QED
    BY <2>1, <2>5, <2>6, <2>7 DEF w, t, b, d
<1>3. CASE Reading(i) /\ InBatch(i, r)
  <2> DEFINE t == call[i].export[call[i].part]
  <2>1. \E k \in 1..Len(t) : t[k] = r
    BY <1>2, <1>3 DEF InBatch
  <2> QED
    BY <1>2, <1>3, <2>1 DEF InExport
<1>4. CASE Put(i, r)
  <2>1. PICK p \in 1..Len(written[i]) : \E k \in 1..Len(written[i][p]) : written[i][p][k] = r
    BY <1>4 DEF Put
  <2>2. CASE p < call[i].part
    BY <1>1, <2>1, <2>2 DEF Handed, InExport
  <2>3. CASE p > call[i].part
    <3>1. written[i][p] = << >> /\ Len(<< >>) = 0
      BY <2>1, <2>3 DEF Handed
    <3> QED
      BY <2>1, <3>1
  <2>4. CASE p = call[i].part
    <3>1. Reading(i)
      BY <1>1, <2>1, <2>4 DEF Reading
    <3>2. \E k \in 1..Len(call[i].export[p]) : call[i].export[p][k] = r
      BY <1>2, <2>1, <2>4, <3>1
    <3> QED
      BY <1>2, <2>4, <3>1, <3>2 DEF InExport
  <2> QED
    BY <1>1, <2>1, <2>2, <2>3, <2>4
<1> QED
  BY <1>3, <1>4

LEMMA FlushPuts ==
  ASSUME TInv, NEW i \in Importer, Flushes(i), NEW r \in LogicalRecord
  PROVE  Put(i, r)' <=> Put(i, r) \/ InBatch(i, r)
<1> DEFINE q == call[i].part
           w == written[i][q]
           b == call[i].batch
<1>1. /\ Reading(i) /\ pc[i] # "idle" /\ Len(written'[i]) = Len(written[i])
      /\ \A p \in 1..Len(written[i]) : written'[i][p] = IF p = q THEN w \o b ELSE written[i][p]
  BY DEF Flushes, GoesOn
<1>2. /\ w \in Seq(LogicalRecord) /\ b \in Seq(LogicalRecord) /\ q \in 1..Len(written[i])
      /\ Len(w) \in Nat /\ Len(b) \in Nat
  BY <1>1, ArtifactTyped, CallTyped, LenProperties
<1>3. /\ Len(w \o b) = Len(w) + Len(b)
      /\ \A k \in 1..(Len(w) + Len(b)) : (w \o b)[k] = IF k <= Len(w) THEN w[k] ELSE b[k - Len(w)]
  BY <1>2, ConcatProperties
<1>4. written'[i][q] = w \o b
  BY <1>1, <1>2
<1> DEFINE c == w \o b
<1> HIDE DEF w, b, c, q
<1>5. /\ Len(c) = Len(w) + Len(b)
      /\ \A k \in 1..Len(c) : c[k] = IF k <= Len(w) THEN w[k] ELSE b[k - Len(w)]
  BY <1>3 DEF c
<1>6. (\E k \in 1..Len(c) : c[k] = r)
        <=> (\E k \in 1..Len(w) : w[k] = r) \/ (\E k \in 1..Len(b) : b[k] = r)
  <2>1. ASSUME NEW k \in 1..Len(c), c[k] = r
        PROVE  (\E n \in 1..Len(w) : w[n] = r) \/ (\E n \in 1..Len(b) : b[n] = r)
    <3>1. CASE k <= Len(w)
      BY <1>2, <1>5, <2>1, <3>1
    <3>2. CASE ~(k <= Len(w))
      <4>1. k - Len(w) \in 1..Len(b)
        BY <1>2, <1>5, <3>2
      <4> QED
        BY <1>5, <2>1, <3>2, <4>1
    <3> QED
      BY <3>1, <3>2
  <2>2. ASSUME NEW k \in 1..Len(w), w[k] = r PROVE \E n \in 1..Len(c) : c[n] = r
    <3>1. k \in 1..Len(c) /\ k <= Len(w)
      BY <1>2, <1>5
    <3> QED
      BY <1>5, <2>2, <3>1
  <2>3. ASSUME NEW k \in 1..Len(b), b[k] = r PROVE \E n \in 1..Len(c) : c[n] = r
    <3>1. Len(w) + k \in 1..Len(c) /\ ~(Len(w) + k <= Len(w)) /\ (Len(w) + k) - Len(w) = k
      BY <1>2, <1>5
    <3> QED
      BY <1>5, <2>3, <3>1
  <2> QED
    BY <2>1, <2>2, <2>3
<1>7. /\ written'[i][q] = c /\ written[i][q] = w
      /\ \A p \in 1..Len(written[i]) : p # q => written'[i][p] = written[i][p]
  BY <1>1, <1>4 DEF c, w
<1> QED
  BY <1>1, <1>2, <1>6, <1>7 DEF Put, InBatch, b

\* An id that the batch does not hold stays as it is.
LEMMA MergeOther ==
  ASSUME NEW policy, NEW batch \in Seq(LogicalRecord), NEW id \in Id,
         \A k \in 1..Len(batch) : batch[k].logical_id # id
  PROVE  Merge(policy, batch, id) = target[id]
<1>1. DOMAIN batch = 1..Len(batch)
  BY LenProperties
<1>2. {batch[k].version : k \in {j \in DOMAIN batch : batch[j].logical_id = id}} = {}
  BY <1>1
<1> QED
  BY <1>2 DEF Merge

\* One that it holds in one version only is merged with that.
\* The id is in the batch, in no version but v.
OneVersion(batch, id, v) ==
    /\ \E k \in 1..Len(batch) : batch[k].logical_id = id
    /\ \A k \in 1..Len(batch) : batch[k].logical_id = id => batch[k].version = v

LEMMA MergeOne ==
  ASSUME NEW policy, NEW batch \in Seq(LogicalRecord), NEW id \in Id, NEW v,
         OneVersion(batch, id, v)
  PROVE  \/ Merge(policy, batch, id) = v
         \/ /\ policy = "preserve-newer" /\ target[id] > v
            /\ Merge(policy, batch, id) = target[id]
<1> DEFINE versions == {batch[k].version : k \in {j \in DOMAIN batch : batch[j].logical_id = id}}
<1>1. DOMAIN batch = 1..Len(batch)
  BY LenProperties
<1>2. versions = {v}
  BY <1>1 DEF OneVersion
<1>3. (CHOOSE x \in versions : TRUE) = v /\ versions # {}
  BY <1>2
<1> HIDE DEF versions
<1>4. Merge(policy, batch, id) = IF policy = "preserve-newer" /\ target[id] > v THEN target[id] ELSE v
  BY <1>3 DEF Merge, versions
<1> QED
  BY <1>4

LEMMA FlushHolds ==
  ASSUME TInv, Unambiguous, NEW i \in Importer, Handed(i), Holds(i), Flushes(i), pc[i] = "write",
         InStep(i)
  PROVE  Holds(i)'
<1> DEFINE b == call[i].batch
           e == call[i].export
<1>1. /\ Reading(i) /\ call'[i].policy = call[i].policy
      /\ \A id \in Id : target'[id] = Merge(call[i].policy, b, id)
  BY DEF Flushes, GoesOn
<1>2. b \in Seq(LogicalRecord) /\ e \in Export /\ DOMAIN b = 1..Len(b)
      /\ \A k \in 1..Len(b) : b[k] \in LogicalRecord
  BY CallTyped, ElementOfSeq, LenProperties
<1>3. ASSUME NEW r \in LogicalRecord, NEW s \in LogicalRecord, r.logical_id = s.logical_id,
             Put(i, r) \/ InBatch(i, r), Put(i, s) \/ InBatch(i, s)
      PROVE  r.version = s.version
  <2>1. InExport(e, r) /\ InExport(e, s)
    BY <1>1, <1>3, PutIsExported
  <2>2. r.version \in VersionsOf(e, r.logical_id) /\ s.version \in VersionsOf(e, r.logical_id)
    BY <1>2, <1>3, <2>1, InExportVersion
  <2>3. r.logical_id \in Id
    BY DEF LogicalRecord
  <2> QED
    BY <1>2, <2>2, <2>3 DEF Unambiguous
<1>4. ASSUME NEW r \in LogicalRecord, Put(i, r) \/ InBatch(i, r)
      PROVE  Held(i, r)'
  <2> DEFINE id == r.logical_id
  <2>1. id \in Id /\ target'[id] = Merge(call[i].policy, b, id)
    BY <1>1 DEF LogicalRecord
  <2>2. CASE \A k \in 1..Len(b) : b[k].logical_id # id
    <3>1. target'[id] = target[id]
      BY <1>2, <2>1, <2>2, MergeOther
    <3>2. ~InBatch(i, r)
      BY <2>2 DEF InBatch
    <3>3. Held(i, r)
      BY <1>4, <3>2 DEF Holds
    <3> QED
      BY <1>1, <3>1, <3>3 DEF Held
  <2>3. CASE \E k \in 1..Len(b) : b[k].logical_id = id
    <3>1. \A k \in 1..Len(b) : b[k].logical_id = id => b[k].version = r.version
      BY <1>2, <1>3, <1>4 DEF InBatch
    <3>2. PICK policy, s, n, v : policy = call[i].policy /\ s = b /\ n = id /\ v = r.version
      OBVIOUS
    <3>3. s \in Seq(LogicalRecord) /\ n \in Id /\ OneVersion(s, n, v)
      BY <1>2, <2>1, <2>3, <3>1, <3>2 DEF OneVersion
    <3>4. \/ Merge(policy, s, n) = v
          \/ /\ policy = "preserve-newer" /\ target[n] > v
             /\ Merge(policy, s, n) = target[n]
      BY <3>3, MergeOne
    <3>5. target'[n] = Merge(policy, s, n)
      BY <2>1, <3>2
    <3>6. \/ target'[n] = v
          \/ /\ policy = "preserve-newer" /\ target[n] > v /\ target'[n] = target[n]
      BY <3>4, <3>5
    <3> QED
      BY <1>1, <3>2, <3>6 DEF Held
  <2> QED
    BY <2>2, <2>3
<1>5. ASSUME call[i].policy = "require-empty", NEW id \in Id, target'[id] # 0
      PROVE  \E r \in LogicalRecord : (Put(i, r) \/ InBatch(i, r)) /\ r.logical_id = id
  <2>1. CASE \A k \in 1..Len(b) : b[k].logical_id # id
    <3>1. target'[id] = target[id]
      BY <1>1, <1>2, <2>1, MergeOther
    <3> QED
      BY <1>5, <3>1 DEF Holds
  <2>2. CASE \E k \in 1..Len(b) : b[k].logical_id = id
    BY <1>2, <2>2 DEF InBatch
  <2> QED
    BY <2>1, <2>2
<1>6. \A r \in LogicalRecord : Put(i, r)' <=> Put(i, r) \/ InBatch(i, r)
  BY FlushPuts
<1>7. /\ \A r \in LogicalRecord : Put(i, r)' => Held(i, r)'
      /\ call'[i].policy = "require-empty" =>
            \A id \in Id : target'[id] # 0 =>
                \E r \in LogicalRecord : Put(i, r)' /\ r.logical_id = id
  BY <1>1, <1>4, <1>5, <1>6
<1> QED
  BY <1>7 DEF Holds

LEMMA StepHolds ==
  ASSUME TInv, Unambiguous, NEW i \in Importer, Handed(i), Holds(i), Steps(i)
  PROVE  Holds(i)'
<1>1. ASSUME written'[i] = written[i], target' = target, call'[i].policy = call[i].policy,
             pc[i] = "write", InStep(i)
      PROVE  Holds(i)'
  BY <1>1 DEF Holds, Put, Held
<1>2. CASE pc'[i] # "write"
  BY <1>2 DEF Holds
<1>3. CASE Consumes(i)
  <2>1. PICK line \in LogicalRecord : ConsumesLine(i, line)
    BY <1>3 DEF Consumes
  <2>2. /\ GoesOn(i) /\ Reading(i) /\ pc'[i] = pc[i] /\ call'[i].part = call[i].part
        /\ call'[i].read = Append(call[i].read, line)
        /\ written'[i] = written[i] /\ target' = target
        /\ call'[i].policy = call[i].policy /\ call'[i].export = call[i].export
    BY <2>1 DEF ConsumesLine, GoesOn
  <2>3. ASSUME InStep(i)' PROVE InStep(i)
    <3> DEFINE d == call[i].read
               t == call[i].export[call[i].part]
    <3>1. Reading(i)'
      BY <2>2 DEF Reading, GoesOn
    <3>2. Prefix(Append(d, line), t)
      BY <2>2, <2>3, <3>1 DEF InStep, Prefix
    <3>3. d \in Seq(LogicalRecord) /\ t \in Seq(LogicalRecord) /\ Len(d) \in Nat /\ Len(t) \in Nat
      BY <2>2, CallTyped, ArtifactTyped DEF GoesOn
    <3> HIDE DEF d, t
    <3>4. Len(Append(d, line)) = Len(d) + 1 /\ \A k \in 1..Len(d) : Append(d, line)[k] = d[k]
      BY <3>3
    <3> DEFINE a == Append(d, line)
    <3> HIDE DEF a
    <3>5. Prefix(a, t) /\ Len(a) = Len(d) + 1 /\ \A k \in 1..Len(d) : a[k] = d[k]
      BY <3>2, <3>4 DEF a
    <3>6. Prefix(d, t)
      BY <3>3, <3>5 DEF Prefix
    <3> QED
      BY <3>6 DEF InStep, d, t
  <2>4. CASE pc[i] = "write" /\ InStep(i)
    BY <1>1, <2>2, <2>4
  <2>5. CASE ~InStep(i)'
    BY <2>5 DEF Holds
  <2> QED
    BY <1>2, <2>2, <2>3, <2>4, <2>5
<1>4. CASE Flushes(i)
  <2>1. /\ Reading(i) /\ pc'[i] = pc[i] /\ pc[i] # "idle" /\ call'[i].part = call[i].part
        /\ call'[i].read = call[i].read /\ call'[i].export = call[i].export
    BY <1>4 DEF Flushes, GoesOn
  <2>2. InStep(i)' => InStep(i)
    BY <2>1 DEF InStep, Reading, Prefix
  <2>3. CASE ~InStep(i)'
    BY <2>3 DEF Holds
  <2> QED
    BY <1>2, <1>4, <2>1, <2>2, <2>3, FlushHolds
<1>5. CASE Passes(i)
  <2>1. /\ Reading(i) /\ pc'[i] = pc[i] /\ pc[i] # "idle"
        /\ call[i].read = call[i].export[call[i].part]
        /\ written'[i] = written[i] /\ target' = target /\ call'[i].policy = call[i].policy
    BY <1>5 DEF Passes, Matches, GoesOn
  <2>2. Len(call[i].read) \in Nat
    BY <2>1, CallTyped
  <2>3. InStep(i)
    BY <2>1, <2>2 DEF InStep, Prefix
  <2> QED
    BY <1>1, <1>2, <2>1, <2>3
<1>6. CASE Rewinds(i)
  <2>1. /\ pc[i] = "verify" /\ written'[i] = written[i] /\ target' = target
        /\ call'[i].policy = call[i].policy
        /\ call[i].policy = "require-empty" => \A id \in Id : target[id] = 0
    BY <1>6 DEF Rewinds, GoesOn
  <2>2. \A p \in 1..Len(written[i]) : written[i][p] = << >> /\ Len(<< >>) = 0
    BY <2>1 DEF Handed
  <2>3. \A r \in LogicalRecord : ~Put(i, r)'
    BY <2>1, <2>2 DEF Put
  <2> QED
    BY <2>1, <2>3 DEF Holds
<1>7. CASE Starts(i) \/ Finishes(i) \/ Fails(i)
  BY <1>2, <1>7 DEF Starts, Finishes, Fails, Ended
<1> QED
  BY <1>3, <1>4, <1>5, <1>6, <1>7 DEF Steps

LEMMA PInvStep ==
  ASSUME TInv, HInv, PInv, OneAtATime, Unambiguous, [INext]_ivars
  PROVE  PInv'
<1>1. CASE UNCHANGED <<pc, call, written, target>>
  BY <1>1, ZenonT(40) DEF PInv, Holds, InStep, Reading, Prefix, Put, Held
<1>2. ASSUME NEW i \in Importer, Steps(i)
      PROVE  PInv'
  <2>1. Holds(i)'
    BY <1>2, StepHolds DEF PInv, HInv
  <2>2. \A j \in Importer : j = i
    BY DEF OneAtATime
  <2> QED
    BY <2>1, <2>2 DEF PInv
<1> QED
  BY <1>1, <1>2, StepEffect DEF Elsewhere, ivars

LEMMA ReportHolds ==
  ASSUME TInv, NEW i \in Importer, Handed(i), Holds(i), Finishes(i), NEW id \in Id
  PROVE  LET r == Report(i) IN
         /\ \A v \in VersionsOf(r.export, id) :
               \/ r.target_fingerprint[id] = v
               \/ (r.policy = "preserve-newer" /\ r.target_fingerprint[id] > v)
         /\ r.policy = "require-empty" /\ VersionsOf(r.export, id) = {}
               => r.target_fingerprint[id] = 0
<1> DEFINE e == call[i].export
<1>1. pc[i] = "write" /\ InStep(i) /\ written[i] = e /\ e \in Export
  BY AllHanded, CallTyped DEF Finishes, InStep
<1>2. /\ Report(i).export = e /\ Report(i).policy = call[i].policy
      /\ Report(i).target_fingerprint = target
  BY DEF Report
<1>3. \A r \in LogicalRecord : Put(i, r) <=> InExport(e, r)
  BY <1>1 DEF Put, InExport
<1>4. ASSUME NEW v \in VersionsOf(e, id)
      PROVE  target[id] = v \/ (call[i].policy = "preserve-newer" /\ target[id] > v)
  <2> DEFINE r == [logical_id |-> id, version |-> v]
  <2>1. r \in LogicalRecord /\ r.logical_id = id /\ r.version = v
    BY DEF VersionsOf, LogicalRecord
  <2>2. Put(i, r)
    BY <1>1, <1>3, <2>1, InExportVersion
  <2>3. Held(i, r)
    BY <1>1, <2>1, <2>2 DEF Holds
  <2> QED
    BY <2>1, <2>3 DEF Held
<1>5. ASSUME call[i].policy = "require-empty", VersionsOf(e, id) = {}
      PROVE  target[id] = 0
  <2>1. SUFFICES ASSUME target[id] # 0 PROVE FALSE
    OBVIOUS
  <2>2. PICK r \in LogicalRecord : Put(i, r) /\ r.logical_id = id
    BY <1>1, <1>5, <2>1 DEF Holds
  <2> QED
    BY <1>1, <1>3, <1>5, <2>2, InExportVersion
<1> QED
  BY <1>2, <1>4, <1>5

LEMMA PolicyStep ==
  ASSUME TInv, HInv, PInv, PolicyKept, [INext]_ivars
  PROVE  PolicyKept'
<1>1. CASE reports' = reports
  BY <1>1 DEF PolicyKept, VersionsOf
<1>2. ASSUME NEW i \in Importer, Finishes(i)
      PROVE  PolicyKept'
  <2>1. reports' = reports \cup {Report(i)} /\ Handed(i) /\ Holds(i)
    BY <1>2 DEF Finishes, HInv, PInv
  <2>2. PICK x : x = Report(i)
    OBVIOUS
  <2>3. ASSUME NEW id \in Id
        PROVE  /\ \A v \in VersionsOf(x.export, id) :
                     \/ x.target_fingerprint[id] = v
                     \/ (x.policy = "preserve-newer" /\ x.target_fingerprint[id] > v)
               /\ x.policy = "require-empty" /\ VersionsOf(x.export, id) = {}
                     => x.target_fingerprint[id] = 0
    BY <1>2, <2>1, <2>2, ReportHolds
  <2>4. reports' = reports \cup {x}
    BY <2>1, <2>2
  <2> QED
    BY <2>3, <2>4 DEF PolicyKept
<1>3. ASSUME NEW i \in Importer, Steps(i), ~Finishes(i)
      PROVE  reports' = reports
  BY <1>3 DEF Steps, Starts, Consumes, ConsumesLine, Flushes, Passes, Rewinds, Fails
<1> QED
  BY <1>1, <1>2, <1>3, StepEffect DEF Elsewhere, ivars

--------------------------------------------------------------------------------
(***************************************************************************)
(* Validated restores: the evidence is of a report that was returned.      *)
(***************************************************************************)
Prov ==
    \A x \in validated : \E r \in reports :
        r.export = x.export /\ r.target_fingerprint = x.target_fingerprint

LEMMA ProvStep ==
  ASSUME TInv, Prov, [INext]_ivars
  PROVE  Prov'
<1>1. CASE validated' = validated /\ reports \subseteq reports'
  BY <1>1 DEF Prov
<1>2. ASSUME Elsewhere, validated' # validated
      PROVE  Prov'
  <2>1. PICK report \in reports :
           validated' = validated \cup {[export |-> report.export,
                              target_fingerprint |-> report.target_fingerprint]}
    BY <1>2 DEF Elsewhere, Marks
  <2>2. reports' = reports
    BY <1>2 DEF Elsewhere
  <2> QED
    BY <2>1, <2>2 DEF Prov
<1>3. ASSUME NEW i \in Importer, Steps(i)
      PROVE  validated' = validated /\ reports \subseteq reports'
  BY <1>3 DEF Steps, Starts, Consumes, ConsumesLine, Flushes, Passes, Rewinds, Finishes, Fails
<1> QED
  BY <1>1, <1>2, <1>3, StepEffect DEF Elsewhere, ivars

LEMMA RestoredHolds ==
  ASSUME TInv, PolicyKept, Prov
  PROVE  RestoreHolds
<1> SUFFICES ASSUME NEW x \in validated, NEW id \in Id, NEW v \in VersionsOf(x.export, id)
             PROVE  x.target_fingerprint[id] >= v
  BY DEF RestoreHolds
<1>1. PICK r \in reports : r.export = x.export /\ r.target_fingerprint = x.target_fingerprint
  BY DEF Prov
<1> DEFINE held == x.target_fingerprint[id]
<1>2. held = v \/ held > v
  BY <1>1 DEF PolicyKept
<1>3. x.target_fingerprint \in [Id -> 0..MaxVersion]
  BY Types DEF RestoreValidationEvidence, Contents
<1>4. held \in Int /\ v \in Int
  BY <1>3, ImportAssumption DEF VersionsOf
<1> HIDE DEF held
<1>5. held >= v
  BY <1>2, <1>4
<1> QED
  BY <1>5 DEF held

--------------------------------------------------------------------------------
LEMMA InitInv ==
  ASSUME IInit
  PROVE  TInv /\ HInv /\ ReportFaithful /\ VInv /\ OInv /\ PInv /\ PolicyKept /\ Prov
<1>1. TInv
  BY TInvInit
<1>2. \A i \in Importer : pc[i] = "idle" /\ written[i] = << >>
  BY DEF IInit
<1>3. HInv /\ VInv /\ PInv
  BY <1>2 DEF HInv, Handed, VInv, Trusted, PInv, Holds
<1>4. OInv
  <2> SUFFICES ASSUME NEW i \in Importer PROVE Delivered(i)
    BY DEF OInv
  <2>1. pc[i] = "idle" /\ written[i] = << >> /\ Len(<< >>) = 0
    BY <1>2
  <2>2. Len(written[i]) = 0
    BY <2>1
  <2> QED
    BY <2>1, <2>2 DEF Delivered
<1>5. ReportFaithful /\ PolicyKept /\ Prov
  BY DEF IInit, ReportFaithful, PolicyKept, Prov
<1> QED
  BY <1>1, <1>3, <1>4, <1>5

\* What holds of any number of imports at the same time.
LEMMA AlwaysTInv == ISpec => [](TInv /\ HInv /\ VInv /\ OInv)
<1>1. IInit => TInv /\ HInv /\ VInv /\ OInv
  BY InitInv
<1>2. TInv /\ HInv /\ VInv /\ OInv /\ [INext]_ivars => (TInv /\ HInv /\ VInv /\ OInv)'
  BY TInvStep, HInvStep, VInvStep, OInvStep
<1> QED
  BY <1>1, <1>2, PTL DEF ISpec

(***************************************************************************)
(* Every variable of imports and restores keeps its type, whatever the     *)
(* artifacts are changed to and wherever import_export raises.             *)
(***************************************************************************)
THEOREM ImportTypes == ISpec => []ITypeOK
<1>1. TInv => ITypeOK
  BY DEF TInv
<1> QED
  BY <1>1, AlwaysTInv, PTL

(***************************************************************************)
(* import_export returns a report only after it has handed the target      *)
(* every record of every partition once, in order, and nothing else,       *)
(* whatever happened to the artifacts between its two passes over them.    *)
(***************************************************************************)
THEOREM ReportsFaithful == ISpec => []ReportFaithful
<1>1. IInit => ReportFaithful
  BY InitInv
<1>2. TInv /\ HInv /\ ReportFaithful /\ [INext]_ivars => ReportFaithful'
  BY FaithfulStep
<1> QED
  BY <1>1, <1>2, AlwaysTInv, PTL DEF ISpec

(***************************************************************************)
(* The first pass of import_export protects the target: unless an artifact *)
(* changes during the call, only records of the export reach the target,   *)
(* in their order, and none before the transfer of its objects.            *)
(***************************************************************************)
THEOREM VerifiesFirst == ISpec => []VerifiedFirst
<1>1. TInv /\ HInv /\ VInv /\ OInv => VerifiedFirst
  BY VerifiedHolds
<1> QED
  BY <1>1, AlwaysTInv, PTL

LEMMA AlwaysPolicy ==
  ASSUME OneAtATime, Unambiguous
  PROVE  ISpec => []PolicyKept
<1>1. IInit => PInv /\ PolicyKept
  BY InitInv
<1>2. TInv /\ HInv /\ PInv /\ [INext]_ivars => PInv'
  BY PInvStep
<1>3. TInv /\ HInv /\ PInv /\ PolicyKept /\ [INext]_ivars => PolicyKept'
  BY PolicyStep
<1> QED
  BY <1>1, <1>2, <1>3, AlwaysTInv, PTL DEF ISpec

(***************************************************************************)
(* When imports into a target are made one at a time and an export has no  *)
(* id in two versions, a report of import_export means what its merge      *)
(* policy says, after any number of imports that failed half way.          *)
(* The coordinator ensures neither hypothesis: nothing keeps two imports   *)
(* apart, and ids increase within a partition only.                        *)
(***************************************************************************)
THEOREM PolicyHonoured ==
  ASSUME OneAtATime, Unambiguous
  PROVE  ISpec => []PolicyKept
  BY AlwaysPolicy

(***************************************************************************)
(* Under the same hypotheses the evidence of validate_restore is of a      *)
(* target that held all of the export, each record as exported or newer.   *)
(***************************************************************************)
THEOREM RestoresHold ==
  ASSUME OneAtATime, Unambiguous
  PROVE  ISpec => []RestoreHolds
<1>1. IInit => Prov
  BY InitInv
<1>2. TInv /\ Prov /\ [INext]_ivars => Prov'
  BY ProvStep
<1>3. TInv /\ PolicyKept /\ Prov => RestoreHolds
  BY RestoredHolds
<1> QED
  BY <1>1, <1>2, <1>3, AlwaysTInv, AlwaysPolicy, PTL DEF ISpec
================================================================================
