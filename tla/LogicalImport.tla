----------------------------- MODULE LogicalImport -----------------------------
(***************************************************************************)
(* LogicalImportCoordinator.import_export: imports of logical exports into *)
(* one target, from artifacts that may change between the two times they   *)
(* are read, and PortableRecoveryCoordinator.validate_restore.             *)
(*                                                                         *)
(* The artifact store, the target, the object transfer and the validation  *)
(* hook belong to adapters.  Each may raise, a target also after it has    *)
(* written a part of a batch, and the process may die; every failed call   *)
(* leaves behind what it has written.  A digest stands for what it is the  *)
(* digest of: a manifest holds the contents of its partitions, and a       *)
(* target fingerprint is the contents of the target.                       *)
(*                                                                         *)
(* A definition called Faulty... is the definition after it with a bug in  *)
(* it.  No specification uses one: each shows that a property can fail.    *)
(***************************************************************************)
EXTENDS Integers, Sequences

CONSTANTS
    Importer,     \* callers of import_export
    Export,       \* manifests: of each, the records of every partition
    Id,           \* logical ids
    MaxVersion,   \* bound on versions
    Damage,       \* what an artifact may be changed to
    Garbage,      \* a line that consume refuses, or bytes without a newline
    BatchSize,    \* batch_size of the imports
    MaxCalls,     \* bound on the imports
    MaxDamages,   \* bound on changes of the artifacts
    MaxFaults     \* bound on raising hooks and crashes

LogicalRecord == [logical_id : Id, version : 1..MaxVersion]

ASSUME ImportAssumption ==
    /\ Id \subseteq Nat \ {0} /\ MaxVersion \in Nat
    /\ \A e \in Export : e \in Seq(Seq(LogicalRecord))
    /\ Damage \subseteq Seq(LogicalRecord \cup {Garbage})
    /\ BatchSize \in 1..10000
    /\ MaxCalls \in Nat /\ MaxDamages \in Nat /\ MaxFaults \in Nat

VARIABLES
    stored,    \* the artifact now behind each partition of each export
    target,    \* the version the target holds of each id, 0 if none
    objects,   \* records whose objects have been transferred
    pc,        \* where each importer is
    call,      \* its local variables
    cancelled, \* cancellation tokens
    changed,   \* an artifact has changed since the call began
    written,   \* what the call has handed to the target, by partition
    reports,   \* the reports that were returned
    validated, \* the restores that were validated
    calls, damages, faults \* what is left of the bounds

ivars == <<stored, target, objects, pc, call, cancelled, changed, written, reports,
           validated, calls, damages, faults>>

MergePolicy == {"require-empty", "preserve-newer", "replace"}

Contents == [Id -> 0..MaxVersion]

\* part: the partition being read; read: the records of it hashed so far.
Call == [export : Export, policy : MergePolicy, part : Nat,
         read : Seq(LogicalRecord), batch : Seq(LogicalRecord)]

\* written stands for the results of the partitions.
ImportReport == [export : Export, policy : MergePolicy, target_fingerprint : Contents,
                 written : Seq(Seq(LogicalRecord))]

RestoreValidationEvidence == [export : Export, target_fingerprint : Contents]

ITypeOK ==
    /\ \A e \in Export : stored[e] \in Seq(Seq(LogicalRecord \cup {Garbage}))
    /\ target \in Contents
    /\ objects \subseteq LogicalRecord
    /\ pc \in [Importer -> {"idle", "verify", "write"}]
    /\ \A i \in Importer : pc[i] # "idle" => call[i] \in Call
    /\ cancelled \in [Importer -> BOOLEAN] /\ changed \in [Importer -> BOOLEAN]
    /\ written \in [Importer -> Seq(Seq(LogicalRecord))]
    /\ reports \subseteq ImportReport
    /\ validated \subseteq RestoreValidationEvidence
    /\ calls \in Nat /\ damages \in Nat /\ faults \in Nat

NoCall == [part |-> 0]

IInit ==
    /\ stored = [e \in Export |-> e]
    /\ target \in {[id \in Id |-> v] : v \in 0..MaxVersion}
    /\ objects = {} /\ reports = {} /\ validated = {}
    /\ pc = [i \in Importer |-> "idle"]
    /\ call = [i \in Importer |-> NoCall]
    /\ cancelled = [i \in Importer |-> FALSE] /\ changed = [i \in Importer |-> FALSE]
    /\ written = [i \in Importer |-> <<>>]
    /\ calls = MaxCalls /\ damages = MaxDamages /\ faults = MaxFaults

--------------------------------------------------------------------------------
Fault == faults > 0 /\ faults' = faults - 1

\* The end of a call, whether it returns or raises.
End(i) ==
    /\ pc' = [pc EXCEPT ![i] = "idle"]
    /\ call' = [call EXCEPT ![i] = NoCall]
    /\ cancelled' = [cancelled EXCEPT ![i] = FALSE]
    /\ changed' = [changed EXCEPT ![i] = FALSE]
    /\ written' = [written EXCEPT ![i] = <<>>]

\* The artifact that is being read, as it is now.
Artifact(i) == stored[call[i].export][call[i].part]

Reading(i) == pc[i] # "idle" /\ call[i].part <= Len(call[i].export)

\* Both passes over the partitions begin with the first one.
StartPass(i, pass, e, policy) ==
    /\ pc' = [pc EXCEPT ![i] = pass]
    /\ call' = [call EXCEPT ![i] =
          [export |-> e, policy |-> policy, part |-> 1, read |-> <<>>, batch |-> <<>>]]

ImportExport(i) ==
    /\ pc[i] = "idle"
    /\ calls > 0 /\ calls' = calls - 1
    /\ \E e \in Export, policy \in MergePolicy :
          /\ StartPass(i, "verify", e, policy)
          /\ written' = [written EXCEPT ![i] = [p \in 1..Len(e) |-> <<>>]]
    /\ UNCHANGED <<stored, target, objects, cancelled, changed, reports, validated,
                   damages, faults>>

FaultyConsumable(read, line) ==  \* takes what is not canonical JSON
    read # <<>> /\ line # Garbage => line.logical_id > read[Len(read)].logical_id

\* consume takes a record that is canonical and behind the previous one.
Consumable(read, line) ==
    /\ line # Garbage
    /\ read # <<>> => line.logical_id > read[Len(read)].logical_id

(***************************************************************************)
(* The next line of the artifact.  The second pass has the objects of the  *)
(* record transferred before the record joins the batch.  Cancellation is  *)
(* looked at between chunks, and a chunk may hold any number of lines.     *)
(***************************************************************************)
Consume(i) ==
    /\ Reading(i) /\ Len(call[i].read) < Len(Artifact(i)) /\ Len(call[i].batch) < BatchSize
    /\ call[i].read = <<>> => ~cancelled[i]
    /\ LET line == Artifact(i)[Len(call[i].read) + 1] IN
          \/ /\ ~Consumable(call[i].read, line)
             /\ End(i)
             /\ UNCHANGED objects
          \/ /\ Consumable(call[i].read, line)
             /\ call' = [call EXCEPT ![i].read = Append(@, line),
                                     ![i].batch = IF pc[i] = "write" THEN Append(@, line) ELSE @]
             /\ objects' = IF pc[i] = "write" THEN objects \cup {line} ELSE objects
             /\ UNCHANGED <<pc, cancelled, changed, written>>
    /\ UNCHANGED <<stored, target, reports, validated, calls, damages, faults>>

\* LogicalImportTarget.write, under each policy.
Merge(policy, batch, id) ==
    LET versions == {batch[k].version : k \in {j \in DOMAIN batch : batch[j].logical_id = id}} IN
    IF versions = {} THEN target[id]
    ELSE LET v == CHOOSE v \in versions : TRUE IN
         IF policy = "preserve-newer" /\ target[id] > v THEN target[id] ELSE v

(***************************************************************************)
(* A full batch, or the rest at the end of the partition, goes to the      *)
(* target before the digest of the partition is known.  A target that      *)
(* raises may have written a part of it.                                   *)
(***************************************************************************)
Flush(i) ==
    /\ Reading(i) /\ call[i].batch # <<>>
    /\ \/ Len(call[i].batch) = BatchSize
       \/ Len(call[i].read) >= Len(Artifact(i))
    /\ \E size \in 0..Len(call[i].batch) :
          LET batch == SubSeq(call[i].batch, 1, size) IN
          /\ target' = [id \in Id |-> Merge(call[i].policy, batch, id)]
          /\ IF size = Len(call[i].batch)
             THEN /\ written' = [written EXCEPT ![i][call[i].part] = @ \o batch]
                  /\ call' = [call EXCEPT ![i].batch = <<>>]
                  /\ UNCHANGED <<pc, cancelled, changed, faults>>
             ELSE End(i) /\ Fault
    /\ UNCHANGED <<stored, objects, reports, validated, calls, damages>>

FaultyMatches(i) == pc[i] = "write" \/ call[i].read = call[i].export[call[i].part]

FaultyVerify(i) == pc[i] = "verify" \/ call[i].read = call[i].export[call[i].part]

\* Count, bytes, bounds and digest of what was read are those of the manifest.
Matches(i) == call[i].read = call[i].export[call[i].part]

EndPartition(i) ==
    /\ Reading(i) /\ Len(call[i].read) >= Len(Artifact(i)) /\ call[i].batch = <<>>
    /\ IF Matches(i)
       THEN /\ call' = [call EXCEPT ![i].part = @ + 1, ![i].read = <<>>]
            /\ UNCHANGED <<pc, cancelled, changed, written>>
       ELSE End(i)
    /\ UNCHANGED <<stored, target, objects, reports, validated, calls, damages, faults>>

FaultyPreflight(i) ==  \* does not ask the target
    /\ pc[i] = "verify" /\ ~Reading(i)
    /\ StartPass(i, "write", call[i].export, call[i].policy)
    /\ UNCHANGED <<stored, target, objects, cancelled, changed, written, reports,
                   validated, calls, damages, faults>>

\* Every artifact is verified; the target refuses require-empty unless it is.
Preflight(i) ==
    /\ pc[i] = "verify" /\ ~Reading(i)
    /\ IF call[i].policy = "require-empty" /\ \E id \in Id : target[id] # 0
       THEN End(i)
       ELSE /\ StartPass(i, "write", call[i].export, call[i].policy)
            /\ UNCHANGED <<cancelled, changed, written>>
    /\ UNCHANGED <<stored, target, objects, reports, validated, calls, damages, faults>>

\* finalize, the report, its evidence.  Equal results follow from equal manifests.
Finalize(i) ==
    /\ pc[i] = "write" /\ ~Reading(i)
    /\ reports' = reports \cup {[export |-> call[i].export, policy |-> call[i].policy,
                                 target_fingerprint |-> target, written |-> written[i]]}
    /\ End(i)
    /\ UNCHANGED <<stored, target, objects, validated, calls, damages, faults>>

\* Cancellation, a hook or the evidence sink that raises, or a crash.
GiveUp(i) ==
    /\ pc[i] # "idle"
    /\ \/ cancelled[i] /\ Reading(i) /\ UNCHANGED faults
       \/ Fault
    /\ End(i)
    /\ UNCHANGED <<stored, target, objects, reports, validated, calls, damages>>

Cancel(i) ==
    /\ pc[i] # "idle" /\ ~cancelled[i]
    /\ cancelled' = [cancelled EXCEPT ![i] = TRUE]
    /\ UNCHANGED <<stored, target, objects, pc, call, changed, written, reports,
                   validated, calls, damages, faults>>

\* An artifact is damaged, or is put right again.
DamageArtifact ==
    /\ damages > 0 /\ damages' = damages - 1
    /\ \E e \in Export : \E p \in DOMAIN e : \E content \in Damage \cup {e[p]} :
          stored' = [stored EXCEPT ![e][p] = content]
    /\ changed' = [i \in Importer |-> pc[i] # "idle"]
    /\ UNCHANGED <<target, objects, pc, call, cancelled, written, reports, validated, calls, faults>>

FaultyReportOf(report, e) == TRUE  \* takes any report

ReportOf(report, e) == report.export = e

\* validate_restore, of any manifest with any report; a hook that raises leaves no trace.
ValidateRestore ==
    /\ \E e \in Export, report \in reports :
          /\ ReportOf(report, e)
          /\ validated' = validated \cup
                {[export |-> e, target_fingerprint |-> report.target_fingerprint]}
    /\ UNCHANGED <<stored, target, objects, pc, call, cancelled, changed, written, reports,
                   calls, damages, faults>>

INext ==
    \/ \E i \in Importer :
          \/ ImportExport(i)
          \/ Consume(i)
          \/ Flush(i)
          \/ EndPartition(i)
          \/ Preflight(i)
          \/ Finalize(i)
          \/ GiveUp(i)
          \/ Cancel(i)
    \/ DamageArtifact
    \/ ValidateRestore

ISpec == IInit /\ [][INext]_ivars

--------------------------------------------------------------------------------
(***************************************************************************)
(* Import verifies every artifact before it writes: unless an artifact     *)
(* changes while the call is under way, the target is handed records of    *)
(* the export only, in their order.  Damage from before the call, in any   *)
(* partition, never reaches it.  And whatever changes, no record is handed *)
(* over before the objects it refers to have been transferred.             *)
(***************************************************************************)
VerifiedFirst ==
    \A i \in Importer : \A p \in DOMAIN written[i] :
        /\ pc[i] # "idle" /\ ~changed[i] =>
              written[i][p] = SubSeq(call[i].export[p], 1, Len(written[i][p]))
        /\ \A k \in DOMAIN written[i][p] : written[i][p][k] \in objects

(***************************************************************************)
(* A report tells the truth: the call has handed the target every record   *)
(* of the export exactly once and nothing else, whenever the artifacts     *)
(* were damaged, put right or damaged again while it read them twice.      *)
(***************************************************************************)
ReportFaithful == \A r \in reports : r.written = r.export

\* The versions an export has of an id.
VersionsOf(e, id) ==
    {v \in 1..MaxVersion :
        \E p \in DOMAIN e : \E k \in DOMAIN e[p] : e[p][k] = [logical_id |-> id, version |-> v]}

(***************************************************************************)
(* After an import the target is what the merge policy promises, whatever  *)
(* failed, cancelled or damaged imports have left there before: replace    *)
(* has put every record in place, preserve-newer has nothing older, and    *)
(* require-empty has the export and nothing else.  (Imports one at a time: *)
(* nothing in the coordinator keeps two of them apart.)                    *)
(***************************************************************************)
PolicyKept ==
    \A r \in reports, id \in Id :
        LET held == r.target_fingerprint[id] IN
        /\ \A v \in VersionsOf(r.export, id) :
              held = v \/ (r.policy = "preserve-newer" /\ held > v)
        /\ r.policy = "require-empty" /\ VersionsOf(r.export, id) = {} => held = 0

(***************************************************************************)
(* A validated restore is one: its fingerprint is of a target that held    *)
(* every record of the export it names, or a newer one.                    *)
(***************************************************************************)
RestoreHolds ==
    \A x \in validated, id \in Id :
        \A v \in VersionsOf(x.export, id) : x.target_fingerprint[id] >= v
================================================================================
