----------------------------- MODULE LogicalExport -----------------------------
(***************************************************************************)
(* LogicalExportCoordinator.export over a source that goes on changing,    *)
(* and InMemoryLogicalArtifacts, the sink that several exports may share.  *)
(*                                                                         *)
(* The source is an adapter's.  It pages through a partition in the order  *)
(* of logical ids, either in a snapshot taken by begin or live, and finish *)
(* tells up to which watermark it has read.  It may lose its place, return *)
(* a page out of order or too large, or return another boundary at the     *)
(* end; any hook may raise and the process may die.  A digest stands for   *)
(* what it is the digest of, so an artifact reference holds the content    *)
(* it addresses.                                                           *)
(*                                                                         *)
(* A definition called Faulty... is the definition after it with a bug in  *)
(* it.  No specification uses one: each shows that a property can fail.    *)
(***************************************************************************)
EXTENDS Integers, Sequences, FiniteSets

CONSTANTS
    Exporter,     \* callers of export that share the sink
    Id,           \* logical ids, in the order of the numbers
    PartitionIds, \* what partition_ids returns
    PartitionOf,  \* the partition of each id
    BatchSize,    \* batch_size of the request
    MaxCommits,   \* bound on the length of history
    MaxHandles,   \* bound on the partitions begun
    MaxFaults     \* bound on misbehaving hooks and crashes

ASSUME ExportAssumption ==
    /\ Id \subseteq Nat \ {0} /\ IsFiniteSet(Id)
    /\ PartitionIds \in Seq(STRING)
    /\ PartitionOf \in [Id -> {PartitionIds[k] : k \in DOMAIN PartitionIds}]
    /\ BatchSize \in 1..10000
    /\ MaxCommits \in Nat \ {0} /\ MaxHandles \in Nat /\ MaxFaults \in Nat

VARIABLES
    history,   \* the source after each commit: the version of every id, 0 if absent
    pending,   \* sink: the bytes written so far to each handle
    artifacts, \* sink: the finished artifacts
    pc,        \* where each exporter is
    call,      \* its local variables
    cancelled, \* cancellation tokens
    exports,   \* the manifests that were returned
    faults     \* faults still to come

evars == <<history, pending, artifacts, pc, call, cancelled, exports, faults>>

ExportConsistency == {"consistent-boundary", "live-read"}

LogicalRecord == [logical_id : Id, version : 1..MaxCommits]

\* A watermark is a position in history.
ExportBoundary ==
    {b \in [consistency : ExportConsistency, start : Nat, end : Nat] :
        b.consistency = "consistent-boundary" => b.start = b.end}

\* sha256, count, bytes and id bounds all derive from the records hashed.
PartitionManifest ==
    [partition_id : STRING, artifact_ref : [partition_id : STRING, content : Seq(LogicalRecord)],
     sha256 : Seq(LogicalRecord)]

LogicalExportV1 == [boundary : ExportBoundary, partitions : Seq(PartitionManifest)]

Call == [snapshot : BOOLEAN, start : Nat, handle : Nat, previous : Nat,
         digest : Seq(LogicalRecord), manifests : Seq(PartitionManifest)]

NoCall == [snapshot |-> FALSE, start |-> 0, handle |-> 0, previous |-> 0,
           digest |-> <<>>, manifests |-> <<>>]

ETypeOK ==
    /\ history \in Seq([Id -> 0..MaxCommits])
    /\ pending \in Seq(Seq(LogicalRecord))
    /\ \A a \in artifacts : a.content \in Seq(LogicalRecord)
    /\ pc \in [Exporter -> {"idle", "partitions", "records"}]
    /\ call \in [Exporter -> Call]
    /\ cancelled \in [Exporter -> BOOLEAN]
    /\ exports \subseteq LogicalExportV1
    /\ faults \in Nat

EInit ==
    /\ history \in {<<s>> : s \in [Id -> {0, 1}]}
    /\ pending = <<>> /\ artifacts = {} /\ exports = {}
    /\ pc = [x \in Exporter |-> "idle"]
    /\ call = [x \in Exporter |-> NoCall]
    /\ cancelled = [x \in Exporter |-> FALSE]
    /\ faults = MaxFaults

--------------------------------------------------------------------------------
Fault == faults > 0 /\ faults' = faults - 1

Watermark == Len(history)

\* What the pages of x are read from.
View(x) == history[IF call[x].snapshot THEN call[x].start ELSE Watermark]

Following(x, p, id) == {i \in Id : PartitionOf[i] = p /\ i > id /\ View(x)[i] # 0}

\* A page: the first size records of the partition behind an id.
Page(x, p, id, size) ==
    LET ids == Following(x, p, id)
        Rank(i) == Cardinality({j \in ids : j <= i})
    IN  [k \in 1..size |-> LET i == CHOOSE i \in ids : Rank(i) = k
                           IN  [logical_id |-> i, version |-> View(x)[i]]]

Partition(x) == PartitionIds[Len(call[x].manifests) + 1]

\* The end of a call, whether it returns or raises.
End(x) ==
    /\ pc' = [pc EXCEPT ![x] = "idle"]
    /\ call' = [call EXCEPT ![x] = NoCall]
    /\ cancelled' = [cancelled EXCEPT ![x] = FALSE]

\* begin, metadata and partition_ids, which must not repeat a partition.
Begin(x) ==
    /\ pc[x] = "idle"
    /\ \A j, k \in DOMAIN PartitionIds : PartitionIds[j] = PartitionIds[k] => j = k
    /\ Len(pending) < MaxHandles
    /\ \E snapshot \in BOOLEAN :
          call' = [call EXCEPT ![x] = [NoCall EXCEPT !.snapshot = snapshot, !.start = Watermark]]
    /\ pc' = [pc EXCEPT ![x] = "partitions"]
    /\ UNCHANGED <<history, pending, artifacts, cancelled, exports, faults>>

\* begin_partition hands out the next handle.
BeginPartition(x) ==
    /\ pc[x] = "partitions" /\ ~cancelled[x]
    /\ Len(call[x].manifests) < Len(PartitionIds)
    /\ Len(pending) < MaxHandles
    /\ pending' = Append(pending, <<>>)
    /\ call' = [call EXCEPT ![x].handle = Len(pending) + 1, ![x].previous = 0, ![x].digest = <<>>]
    /\ pc' = [pc EXCEPT ![x] = "records"]
    /\ UNCHANGED <<history, artifacts, cancelled, exports, faults>>

\* The ways a source may return the records of a page: in any order, and one of them twice.
Arrangement(size) ==
    {order \in UNION {[1..n -> 1..size] : n \in {size, size + 1}} :
        \A i \in 1..size : \E k \in DOMAIN order : order[k] = i}

\* The first n records of a batch come behind all that came before them.
InOrder(x, batch, n) ==
    \A k \in 1..n :
        /\ batch[k].logical_id > call[x].previous
        /\ \A j \in 1..(k - 1) : batch[j].logical_id < batch[k].logical_id

FaultyAccepts(x, batch) == Len(batch) <= BatchSize  \* the order is not looked at

Accepts(x, batch) == Len(batch) <= BatchSize /\ InOrder(x, batch, Len(batch))

\* Of a batch that is refused, n records were written before export raises.
WrittenOf(x, batch, n) ==
    IF Len(batch) > BatchSize THEN n = 0
    ELSE InOrder(x, batch, n) /\ ~InOrder(x, batch, n + 1)

(***************************************************************************)
(* One page of the partition: every record is written to the sink and      *)
(* hashed.  A source that lost its place reads behind an earlier id, or    *)
(* arranges the page in another way; a page that is refused ends the call  *)
(* at the record where that shows, and leaves the handle behind.           *)
(***************************************************************************)
WriteBatch(x) ==
    /\ pc[x] = "records" /\ ~cancelled[x]
    /\ \E place \in {i \in Id \cup {0} : i <= call[x].previous} :
       \E size \in 1..Cardinality(Following(x, Partition(x), place)) :
       \E order \in Arrangement(size) :
          LET page  == Page(x, Partition(x), place, size)
              batch == [k \in DOMAIN order |-> page[order[k]]]
          IN
          /\ IF place = call[x].previous /\ batch = page THEN UNCHANGED faults ELSE Fault
          /\ \/ /\ Accepts(x, batch)
                /\ pending' = [pending EXCEPT ![call[x].handle] = @ \o batch]
                /\ call' = [call EXCEPT ![x].digest = @ \o batch,
                                        ![x].previous = batch[Len(batch)].logical_id]
                /\ UNCHANGED <<pc, cancelled>>
             \/ /\ ~Accepts(x, batch)
                /\ \E n \in 0..(Len(batch) - 1) :
                      /\ WrittenOf(x, batch, n)
                      /\ pending' = [pending EXCEPT ![call[x].handle] = @ \o SubSeq(batch, 1, n)]
                /\ End(x)
    /\ UNCHANGED <<history, artifacts, exports>>

\* finish_partition: what was written to the handle is stored under its content.
Store(handle, ref) ==
    /\ artifacts' = artifacts \cup {ref}
    /\ pending' = [pending EXCEPT ![handle] = <<>>]

\* The source is exhausted: the artifact is stored, the manifest made of what was hashed.
FinishPartition(x) ==
    /\ pc[x] = "records"
    /\ Following(x, Partition(x), call[x].previous) = {}
    /\ LET ref == [partition_id |-> Partition(x), content |-> pending[call[x].handle]] IN
          /\ Store(call[x].handle, ref)
          /\ call' = [call EXCEPT ![x].manifests = Append(@,
                [partition_id |-> Partition(x), artifact_ref |-> ref,
                 sha256 |-> call[x].digest])]
    /\ pc' = [pc EXCEPT ![x] = "partitions"]
    /\ UNCHANGED <<history, cancelled, exports, faults>>

(***************************************************************************)
(* The boundary finish returns; a renewed one starts at the present        *)
(* watermark.  Its consistency is the source's word: export compares it    *)
(* with nothing, and does not look at that of the boundary it began with.  *)
(***************************************************************************)
FinalBoundary(x, consistency, renewed) ==
    [consistency |-> consistency,
     start       |-> IF renewed THEN Watermark ELSE call[x].start,
     end         |-> IF call[x].snapshot /\ ~renewed THEN call[x].start ELSE Watermark]

FaultyBoundaryAccepted(x, boundary) == boundary \in ExportBoundary  \* any start will do

FaultyBoundaryChecked(x, boundary) == boundary.start = call[x].start  \* a moving end is kept

BoundaryAccepted(x, boundary) ==
    /\ boundary \in ExportBoundary
    /\ boundary.start = call[x].start

\* The manifest is recorded as COMPLETED and returned, or the call raises, as it
\* always does for a boundary that was renamed: one with another boundary_id.
Finish(x) ==
    /\ pc[x] = "partitions"
    /\ Len(call[x].manifests) = Len(PartitionIds)
    /\ \E consistency \in ExportConsistency, renewed, renamed \in BOOLEAN :
          LET boundary == FinalBoundary(x, consistency, renewed) IN
          /\ IF renewed \/ renamed THEN Fault ELSE UNCHANGED faults
          /\ exports' = IF ~renamed /\ BoundaryAccepted(x, boundary)
                        THEN exports \cup {[boundary |-> boundary,
                                            partitions |-> call[x].manifests]}
                        ELSE exports
    /\ End(x)
    /\ UNCHANGED <<history, pending, artifacts>>

\* Cancellation, a hook that raises or a crash: the sink is told nothing.
GiveUp(x) ==
    /\ pc[x] # "idle"
    /\ \/ /\ cancelled[x] /\ Len(call[x].manifests) < Len(PartitionIds)
          /\ UNCHANGED faults
       \/ Fault
    /\ End(x)
    /\ UNCHANGED <<history, pending, artifacts, exports>>

Cancel(x) ==
    /\ pc[x] # "idle" /\ ~cancelled[x]
    /\ cancelled' = [cancelled EXCEPT ![x] = TRUE]
    /\ UNCHANGED <<history, pending, artifacts, pc, call, exports, faults>>

Commit ==
    /\ Watermark < MaxCommits
    /\ \E i \in Id, version \in {0, Watermark + 1} :
          /\ version # history[Watermark][i]
          /\ history' = Append(history, [history[Watermark] EXCEPT ![i] = version])
    /\ UNCHANGED <<pending, artifacts, pc, call, cancelled, exports, faults>>

ENext ==
    \/ \E x \in Exporter :
          \/ Begin(x)
          \/ BeginPartition(x)
          \/ WriteBatch(x)
          \/ FinishPartition(x)
          \/ Finish(x)
          \/ GiveUp(x)
          \/ Cancel(x)
    \/ Commit

ESpec == EInit /\ [][ENext]_evars

--------------------------------------------------------------------------------
\* The version of id in the artifacts of an export, 0 if it is not there.
Exported(e, id) ==
    LET found == {r \in UNION {{m.artifact_ref.content[k] : k \in DOMAIN m.artifact_ref.content} :
                               m \in {e.partitions[k] : k \in DOMAIN e.partitions}} :
                      r.logical_id = id}
    IN  IF found = {} THEN 0 ELSE (CHOOSE r \in found : TRUE).version

(***************************************************************************)
(* A boundary tells the truth: whatever was committed while the partitions *)
(* were read one page after the other, an export holds for every id the    *)
(* version, or the absence, that the source had at some watermark within   *)
(* its boundary.  A consistent boundary is one watermark, so such an       *)
(* export is the source as it was at that watermark.                       *)
(***************************************************************************)
WithinBoundary ==
    \A e \in exports : \A id \in Id :
        \E w \in e.boundary.start..e.boundary.end : history[w][id] = Exported(e, id)

(***************************************************************************)
(* Every export returned can be imported: its artifacts are stored, hold   *)
(* what was hashed for the manifest, and list their ids in strict order,   *)
(* as LogicalImportCoordinator requires.  Exports that share the sink do   *)
(* not mix.                                                                *)
(***************************************************************************)
Importable ==
    \A e \in exports : \A k \in DOMAIN e.partitions :
        LET m == e.partitions[k] IN
        /\ m.artifact_ref \in artifacts
        /\ m.artifact_ref.content = m.sha256
        /\ \A i, j \in DOMAIN m.sha256 :
              i < j => m.sha256[i].logical_id < m.sha256[j].logical_id
================================================================================
