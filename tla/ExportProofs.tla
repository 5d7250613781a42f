----------------------------- MODULE ExportProofs -----------------------------
(***************************************************************************)
(* Proofs about logical exports, for every partitioning of the ids, every  *)
(* page size and every number of exporters, commits and faults.            *)
(***************************************************************************)
EXTENDS LogicalExport, SequenceTheorems, FiniteSetTheorems, NaturalsInduction, TLAPS

--------------------------------------------------------------------------------
(***************************************************************************)
(* What a page holds.                                                      *)
(***************************************************************************)
LEMMA Smallest ==
  ASSUME NEW S \in SUBSET Nat, S # {}
  PROVE  \E m \in S : \A n \in S : m <= n
<1>1. \E m \in S : \A n \in S : <<n, m>> \notin OpToRel(<, Nat)
  BY NatLessThanWellFounded, WFMin, Zenon
<1>2. PICK m \in S : \A n \in S : ~(n < m)
  BY <1>1 DEF OpToRel
<1> QED
  BY <1>2

\* The place of an id among others, as Page counts it.
Rank(F, i) == Cardinality({j \in F : j <= i})

LEMMA RankBounds ==
  ASSUME NEW F \in SUBSET Nat, IsFiniteSet(F), NEW i \in F
  PROVE  Rank(F, i) \in 1..Cardinality(F)
<1> DEFINE S == {j \in F : j <= i}
<1>1. S \in SUBSET F /\ i \in S
  OBVIOUS
<1>2. IsFiniteSet(S) /\ Cardinality(S) <= Cardinality(F)
  BY <1>1, FS_Subset
<1>3. Cardinality(S) \in Nat /\ Cardinality(F) \in Nat
  BY <1>2, FS_CardinalityType
<1>4. Cardinality(S) # 0
  BY <1>1, <1>2, FS_EmptySet
<1> QED
  BY <1>2, <1>3, <1>4 DEF Rank

LEMMA RankOrder ==
  ASSUME NEW F \in SUBSET Nat, IsFiniteSet(F), NEW i \in F, NEW j \in F, i < j
  PROVE  Rank(F, i) < Rank(F, j)
<1> DEFINE S == {n \in F : n <= i}
           T == {n \in F : n <= j}
<1>0. i \in Nat /\ j \in Nat /\ \A n \in F : n \in Nat
  OBVIOUS
<1>1. S \in SUBSET T /\ j \in T /\ j \notin S /\ T \in SUBSET F
  <2>1. \A n \in F : n <= i => n <= j
    BY <1>0
  <2>2. j <= j /\ ~(j <= i)
    BY <1>0
  <2> QED
    BY <2>1, <2>2
<1>2. IsFiniteSet(T)
  BY <1>1, FS_Subset
<1>3. Cardinality(S) <= Cardinality(T) /\ Cardinality(S) # Cardinality(T) /\ IsFiniteSet(S)
  BY <1>1, <1>2, FS_Subset
<1>4. Cardinality(S) \in Nat /\ Cardinality(T) \in Nat
  BY <1>2, <1>3, FS_CardinalityType
<1> QED
  BY <1>3, <1>4 DEF Rank

LEMMA RankUnique ==
  ASSUME NEW F \in SUBSET Nat, IsFiniteSet(F), NEW i \in F, NEW j \in F, Rank(F, i) = Rank(F, j)
  PROVE  i = j
<1>1. Rank(F, i) \in Int
  BY RankBounds
<1>2. ~(i < j) /\ ~(j < i)
  BY <1>1, RankOrder
<1> QED
  BY <1>2

\* Every place is taken.
LEMMA RankTaken ==
  ASSUME NEW F \in SUBSET Nat, IsFiniteSet(F), NEW k \in 1..Cardinality(F)
  PROVE  \E i \in F : Rank(F, i) = k
<1> DEFINE Free == {n \in 1..Cardinality(F) : \A i \in F : Rank(F, i) # n}
<1>1. Cardinality(F) \in Nat
  BY FS_CardinalityType
<1>2. SUFFICES ASSUME Free # {} PROVE FALSE
  OBVIOUS
<1>3. PICK m \in Free : \A n \in Free : m <= n
  <2>1. Free \in SUBSET Nat
    BY <1>1
  <2> HIDE DEF Free
  <2> QED
    BY <1>2, <2>1, Smallest
<1>4. m \in 1..Cardinality(F) /\ \A i \in F : Rank(F, i) # m
  OBVIOUS
<1>5. CASE m = 1
  <2>1. F # {}
    BY <1>1, <1>4, FS_EmptySet
  <2>2. PICK i \in F : \A j \in F : i <= j
    BY <2>1, Smallest
  <2>3. {j \in F : j <= i} = {i}
    <3>1. \A j \in F : j <= i <=> j = i
      BY <2>2
    <3> QED
      BY <3>1
  <2>4. Rank(F, i) = 1
    BY <2>3, FS_Singleton DEF Rank
  <2> QED
    BY <1>4, <1>5, <2>4
<1>6. CASE m # 1
  <2>1. m - 1 \in 1..Cardinality(F) /\ m - 1 \notin Free
    BY <1>1, <1>3, <1>4, <1>6
  <2>2. PICK i \in F : Rank(F, i) = m - 1
    BY <2>1
  <2> DEFINE S == {j \in F : j <= i}
  <2>3. S \in SUBSET F /\ Cardinality(S) = m - 1
    BY <2>2 DEF Rank
  <2>4. S # F /\ IsFiniteSet(S)
    BY <1>1, <1>4, <2>3, FS_Subset
  <2>5. F \ S # {} /\ F \ S \in SUBSET Nat
    BY <2>3, <2>4
  <2>6. PICK n \in F \ S : \A j \in F \ S : n <= j
    BY <2>5, Smallest
  <2>7. n \in F /\ n > i
    BY <2>6
  <2>8. {j \in F : j <= n} = S \cup {n}
    <3>1. \A j \in F : j <= i => j <= n
      BY <2>7
    <3>2. \A j \in F : ~(j <= i) => (j <= n <=> j = n)
      BY <2>6, <2>7
    <3> QED
      BY <2>7, <3>1, <3>2
  <2>9. Cardinality(S \cup {n}) = (m - 1) + 1
    <3>1. n \notin S
      BY <2>6
    <3> HIDE DEF S
    <3>2. Cardinality(S \cup {n}) = Cardinality(S) + 1
      BY <2>4, <3>1, FS_AddElement
    <3> QED
      BY <2>3, <3>2
  <2>10. Rank(F, n) = m
    BY <1>4, <2>8, <2>9 DEF Rank
  <2> QED
    BY <1>4, <2>7, <2>10
<1> QED
  BY <1>5, <1>6

\* The id in a place.
At(F, k) == CHOOSE i \in F : Rank(F, i) = k

LEMMA AtRank ==
  ASSUME NEW F \in SUBSET Nat, IsFiniteSet(F), NEW k \in 1..Cardinality(F)
  PROVE  At(F, k) \in F /\ Rank(F, At(F, k)) = k
  BY RankTaken DEF At

LEMMA AtOrder ==
  ASSUME NEW F \in SUBSET Nat, IsFiniteSet(F), NEW j \in 1..Cardinality(F),
         NEW k \in 1..Cardinality(F), j < k
  PROVE  At(F, j) < At(F, k)
<1> DEFINE a == At(F, j)
           b == At(F, k)
<1>1. a \in F /\ Rank(F, a) = j /\ b \in F /\ Rank(F, b) = k
  BY AtRank
<1> HIDE DEF a, b
<1>2. ~(b < a) /\ a # b
  <2>1. CASE b < a
    <3>1. k < j
      BY <1>1, <2>1, RankOrder
    <3> QED
      BY <3>1
  <2>2. CASE a = b
    BY <1>1, <2>2
  <2> QED
    BY <2>1, <2>2
<1>3. a < b
  BY <1>1, <1>2
<1> QED
  BY <1>3 DEF a, b

\* No id up to the last one of the first k is left out.
LEMMA AtComplete ==
  ASSUME NEW F \in SUBSET Nat, IsFiniteSet(F), NEW k \in 1..Cardinality(F), NEW i \in F,
         i <= At(F, k)
  PROVE  \E n \in 1..k : At(F, n) = i
<1> DEFINE b == At(F, k)
<1>1. b \in F /\ Rank(F, b) = k /\ i <= b
  BY AtRank
<1>2. Rank(F, i) \in 1..Cardinality(F) /\ Cardinality(F) \in Nat
  BY RankBounds, FS_CardinalityType
<1> HIDE DEF b
<1>3. Rank(F, i) <= k
  <2>1. CASE i = b
    BY <1>1, <2>1
  <2>2. CASE i # b
    <3>1. Rank(F, i) < Rank(F, b)
      BY <1>1, <2>2, RankOrder
    <3> QED
      BY <1>1, <1>2, <3>1
  <2> QED
    BY <2>1, <2>2
<1>4. At(F, Rank(F, i)) = i
  <2> DEFINE n == At(F, Rank(F, i))
  <2>1. n \in F /\ Rank(F, n) = Rank(F, i)
    BY <1>2, AtRank
  <2> HIDE DEF n
  <2>2. n = i
    BY <2>1, RankUnique
  <2> QED
    BY <2>2 DEF n
<1> QED
  BY <1>2, <1>3, <1>4

--------------------------------------------------------------------------------
(***************************************************************************)
(* Types, and what they rest on.                                           *)
(***************************************************************************)
Snapshot == [Id -> 0..MaxCommits]

\* The numbers in the local variables of a call point at what is there.
Placed(x) ==
    pc[x] # "idle" =>
        /\ call[x].start \in 1..Watermark
        /\ Len(call[x].manifests) <= Len(PartitionIds)
        /\ pc[x] = "records" => /\ Len(call[x].manifests) < Len(PartitionIds)
                                /\ call[x].handle \in 1..Len(pending)

TInv ==
    /\ ETypeOK
    /\ Watermark >= 1 /\ Watermark <= MaxCommits
    /\ \A x \in Exporter : Placed(x)

LEMMA Types ==
  ASSUME TInv
  PROVE  /\ history \in Seq(Snapshot) /\ Watermark \in Nat /\ Watermark \in 1..MaxCommits
         /\ pending \in Seq(Seq(LogicalRecord)) /\ Len(pending) \in Nat
         /\ \A a \in artifacts : a.content \in Seq(LogicalRecord)
         /\ pc \in [Exporter -> {"idle", "partitions", "records"}]
         /\ call \in [Exporter -> Call]
         /\ cancelled \in [Exporter -> BOOLEAN]
         /\ exports \subseteq LogicalExportV1
         /\ faults \in Nat
<1>1. history \in Seq(Snapshot) /\ pending \in Seq(Seq(LogicalRecord))
  BY DEF TInv, ETypeOK, Snapshot
<1>2. Watermark \in Nat /\ Len(pending) \in Nat
  BY <1>1, LenProperties DEF Watermark
<1>3. Watermark \in 1..MaxCommits
  BY <1>2, ExportAssumption DEF TInv
<1> QED
  BY <1>1, <1>2, <1>3 DEF TInv, ETypeOK

LEMMA PartitionsTyped ==
  /\ PartitionIds \in Seq(STRING) /\ Len(PartitionIds) \in Nat
  /\ DOMAIN PartitionIds = 1..Len(PartitionIds)
  /\ \A k \in 1..Len(PartitionIds) : PartitionIds[k] \in STRING
  BY ExportAssumption, LenProperties, ElementOfSeq

LEMMA CallTyped ==
  ASSUME TInv, NEW x \in Exporter
  PROVE  /\ call[x] \in Call
         /\ call[x].snapshot \in BOOLEAN
         /\ call[x].start \in Nat /\ call[x].handle \in Nat /\ call[x].previous \in Nat
         /\ call[x].digest \in Seq(LogicalRecord) /\ call[x].manifests \in Seq(PartitionManifest)
         /\ Len(call[x].digest) \in Nat /\ Len(call[x].manifests) \in Nat
         /\ DOMAIN call[x].digest = 1..Len(call[x].digest)
         /\ DOMAIN call[x].manifests = 1..Len(call[x].manifests)
<1>1. call[x] \in Call
  BY Types
<1>2. /\ call[x].snapshot \in BOOLEAN
      /\ call[x].start \in Nat /\ call[x].handle \in Nat /\ call[x].previous \in Nat
      /\ call[x].digest \in Seq(LogicalRecord) /\ call[x].manifests \in Seq(PartitionManifest)
  BY <1>1 DEF Call
<1> QED
  BY <1>1, <1>2, LenProperties

LEMMA ViewTyped ==
  ASSUME TInv, NEW x \in Exporter, pc[x] # "idle"
  PROVE  View(x) \in Snapshot
<1> DEFINE w == IF call[x].snapshot THEN call[x].start ELSE Watermark
<1>1. w \in 1..Len(history)
  BY Types DEF TInv, Placed, Watermark
<1>2. history[w] \in Snapshot
  BY <1>1, Types, ElementOfSeq
<1> QED
  BY <1>2 DEF View

LEMMA PartitionTyped ==
  ASSUME TInv, NEW x \in Exporter, pc[x] = "records"
  PROVE  /\ Len(call[x].manifests) + 1 \in 1..Len(PartitionIds)
         /\ Partition(x) \in STRING
         /\ call[x].handle \in 1..Len(pending)
         /\ pending[call[x].handle] \in Seq(LogicalRecord)
<1>1. Len(call[x].manifests) < Len(PartitionIds) /\ call[x].handle \in 1..Len(pending)
  BY DEF TInv, Placed
<1>2. Len(call[x].manifests) + 1 \in 1..Len(PartitionIds)
  BY <1>1, CallTyped, PartitionsTyped
<1>3. pending[call[x].handle] \in Seq(LogicalRecord)
  BY <1>1, Types, ElementOfSeq
<1> QED
  BY <1>1, <1>2, <1>3, PartitionsTyped DEF Partition

LEMMA FollowingTyped ==
  ASSUME NEW x, NEW p, NEW id
  PROVE  /\ Following(x, p, id) \in SUBSET Id /\ Following(x, p, id) \in SUBSET Nat
         /\ IsFiniteSet(Following(x, p, id))
         /\ Cardinality(Following(x, p, id)) \in Nat
<1>1. Following(x, p, id) \in SUBSET Id
  BY DEF Following
<1>2. IsFiniteSet(Following(x, p, id))
  BY <1>1, ExportAssumption, FS_Subset
<1>3. Following(x, p, id) \in SUBSET Nat
  BY <1>1, ExportAssumption
<1>4. Cardinality(Following(x, p, id)) \in Nat
  BY <1>2, FS_CardinalityType
<1> QED
  BY <1>1, <1>2, <1>3, <1>4

\* A page holds the first ids behind a place, in order, as they are in the view.
IsPage(x, F, size, batch) ==
    /\ batch \in Seq(LogicalRecord) /\ Len(batch) = size
    /\ \A k \in 1..size : /\ batch[k].logical_id \in F
                          /\ batch[k].version = View(x)[batch[k].logical_id]
    /\ \A j, k \in 1..size : j < k => batch[j].logical_id < batch[k].logical_id
    /\ \A i \in F : i <= batch[size].logical_id => \E k \in 1..size : batch[k].logical_id = i

LEMMA PageHolds ==
  ASSUME TInv, NEW x \in Exporter, pc[x] # "idle", NEW p, NEW id,
         NEW size \in 1..Cardinality(Following(x, p, id))
  PROVE  IsPage(x, Following(x, p, id), size, Page(x, p, id, size))
<1> DEFINE F == Following(x, p, id)
           batch == Page(x, p, id, size)
<1>1. /\ F \in SUBSET Nat /\ F \in SUBSET Id /\ IsFiniteSet(F)
      /\ Cardinality(F) \in Nat /\ size \in 1..Cardinality(F)
  BY FollowingTyped
<1>2. batch = [k \in 1..size |-> [logical_id |-> At(F, k), version |-> View(x)[At(F, k)]]]
  BY DEF Page, At, Rank
<1>3. \A i \in F : View(x)[i] \in 1..MaxCommits /\ i \in Id
  <2>1. \A i \in F : i \in Id /\ View(x)[i] # 0
    BY DEF Following
  <2>2. \A i \in Id : View(x)[i] \in 0..MaxCommits
    BY ViewTyped DEF Snapshot
  <2> QED
    BY <2>1, <2>2, ExportAssumption
<1> HIDE DEF F, batch
<1>4. size \in Nat /\ \A k \in 1..size : k \in 1..Cardinality(F)
  BY <1>1
<1>5. \A k \in 1..size : At(F, k) \in F
  BY <1>1, <1>4, AtRank
<1>6. \A k \in 1..size : /\ batch[k] \in LogicalRecord /\ batch[k].logical_id = At(F, k)
                         /\ batch[k].version = View(x)[At(F, k)]
  BY <1>2, <1>3, <1>5 DEF LogicalRecord
<1>7. batch \in Seq(LogicalRecord) /\ Len(batch) = size
  <2>1. batch \in [1..size -> LogicalRecord]
    BY <1>2, <1>6
  <2> QED
    BY <1>4, <2>1
<1>8. \A j, k \in 1..size : j < k => batch[j].logical_id < batch[k].logical_id
  BY <1>1, <1>4, <1>6, AtOrder
<1>9. ASSUME NEW i \in F, i <= batch[size].logical_id
      PROVE  \E k \in 1..size : batch[k].logical_id = i
  <2>1. size \in 1..size
    BY <1>1
  <2>2. i <= At(F, size)
    BY <1>6, <1>9, <2>1
  <2>3. \E k \in 1..size : At(F, k) = i
    BY <1>1, <2>2, AtComplete
  <2> QED
    BY <1>6, <2>3
<1>10. IsPage(x, F, size, batch)
  BY <1>5, <1>6, <1>7, <1>8, <1>9 DEF IsPage
<1> QED
  BY <1>10 DEF F, batch

--------------------------------------------------------------------------------
(***************************************************************************)
(* The effect of each action on the exporter that takes it.                *)
(***************************************************************************)
OthersKept(x) ==
    /\ pc' \in [Exporter -> {"idle", "partitions", "records"}]
    /\ call' \in [Exporter -> Call]
    /\ cancelled' \in [Exporter -> BOOLEAN]
    /\ \A y \in Exporter \ {x} : pc'[y] = pc[y] /\ call'[y] = call[y]

Ended(x) == OthersKept(x) /\ pc[x] # "idle" /\ pc'[x] = "idle"

\* The call goes on with the boundary it has begun with.
GoesOn(x) ==
    /\ OthersKept(x) /\ pc[x] # "idle"
    /\ call'[x].snapshot = call[x].snapshot
    /\ call'[x].start = call[x].start

Begins(x) ==
    /\ OthersKept(x) /\ pc[x] = "idle" /\ pc'[x] = "partitions"
    /\ call'[x].start = Watermark /\ call'[x].manifests = << >>
    /\ UNCHANGED <<history, pending, artifacts, exports>>

Opens(x) ==
    /\ GoesOn(x) /\ pc[x] = "partitions" /\ pc'[x] = "records"
    /\ call'[x].manifests = call[x].manifests /\ Len(call[x].manifests) < Len(PartitionIds)
    /\ pending' = Append(pending, << >>)
    /\ call'[x].handle = Len(pending) + 1
    /\ call'[x].previous = 0 /\ call'[x].digest = << >>
    /\ UNCHANGED <<history, artifacts, exports>>

WritesPage(x, place, size, batch) ==
    /\ place <= call[x].previous
    /\ IsPage(x, Following(x, Partition(x), place), size, batch)
    /\ batch[1].logical_id > call[x].previous
    /\ pending' = [pending EXCEPT ![call[x].handle] = pending[call[x].handle] \o batch]
    /\ call'[x].digest = call[x].digest \o batch
    /\ call'[x].previous = batch[size].logical_id

Writes(x) ==
    /\ GoesOn(x) /\ pc[x] = "records" /\ pc'[x] = "records"
    /\ call'[x].manifests = call[x].manifests /\ call'[x].handle = call[x].handle
    /\ \E place \in Nat, size \in Nat \ {0} : \E batch \in Seq(LogicalRecord) :
          WritesPage(x, place, size, batch)
    /\ UNCHANGED <<history, artifacts, exports>>

Ref(x) == [partition_id |-> Partition(x), content |-> pending[call[x].handle]]

Manifest(x) ==
    [partition_id |-> Partition(x), artifact_ref |-> Ref(x), sha256 |-> call[x].digest]

Files(x) ==
    /\ GoesOn(x) /\ pc[x] = "records" /\ pc'[x] = "partitions"
    /\ Following(x, Partition(x), call[x].previous) = {}
    /\ artifacts' = artifacts \cup {Ref(x)}
    /\ pending' = [pending EXCEPT ![call[x].handle] = << >>]
    /\ call'[x].manifests = Append(call[x].manifests, Manifest(x))
    /\ UNCHANGED <<history, exports>>

\* The watermarks a call reads from.
Seen(x) == IF call[x].snapshot THEN {call[x].start} ELSE call[x].start..Watermark

ReturnsWith(x, boundary) ==
    /\ boundary.start = call[x].start /\ boundary.end <= Watermark
    /\ Seen(x) \subseteq boundary.start..boundary.end
    /\ exports' = exports \cup {[boundary |-> boundary, partitions |-> call[x].manifests]}

Returns(x) ==
    /\ Ended(x) /\ pc[x] = "partitions" /\ Len(call[x].manifests) = Len(PartitionIds)
    /\ \E boundary \in ExportBoundary : ReturnsWith(x, boundary)
    /\ UNCHANGED <<history, pending, artifacts>>

\* A call that raises while it writes a page leaves part of the page behind.
Fails(x) ==
    /\ Ended(x) /\ UNCHANGED <<history, artifacts, exports>>
    /\ \/ UNCHANGED pending
       \/ /\ pc[x] = "records"
          /\ \E s \in Seq(LogicalRecord) : pending' = [pending EXCEPT ![call[x].handle] = s]

Steps(x) == Begins(x) \/ Opens(x) \/ Writes(x) \/ Files(x) \/ Returns(x) \/ Fails(x)

Cancels ==
    /\ cancelled' \in [Exporter -> BOOLEAN]
    /\ UNCHANGED <<history, pending, artifacts, pc, call, exports>>

Commits ==
    /\ Watermark < MaxCommits
    /\ \E s \in Snapshot : history' = Append(history, s)
    /\ UNCHANGED <<pending, artifacts, pc, call, cancelled, exports>>

LEMMA NoCallTyped == NoCall \in Call
  BY EmptySeq DEF NoCall, Call

LEMMA EndEffect ==
  ASSUME TInv, NEW x \in Exporter, pc[x] # "idle", End(x)
  PROVE  Ended(x)
  BY NoCallTyped, Types DEF End, Ended, OthersKept

\* A step that assigns the local variables of x anew.
LEMMA CallEffect ==
  ASSUME TInv, NEW x \in Exporter, NEW c \in Call, NEW to \in {"partitions", "records"},
         call' = [call EXCEPT ![x] = c], pc' = [pc EXCEPT ![x] = to], cancelled' = cancelled
  PROVE  OthersKept(x) /\ call'[x] = c /\ pc'[x] = to
  BY Types DEF OthersKept

LEMMA BeginEffect ==
  ASSUME TInv, NEW x \in Exporter, Begin(x)
  PROVE  Begins(x)
<1>1. PICK snapshot \in BOOLEAN :
         call' = [call EXCEPT ![x] = [NoCall EXCEPT !.snapshot = snapshot, !.start = Watermark]]
  BY DEF Begin
<1> DEFINE c == [NoCall EXCEPT !.snapshot = snapshot, !.start = Watermark]
<1>2. c \in Call /\ c.start = Watermark /\ c.manifests = << >>
  BY Types, EmptySeq DEF NoCall, Call
<1> HIDE DEF c
<1>3. OthersKept(x) /\ call'[x] = c /\ pc'[x] = "partitions"
  BY <1>1, <1>2, CallEffect DEF Begin, c
<1> QED
  BY <1>2, <1>3 DEF Begin, Begins

LEMMA BeginPartitionEffect ==
  ASSUME TInv, NEW x \in Exporter, BeginPartition(x)
  PROVE  Opens(x)
<1> DEFINE c == [call[x] EXCEPT !.handle = Len(pending) + 1, !.previous = 0, !.digest = << >>]
<1>1. /\ c \in Call /\ c.handle = Len(pending) + 1 /\ c.previous = 0 /\ c.digest = << >>
      /\ c.manifests = call[x].manifests
      /\ c.snapshot = call[x].snapshot /\ c.start = call[x].start
  <2>1. PICK h, d : h = Len(pending) + 1 /\ d = << >>
    OBVIOUS
  <2>2. h \in Nat /\ d \in Seq(LogicalRecord) /\ call[x] \in Call /\ 0 \in Nat
    BY <2>1, Types, EmptySeq
  <2>3. c = [call[x] EXCEPT !.handle = h, !.previous = 0, !.digest = d]
    BY <2>1
  <2> HIDE DEF c
  <2>4. /\ c \in Call /\ c.handle = h /\ c.previous = 0 /\ c.digest = d
        /\ c.manifests = call[x].manifests
        /\ c.snapshot = call[x].snapshot /\ c.start = call[x].start
    BY <2>2, <2>3 DEF Call
  <2> QED
    BY <2>1, <2>4
<1>2. call' = [call EXCEPT ![x] = c] /\ pc' = [pc EXCEPT ![x] = "records"]
  BY Types DEF BeginPartition, Call
<1> HIDE DEF c
<1>3. OthersKept(x) /\ call'[x] = c /\ pc'[x] = "records"
  BY <1>1, <1>2, CallEffect DEF BeginPartition
<1> QED
  BY <1>1, <1>3 DEF BeginPartition, Opens, GoesOn

\* However the records of a page are arranged, they are a page if they are in order.
LEMMA ArrangedPage ==
  ASSUME NEW x, NEW F \in SUBSET Nat, NEW size \in Nat \ {0}, NEW page, IsPage(x, F, size, page),
         NEW order \in Arrangement(size), NEW batch,
         batch = [k \in DOMAIN order |-> page[order[k]]]
  PROVE  /\ batch \in Seq(LogicalRecord) /\ Len(batch) \in Nat \ {0}
         /\ InOrder(x, batch, Len(batch)) => IsPage(x, F, Len(batch), batch)
<1>1. PICK n \in {size, size + 1} : order \in [1..n -> 1..size]
  BY DEF Arrangement
<1>2. n \in Nat \ {0} /\ DOMAIN order = 1..n
  BY <1>1
<1>3. /\ \A i \in 1..size : \E k \in 1..n : order[k] = i
      /\ \A k \in 1..n : order[k] \in 1..size
  BY <1>1, <1>2 DEF Arrangement
<1>4. \A k \in 1..size : page[k] \in LogicalRecord
  BY ElementOfSeq DEF IsPage
<1>5. \A k \in 1..n : batch[k] = page[order[k]] /\ batch[k] \in LogicalRecord
  BY <1>2, <1>3, <1>4
<1>6. batch \in [1..n -> LogicalRecord]
  BY <1>2, <1>5
<1>7. batch \in Seq(LogicalRecord) /\ Len(batch) = n
  BY <1>2, <1>6
<1>8. ASSUME InOrder(x, batch, n)
      PROVE  IsPage(x, F, n, batch)
  <2>1. \A k \in 1..n : /\ batch[k].logical_id \in F
                         /\ batch[k].version = View(x)[batch[k].logical_id]
    <3> SUFFICES ASSUME NEW k \in 1..n
                 PROVE  /\ batch[k].logical_id \in F
                        /\ batch[k].version = View(x)[batch[k].logical_id]
      OBVIOUS
    <3>1. PICK m \in 1..size : batch[k] = page[m]
      BY <1>3, <1>5
    <3> QED
      BY <3>1 DEF IsPage
  <2>2. ASSUME NEW j \in 1..n, NEW k \in 1..n, j < k
        PROVE  batch[j].logical_id < batch[k].logical_id
    <3>1. j \in 1..(k - 1)
      BY <1>2, <2>2
    <3> QED
      BY <1>8, <3>1 DEF InOrder
  <2>3. ASSUME NEW i \in F, i <= batch[n].logical_id
        PROVE  \E k \in 1..n : batch[k].logical_id = i
    <3>1. PICK m \in 1..size : m = order[n]
      BY <1>2, <1>3
    <3>2. /\ page[m].logical_id \in F /\ page[size].logical_id \in F
          /\ i <= page[m].logical_id
      BY <1>2, <1>5, <2>3, <3>1 DEF IsPage
    <3>3. page[m].logical_id <= page[size].logical_id
      <4>1. size \in 1..size /\ (m = size \/ m < size)
        OBVIOUS
      <4>2. m = size \/ page[m].logical_id < page[size].logical_id
        BY <4>1 DEF IsPage
      <4>3. PICK a, b : a = page[m].logical_id /\ b = page[size].logical_id
        OBVIOUS
      <4>4. a \in Nat /\ b \in Nat /\ (a = b \/ a < b)
        BY <3>2, <4>2, <4>3
      <4>5. a <= b
        BY <4>4
      <4> QED
        BY <4>3, <4>5
    <3>4. i <= page[size].logical_id
      <4>1. PICK a, b : a = page[m].logical_id /\ b = page[size].logical_id
        OBVIOUS
      <4>2. i \in Nat /\ a \in Nat /\ b \in Nat /\ i <= a /\ a <= b
        BY <3>2, <3>3, <4>1
      <4>3. i <= b
        BY <4>2
      <4> QED
        BY <4>1, <4>3
    <3>5. PICK q \in 1..size : page[q].logical_id = i
      BY <3>4 DEF IsPage
    <3>6. PICK k \in 1..n : order[k] = q
      BY <1>3
    <3> QED
      BY <1>5, <3>5, <3>6
  <2> QED
    BY <1>7, <2>1, <2>2, <2>3 DEF IsPage
<1> QED
  BY <1>2, <1>7, <1>8

Accepted(x, batch) ==
    /\ Accepts(x, batch)
    /\ pending' = [pending EXCEPT ![call[x].handle] = @ \o batch]
    /\ call' = [call EXCEPT ![x].digest = @ \o batch,
                            ![x].previous = batch[Len(batch)].logical_id]
    /\ UNCHANGED <<pc, cancelled>>

Refused(x, batch) ==
    /\ ~Accepts(x, batch)
    /\ \E n \in 0..(Len(batch) - 1) :
          /\ WrittenOf(x, batch, n)
          /\ pending' = [pending EXCEPT ![call[x].handle] = @ \o SubSeq(batch, 1, n)]
    /\ End(x)

LEMMA WriteBatchEffect ==
  ASSUME TInv, NEW x \in Exporter, WriteBatch(x)
  PROVE  Writes(x) \/ Fails(x)
<1> DEFINE Arranged(page, order) == [k \in DOMAIN order |-> page[order[k]]]
           Counted(place, page, batch) ==
              IF place = call[x].previous /\ batch = page THEN UNCHANGED faults ELSE Fault
           Taken(place, page, batch) ==
              Counted(place, page, batch) /\ (Accepted(x, batch) \/ Refused(x, batch))
<1>1. /\ pc[x] = "records" /\ UNCHANGED <<history, artifacts, exports>>
      /\ \E place \in {i \in Id \cup {0} : i <= call[x].previous} :
         \E size \in 1..Cardinality(Following(x, Partition(x), place)) :
         \E order \in Arrangement(size) :
            Taken(place, Page(x, Partition(x), place, size),
                  Arranged(Page(x, Partition(x), place, size), order))
  BY Zenon DEF WriteBatch, Accepted, Refused
<1> HIDE DEF Taken
<1>2. PICK place \in {i \in Id \cup {0} : i <= call[x].previous} :
         \E size \in 1..Cardinality(Following(x, Partition(x), place)) :
         \E order \in Arrangement(size) :
            Taken(place, Page(x, Partition(x), place, size),
                  Arranged(Page(x, Partition(x), place, size), order))
  BY <1>1
<1>3. PICK length \in 1..Cardinality(Following(x, Partition(x), place)) :
         \E order \in Arrangement(length) :
            Taken(place, Page(x, Partition(x), place, length),
                  Arranged(Page(x, Partition(x), place, length), order))
  BY <1>2
<1>4. PICK F, page : F = Following(x, Partition(x), place)
                     /\ page = Page(x, Partition(x), place, length)
  OBVIOUS
<1>5. PICK order \in Arrangement(length) : Taken(place, page, Arranged(page, order))
  BY <1>3, <1>4
<1>6. PICK batch : batch = Arranged(page, order)
  OBVIOUS
<1>7. PICK size : size = Len(batch)
  OBVIOUS
<1>8. /\ pc[x] = "records" /\ UNCHANGED <<history, artifacts, exports>>
      /\ Accepted(x, batch) \/ Refused(x, batch)
  BY <1>1, <1>5, <1>6 DEF Taken
<1>9. F \in SUBSET Nat /\ length \in Nat \ {0} /\ IsPage(x, F, length, page)
  <2>1. Cardinality(Following(x, Partition(x), place)) \in Nat /\ F \in SUBSET Nat
    BY <1>4, FollowingTyped
  <2>2. length \in Nat \ {0}
    BY <2>1
  <2>3. IsPage(x, F, length, page)
    BY <1>4, <1>8, PageHolds
  <2> QED
    BY <2>1, <2>2, <2>3
<1>10. /\ batch \in Seq(LogicalRecord) /\ size \in Nat \ {0}
       /\ InOrder(x, batch, size) => IsPage(x, F, size, batch)
  <2>1. batch = [k \in DOMAIN order |-> page[order[k]]]
    BY <1>6
  <2>2. /\ batch \in Seq(LogicalRecord) /\ Len(batch) \in Nat \ {0}
        /\ InOrder(x, batch, Len(batch)) => IsPage(x, F, Len(batch), batch)
    BY <1>9, <2>1, ArrangedPage
  <2> QED
    BY <1>7, <2>2
<1>11. CASE Refused(x, batch)
  <2>1. PICK n \in 0..(size - 1) :
           pending' = [pending EXCEPT ![call[x].handle] = @ \o SubSeq(batch, 1, n)]
    BY <1>7, <1>11 DEF Refused
  <2>2. PICK prefix, s : /\ prefix = SubSeq(batch, 1, n)
                         /\ s = pending[call[x].handle] \o prefix
    OBVIOUS
  <2>3. n \in Int /\ n <= size
    BY <1>10
  <2>4. prefix \in Seq(LogicalRecord)
    BY <1>7, <1>10, <2>2, <2>3, SubSeqProperties
  <2>5. s \in Seq(LogicalRecord)
    BY <1>8, <2>2, <2>4, PartitionTyped, ConcatProperties
  <2>6. pending' = [pending EXCEPT ![call[x].handle] = s]
    BY <2>1, <2>2
  <2>7. Ended(x)
    BY <1>8, <1>11, EndEffect DEF Refused
  <2> QED
    BY <1>8, <2>5, <2>6, <2>7 DEF Fails
<1>12. CASE Accepted(x, batch)
  <2>1. /\ pending' = [pending EXCEPT ![call[x].handle] = @ \o batch]
        /\ call' = [call EXCEPT ![x].digest = @ \o batch,
                                ![x].previous = batch[size].logical_id]
        /\ UNCHANGED <<pc, cancelled>>
    BY <1>7, <1>12 DEF Accepted
  <2>2. InOrder(x, batch, size) /\ IsPage(x, Following(x, Partition(x), place), size, batch)
    BY <1>4, <1>7, <1>10, <1>12 DEF Accepted, Accepts
  <2>3. size \in Nat \ {0} /\ place \in Nat /\ place <= call[x].previous
    <3>1. place \in Id \cup {0} /\ place <= call[x].previous
      BY <1>2
    <3>2. \A i \in Id \cup {0} : i \in Nat
      BY ExportAssumption
    <3>3. place \in Nat
      BY <3>1, <3>2
    <3> QED
      BY <1>10, <3>1, <3>3
  <2>4. batch \in Seq(LogicalRecord) /\ batch[size].logical_id \in Nat
    <3>1. size \in 1..size
      BY <2>3
    <3> QED
      BY <2>2, <3>1, FollowingTyped DEF IsPage
  <2>5. PICK d, n : d = call[x].digest \o batch /\ n = batch[size].logical_id
    OBVIOUS
  <2>6. d \in Seq(LogicalRecord) /\ n \in Nat
    BY <2>4, <2>5, CallTyped, ConcatProperties
  <2> DEFINE c == [call[x] EXCEPT !.digest = d, !.previous = n]
  <2>7. /\ c \in Call /\ c.digest = d /\ c.previous = n /\ c.handle = call[x].handle
        /\ c.manifests = call[x].manifests
        /\ c.snapshot = call[x].snapshot /\ c.start = call[x].start
    BY <2>6, Types DEF Call
  <2>8. call' = [call EXCEPT ![x] = c]
    BY <2>1, <2>5, Types DEF Call
  <2> HIDE DEF c
  <2>9. pc' = [pc EXCEPT ![x] = "records"] /\ cancelled' = cancelled
    BY <1>8, <2>1, Types
  <2>10. OthersKept(x) /\ call'[x] = c /\ pc'[x] = "records"
    BY <2>7, <2>8, <2>9, CallEffect
  <2>11. batch[1].logical_id > call[x].previous
    <3>1. 1 \in 1..size
      BY <2>3
    <3> QED
      BY <2>2, <3>1 DEF InOrder
  <2>12. WritesPage(x, place, size, batch)
    BY <2>1, <2>2, <2>3, <2>5, <2>7, <2>10, <2>11 DEF WritesPage
  <2> QED
    BY <1>8, <2>3, <2>4, <2>7, <2>10, <2>12 DEF Writes, GoesOn
<1> QED
  BY <1>8, <1>11, <1>12

LEMMA ManifestTyped ==
  ASSUME TInv, NEW x \in Exporter, pc[x] = "records"
  PROVE  /\ Manifest(x) \in PartitionManifest /\ Ref(x).content \in Seq(LogicalRecord)
  BY PartitionTyped, CallTyped DEF Manifest, Ref, PartitionManifest

LEMMA FinishPartitionEffect ==
  ASSUME TInv, NEW x \in Exporter, FinishPartition(x)
  PROVE  Files(x)
<1>1. PICK m : m = Append(call[x].manifests, Manifest(x))
  OBVIOUS
<1>2. pc[x] = "records" /\ m \in Seq(PartitionManifest)
  BY <1>1, ManifestTyped, CallTyped DEF FinishPartition
<1> DEFINE c == [call[x] EXCEPT !.manifests = m]
<1>3. /\ c \in Call /\ c.manifests = m
      /\ c.snapshot = call[x].snapshot /\ c.start = call[x].start
  BY <1>2, Types DEF Call
<1>4. /\ call' = [call EXCEPT ![x] = c] /\ pc' = [pc EXCEPT ![x] = "partitions"]
      /\ cancelled' = cancelled
  BY <1>1, Types DEF FinishPartition, Manifest, Ref, Call
<1> HIDE DEF c
<1>5. OthersKept(x) /\ call'[x] = c /\ pc'[x] = "partitions"
  BY <1>3, <1>4, CallEffect
<1>6. artifacts' = artifacts \cup {Ref(x)} /\ pending' = [pending EXCEPT ![call[x].handle] = << >>]
  BY DEF FinishPartition, Store, Ref
<1> QED
  BY <1>1, <1>2, <1>3, <1>5, <1>6 DEF FinishPartition, Files, GoesOn

LEMMA FinishEffect ==
  ASSUME TInv, NEW x \in Exporter, Finish(x)
  PROVE  Returns(x) \/ Fails(x)
<1>1. PICK consistency \in ExportConsistency, renewed \in BOOLEAN, renamed \in BOOLEAN :
         exports' = IF ~renamed /\ BoundaryAccepted(x, FinalBoundary(x, consistency, renewed))
                    THEN exports \cup {[boundary |-> FinalBoundary(x, consistency, renewed),
                                        partitions |-> call[x].manifests]}
                    ELSE exports
  BY DEF Finish
<1>2. PICK boundary : boundary = FinalBoundary(x, consistency, renewed)
  OBVIOUS
<1>3. /\ pc[x] = "partitions" /\ Len(call[x].manifests) = Len(PartitionIds) /\ Ended(x)
      /\ UNCHANGED <<history, pending, artifacts>>
  BY EndEffect DEF Finish
<1>4. CASE renamed \/ ~BoundaryAccepted(x, boundary)
  BY <1>1, <1>2, <1>3, <1>4 DEF Fails
<1>5. CASE ~renamed /\ BoundaryAccepted(x, boundary)
  <2>1. /\ boundary \in ExportBoundary /\ boundary.start = call[x].start
        /\ exports' = exports \cup {[boundary |-> boundary, partitions |-> call[x].manifests]}
    BY <1>1, <1>2, <1>5 DEF BoundaryAccepted
  <2>2. /\ call[x].start \in Nat /\ Watermark \in Nat /\ call[x].start <= Watermark
        /\ call[x].start >= 1
    BY <1>3, CallTyped, Types DEF TInv, Placed
  <2>3. /\ boundary.end = IF call[x].snapshot /\ ~renewed THEN call[x].start ELSE Watermark
    BY <1>2 DEF FinalBoundary
  <2>4. boundary.end <= Watermark /\ boundary.end >= call[x].start /\ boundary.end \in Nat
    BY <2>2, <2>3
  <2>5. CASE call[x].snapshot
    <3>1. Seen(x) = {call[x].start}
      BY <2>5 DEF Seen
    <3> QED
      BY <1>3, <2>1, <2>2, <2>4, <3>1 DEF Returns, ReturnsWith
  <2>6. CASE ~call[x].snapshot
    <3>1. Seen(x) = call[x].start..Watermark /\ boundary.end = Watermark
      BY <2>3, <2>6 DEF Seen
    <3> QED
      BY <1>3, <2>1, <2>2, <2>4, <3>1 DEF Returns, ReturnsWith
  <2> QED
    BY <2>5, <2>6
<1> QED
  BY <1>4, <1>5

LEMMA CommitEffect ==
  ASSUME TInv, Commit
  PROVE  Commits
<1>1. PICK i \in Id, version \in {0, Watermark + 1} :
         history' = Append(history, [history[Watermark] EXCEPT ![i] = version])
  BY DEF Commit
<1>2. version \in 0..MaxCommits /\ Watermark \in 1..Len(history)
  BY Types, ExportAssumption DEF Commit, Watermark
<1>3. history[Watermark] \in Snapshot
  BY <1>2, Types, ElementOfSeq
<1>4. [history[Watermark] EXCEPT ![i] = version] \in Snapshot
  BY <1>2, <1>3 DEF Snapshot
<1> QED
  BY <1>1, <1>4 DEF Commit, Commits

LEMMA StepEffect ==
  ASSUME TInv, ENext
  PROVE  Cancels \/ Commits \/ \E x \in Exporter : Steps(x)
<1>1. ASSUME NEW x \in Exporter, Cancel(x)
      PROVE  Cancels
  <2>1. cancelled' \in [Exporter -> BOOLEAN]
    BY <1>1, Types DEF Cancel
  <2> QED
    BY <1>1, <2>1 DEF Cancel, Cancels
<1>2. ASSUME NEW x \in Exporter, GiveUp(x)
      PROVE  Fails(x)
  BY <1>2, EndEffect DEF GiveUp, Fails
<1> QED
  BY <1>1, <1>2, BeginEffect, BeginPartitionEffect, WriteBatchEffect, FinishPartitionEffect,
     FinishEffect, CommitEffect DEF ENext, Steps

LEMMA FaultsTyped ==
  ASSUME TInv, [ENext]_evars
  PROVE  faults' \in Nat
<1>1. ASSUME NEW x \in Exporter, WriteBatch(x) \/ Finish(x)
      PROVE  faults' = faults \/ Fault
  <2>1. CASE WriteBatch(x)
    <3>1. \E place, page, batch :
             IF place = call[x].previous /\ batch = page THEN UNCHANGED faults ELSE Fault
      BY <2>1, ZenonT(30) DEF WriteBatch
    <3> QED
      BY <3>1
  <2>2. CASE Finish(x)
    BY <2>2, ZenonT(30) DEF Finish
  <2> QED
    BY <1>1, <2>1, <2>2
<1>2. ASSUME NEW x \in Exporter,
             Begin(x) \/ BeginPartition(x) \/ FinishPartition(x) \/ GiveUp(x) \/ Cancel(x)
      PROVE  faults' = faults \/ Fault
  BY <1>2, Zenon DEF Begin, BeginPartition, FinishPartition, GiveUp, Cancel
<1>3. Commit \/ UNCHANGED evars => faults' = faults
  BY DEF Commit, evars
<1>4. faults' = faults \/ Fault
  BY <1>1, <1>2, <1>3 DEF ENext
<1> QED
  BY <1>4, Types DEF Fault

\* What a step of x does to the sink.
LEMMA StepSink ==
  ASSUME TInv, NEW x \in Exporter, Steps(x)
  PROVE  /\ pending' \in Seq(Seq(LogicalRecord)) /\ Len(pending') \in Nat
         /\ Len(pending') >= Len(pending)
         /\ \A h \in 1..Len(pending) :
               (pc[x] = "records" /\ h = call[x].handle) \/ pending'[h] = pending[h]
         /\ artifacts \subseteq artifacts' /\ exports \subseteq exports'
         /\ \A a \in artifacts' : a.content \in Seq(LogicalRecord)
         /\ exports' \subseteq LogicalExportV1
         /\ history' = history
         /\ OthersKept(x)
<1>1. << >> \in Seq(LogicalRecord) /\ Len(pending) \in Nat /\ pending \in Seq(Seq(LogicalRecord))
  BY Types, EmptySeq
<1>2. CASE Begins(x) \/ (Fails(x) /\ UNCHANGED pending)
  BY <1>1, <1>2, Types DEF Begins, Fails, Ended
<1>3. CASE Opens(x)
  <2>1. /\ pending' = Append(pending, << >>)
        /\ UNCHANGED <<history, artifacts, exports>> /\ OthersKept(x)
    BY <1>3 DEF Opens, GoesOn
  <2>2. PICK e : e = << >>
    OBVIOUS
  <2>3. pending' = Append(pending, e) /\ e \in Seq(LogicalRecord)
    BY <1>1, <2>1, <2>2
  <2>4. /\ pending' \in Seq(Seq(LogicalRecord)) /\ Len(pending') = Len(pending) + 1
        /\ \A h \in 1..Len(pending) : pending'[h] = pending[h]
    BY <1>1, <2>3
  <2> QED
    BY <1>1, <2>1, <2>4, Types
<1>4. ASSUME pc[x] = "records", NEW s \in Seq(LogicalRecord),
             pending' = [pending EXCEPT ![call[x].handle] = s]
      PROVE  /\ pending' \in Seq(Seq(LogicalRecord)) /\ Len(pending') = Len(pending)
             /\ pending'[call[x].handle] = s
             /\ \A h \in 1..Len(pending) : h = call[x].handle \/ pending'[h] = pending[h]
  <2>1. call[x].handle \in 1..Len(pending)
    BY <1>4, PartitionTyped
  <2> QED
    BY <1>1, <1>4, <2>1, ExceptSeq
<1>5. CASE Writes(x)
  <2>1. PICK batch \in Seq(LogicalRecord) :
          pending' = [pending EXCEPT ![call[x].handle] = pending[call[x].handle] \o batch]
    BY <1>5 DEF Writes, WritesPage
  <2>2. pc[x] = "records" /\ UNCHANGED <<history, artifacts, exports>> /\ OthersKept(x)
    BY <1>5 DEF Writes, GoesOn
  <2>3. PICK s : s = pending[call[x].handle] \o batch
    OBVIOUS
  <2>4. s \in Seq(LogicalRecord)
    BY <2>2, <2>3, PartitionTyped, ConcatProperties
  <2>5. /\ pending' \in Seq(Seq(LogicalRecord)) /\ Len(pending') = Len(pending)
        /\ \A h \in 1..Len(pending) : h = call[x].handle \/ pending'[h] = pending[h]
    BY <1>4, <2>1, <2>2, <2>3, <2>4
  <2> QED
    BY <1>1, <2>2, <2>5, Types
<1>6. CASE Files(x)
  <2>1. /\ pc[x] = "records" /\ UNCHANGED <<history, exports>> /\ OthersKept(x)
        /\ artifacts' = artifacts \cup {Ref(x)}
        /\ pending' = [pending EXCEPT ![call[x].handle] = << >>]
    BY <1>6 DEF Files, GoesOn
  <2>2. /\ pending' \in Seq(Seq(LogicalRecord)) /\ Len(pending') = Len(pending)
        /\ \A h \in 1..Len(pending) : h = call[x].handle \/ pending'[h] = pending[h]
    BY <1>1, <1>4, <2>1
  <2>3. \A a \in artifacts' : a.content \in Seq(LogicalRecord)
    BY <2>1, Types, ManifestTyped
  <2> QED
    BY <1>1, <2>1, <2>2, <2>3, Types
<1>7. CASE Returns(x)
  <2>1. UNCHANGED <<history, pending, artifacts>> /\ OthersKept(x)
    BY <1>7 DEF Returns, Ended
  <2>2. PICK boundary \in ExportBoundary :
          exports' = exports \cup {[boundary |-> boundary, partitions |-> call[x].manifests]}
    BY <1>7 DEF Returns, ReturnsWith
  <2>3. [boundary |-> boundary, partitions |-> call[x].manifests] \in LogicalExportV1
    BY CallTyped DEF LogicalExportV1
  <2> QED
    BY <1>1, <2>1, <2>2, <2>3, Types
<1>8. CASE Fails(x) /\ ~UNCHANGED pending
  <2>1. /\ pc[x] = "records" /\ UNCHANGED <<history, artifacts, exports>> /\ OthersKept(x)
        /\ \E s \in Seq(LogicalRecord) : pending' = [pending EXCEPT ![call[x].handle] = s]
    BY <1>8 DEF Fails, Ended
  <2>2. /\ pending' \in Seq(Seq(LogicalRecord)) /\ Len(pending') = Len(pending)
        /\ \A h \in 1..Len(pending) : h = call[x].handle \/ pending'[h] = pending[h]
    BY <1>4, <2>1
  <2> QED
    BY <1>1, <2>1, <2>2, Types
<1> QED
  BY <1>2, <1>3, <1>5, <1>6, <1>7, <1>8 DEF Steps

LEMMA StepPlaced ==
  ASSUME TInv, NEW x \in Exporter, Steps(x)
  PROVE  Placed(x)'
<1>1. Watermark' = Watermark /\ Watermark \in 1..Watermark /\ Len(PartitionIds) \in Nat
  BY StepSink, Types, PartitionsTyped DEF Watermark
<1>2. Placed(x) /\ Len(call[x].manifests) \in Nat /\ Len(pending) \in Nat
  BY CallTyped, Types DEF TInv
<1>3. CASE Begins(x)
  <2>1. Len(call'[x].manifests) = 0 /\ call'[x].start = Watermark /\ pc'[x] = "partitions"
    BY <1>3 DEF Begins
  <2> QED
    BY <1>1, <2>1 DEF Placed
<1>4. CASE Opens(x)
  <2>1. Len(pending') = Len(pending) + 1
    BY <1>4, Types DEF Opens
  <2>2. /\ call'[x].start = call[x].start /\ call'[x].manifests = call[x].manifests
        /\ Len(call[x].manifests) < Len(PartitionIds) /\ call'[x].handle = Len(pending) + 1
        /\ pc[x] # "idle"
    BY <1>4 DEF Opens, GoesOn
  <2>3. call'[x].handle \in 1..Len(pending')
    BY <1>2, <2>1, <2>2
  <2> QED
    BY <1>1, <1>2, <2>2, <2>3 DEF Placed
<1>5. CASE Writes(x)
  <2>1. /\ call'[x].start = call[x].start /\ call'[x].manifests = call[x].manifests
        /\ call'[x].handle = call[x].handle /\ pc[x] = "records"
    BY <1>5 DEF Writes, GoesOn
  <2>2. Len(pending') \in Nat /\ Len(pending') >= Len(pending)
    BY StepSink
  <2>3. call[x].handle \in 1..Len(pending')
    BY <1>2, <2>1, <2>2 DEF Placed
  <2> QED
    BY <1>1, <1>2, <2>1, <2>3 DEF Placed
<1>6. CASE Files(x)
  <2>1. /\ call'[x].start = call[x].start /\ pc[x] = "records" /\ pc'[x] = "partitions"
        /\ call'[x].manifests = Append(call[x].manifests, Manifest(x))
    BY <1>6 DEF Files, GoesOn
  <2>2. Len(call'[x].manifests) = Len(call[x].manifests) + 1
    BY <2>1, CallTyped
  <2>3. Len(call'[x].manifests) <= Len(PartitionIds)
    BY <1>1, <1>2, <2>1, <2>2 DEF Placed
  <2> QED
    BY <1>1, <1>2, <2>1, <2>3 DEF Placed
<1>7. CASE Returns(x) \/ Fails(x)
  BY <1>7 DEF Returns, Fails, Ended, Placed
<1> QED
  BY <1>3, <1>4, <1>5, <1>6, <1>7 DEF Steps

LEMMA TInvStep ==
  ASSUME TInv, [ENext]_evars
  PROVE  TInv'
<1>1. CASE Cancels \/ UNCHANGED evars
  BY <1>1, FaultsTyped DEF Cancels, evars, TInv, ETypeOK, Placed, Watermark
<1>2. CASE Commits
  <2>1. PICK s \in Snapshot : history' = Append(history, s)
    BY <1>2 DEF Commits
  <2>2. history' \in Seq(Snapshot) /\ Watermark' = Watermark + 1
    BY <2>1, Types DEF Watermark
  <2>3. Watermark < MaxCommits /\ UNCHANGED <<pending, artifacts, pc, call, cancelled, exports>>
    BY <1>2 DEF Commits
  <2>4. Watermark' >= 1 /\ Watermark' <= MaxCommits
    BY <2>2, <2>3, Types, ExportAssumption
  <2>5. \A n \in 1..Watermark : n \in 1..Watermark'
    BY <2>2, Types
  <2>6. \A x \in Exporter : Placed(x)'
    BY <2>3, <2>5 DEF TInv, Placed
  <2>7. ETypeOK'
    BY <2>2, <2>3, FaultsTyped DEF TInv, ETypeOK, Snapshot
  <2> QED
    BY <2>4, <2>6, <2>7 DEF TInv
<1>3. ASSUME NEW x \in Exporter, Steps(x)
      PROVE  TInv'
  <2>1. ETypeOK'
    <3>1. /\ pc' \in [Exporter -> {"idle", "partitions", "records"}]
          /\ call' \in [Exporter -> Call] /\ cancelled' \in [Exporter -> BOOLEAN]
      BY <1>3, StepSink DEF OthersKept
    <3> QED
      BY <1>3, <3>1, StepSink, FaultsTyped DEF TInv, ETypeOK
  <2>2. Watermark' = Watermark
    BY <1>3, StepSink DEF Watermark
  <2>3. ASSUME NEW y \in Exporter, y # x PROVE Placed(y)'
    <3>1. pc'[y] = pc[y] /\ call'[y] = call[y] /\ Placed(y)
      BY <1>3, <2>3, StepSink DEF OthersKept, TInv
    <3>2. \A n \in 1..Len(pending) : n \in 1..Len(pending')
      BY <1>3, StepSink, Types
    <3> QED
      BY <2>2, <3>1, <3>2 DEF Placed
  <2>4. Placed(x)'
    BY <1>3, StepPlaced
  <2> QED
    BY <2>1, <2>2, <2>3, <2>4 DEF TInv
<1> QED
  BY <1>1, <1>2, <1>3, StepEffect

LEMMA TInvInit ==
  ASSUME EInit
  PROVE  TInv
<1>1. PICK s \in [Id -> {0, 1}] : history = <<s>>
  BY DEF EInit
<1>2. s \in Snapshot
  BY ExportAssumption DEF Snapshot
<1>3. history \in Seq(Snapshot) /\ Watermark = 1
  BY <1>1, <1>2 DEF Watermark
<1>4. pending \in Seq(Seq(LogicalRecord))
  BY EmptySeq DEF EInit
<1>5. ETypeOK
  BY <1>3, <1>4, NoCallTyped, ExportAssumption DEF EInit, ETypeOK, Snapshot
<1>6. \A x \in Exporter : pc[x] = "idle"
  BY DEF EInit
<1>7. Watermark >= 1 /\ Watermark <= MaxCommits
  BY <1>3, ExportAssumption
<1>8. \A x \in Exporter : Placed(x)
  BY <1>6 DEF Placed
<1> QED
  BY <1>5, <1>7, <1>8 DEF TInv

--------------------------------------------------------------------------------
(***************************************************************************)
(* Sink and manifests: what is hashed is what is written, and handles are  *)
(* not shared.                                                             *)
(***************************************************************************)
Ordered(s) == \A i, j \in 1..Len(s) : i < j => s[i].logical_id < s[j].logical_id

UpTo(s, id) == \A k \in 1..Len(s) : s[k].logical_id <= id

Hashed(x) ==
    pc[x] = "records" =>
        /\ pending[call[x].handle] = call[x].digest
        /\ Ordered(call[x].digest) /\ UpTo(call[x].digest, call[x].previous)

Apart ==
    \A x, y \in Exporter :
        x # y /\ pc[x] = "records" /\ pc[y] = "records" => call[x].handle # call[y].handle

Stored(m, k) ==
    /\ m.artifact_ref \in artifacts /\ m.artifact_ref.content = m.sha256
    /\ Ordered(m.sha256) /\ m.partition_id = PartitionIds[k]

Filed(x) ==
    pc[x] # "idle" => \A k \in 1..Len(call[x].manifests) : Stored(call[x].manifests[k], k)

SInv == Apart /\ \A x \in Exporter : Hashed(x) /\ Filed(x)

LEMMA RecordTyped ==
  ASSUME NEW r \in LogicalRecord
  PROVE  r.logical_id \in Nat /\ r.logical_id \in Id /\ r.version \in Nat
<1>1. r.logical_id \in Id /\ r.version \in 1..MaxCommits
  BY DEF LogicalRecord
<1>2. Id \subseteq Nat /\ MaxCommits \in Nat
  BY ExportAssumption
<1>3. r.logical_id \in Nat
  BY <1>1, <1>2, Zenon
<1>4. PICK v : v = r.version
  OBVIOUS
<1>5. v \in Nat
  BY <1>1, <1>2, <1>4
<1> QED
  BY <1>1, <1>3, <1>4, <1>5

LEMMA OrderedConcat ==
  ASSUME NEW s \in Seq(LogicalRecord), NEW t \in Seq(LogicalRecord), Ordered(s), Ordered(t),
         NEW id \in Nat, UpTo(s, id), Len(t) >= 1, t[1].logical_id > id
  PROVE  Ordered(s \o t) /\ UpTo(s \o t, t[Len(t)].logical_id)
<1> DEFINE c == s \o t
<1>1. /\ Len(c) = Len(s) + Len(t) /\ Len(s) \in Nat /\ Len(t) \in Nat
      /\ \A k \in 1..Len(c) : c[k] = IF k <= Len(s) THEN s[k] ELSE t[k - Len(s)]
  BY ConcatProperties, LenProperties
<1>2. /\ \A k \in 1..Len(s) : s[k].logical_id \in Nat
      /\ \A k \in 1..Len(t) : t[k].logical_id \in Nat
  BY ElementOfSeq, RecordTyped
<1> HIDE DEF c
<1>3. \A k \in 1..Len(t) : t[k].logical_id > id /\ t[k].logical_id <= t[Len(t)].logical_id
  <2> SUFFICES ASSUME NEW k \in 1..Len(t)
               PROVE  t[k].logical_id > id /\ t[k].logical_id <= t[Len(t)].logical_id
    OBVIOUS
  <2>1. 1 \in 1..Len(t) /\ Len(t) \in 1..Len(t)
    BY <1>1
  <2>2. k = 1 \/ t[1].logical_id < t[k].logical_id
    BY <1>1, <2>1 DEF Ordered
  <2>3. k = Len(t) \/ t[k].logical_id < t[Len(t)].logical_id
    BY <1>1, <2>1 DEF Ordered
  <2> QED
    BY <1>2, <2>1, <2>2, <2>3
<1>4. \A k \in 1..Len(c) :
         \/ k \in 1..Len(s) /\ k <= Len(s) /\ c[k] = s[k]
         \/ k - Len(s) \in 1..Len(t) /\ ~(k <= Len(s)) /\ c[k] = t[k - Len(s)]
  BY <1>1
<1>5. ASSUME NEW i \in 1..Len(c), NEW j \in 1..Len(c), i < j
      PROVE  c[i].logical_id < c[j].logical_id
  <2>1. CASE i \in 1..Len(s) /\ c[i] = s[i] /\ j \in 1..Len(s) /\ c[j] = s[j]
    BY <1>5, <2>1 DEF Ordered
  <2>2. CASE i \in 1..Len(s) /\ c[i] = s[i] /\ j - Len(s) \in 1..Len(t) /\ c[j] = t[j - Len(s)]
    <3>1. s[i].logical_id <= id /\ t[j - Len(s)].logical_id > id
      BY <1>3, <2>2 DEF UpTo
    <3>2. PICK a, b : a = c[i].logical_id /\ b = c[j].logical_id
      OBVIOUS
    <3>3. a \in Nat /\ b \in Nat
      BY <1>2, <2>2, <3>2
    <3>4. a <= id /\ b > id
      BY <2>2, <3>1, <3>2
    <3>5. a < b
      BY <3>3, <3>4
    <3> QED
      BY <3>2, <3>5
  <2>3. CASE /\ i - Len(s) \in 1..Len(t) /\ c[i] = t[i - Len(s)]
             /\ j - Len(s) \in 1..Len(t) /\ c[j] = t[j - Len(s)]
    <3>1. i - Len(s) < j - Len(s)
      BY <1>1, <1>5
    <3> QED
      BY <2>3, <3>1 DEF Ordered
  <2>4. ~(j \in 1..Len(s) /\ ~(i <= Len(s)))
    BY <1>1, <1>5
  <2> QED
    BY <1>4, <2>1, <2>2, <2>3, <2>4
<1>6. ASSUME NEW k \in 1..Len(c)
      PROVE  c[k].logical_id <= t[Len(t)].logical_id
  <2>1. Len(t) \in 1..Len(t) /\ t[Len(t)].logical_id > id
    BY <1>1, <1>3
  <2>2. CASE k \in 1..Len(s) /\ c[k] = s[k]
    BY <1>2, <2>1, <2>2 DEF UpTo
  <2>3. CASE k - Len(s) \in 1..Len(t) /\ c[k] = t[k - Len(s)]
    BY <1>3, <2>3
  <2> QED
    BY <1>4, <2>2, <2>3
<1>7. Ordered(c) /\ UpTo(c, t[Len(t)].logical_id)
  BY <1>5, <1>6 DEF Ordered, UpTo
<1> QED
  BY <1>7 DEF c

LEMMA StepApart ==
  ASSUME TInv, Apart, NEW x \in Exporter, Steps(x)
  PROVE  Apart'
<1>1. \A y \in Exporter \ {x} : /\ pc'[y] = pc[y] /\ call'[y] = call[y]
                                /\ pc[y] = "records" => call[y].handle \in 1..Len(pending)
  BY StepSink, PartitionTyped DEF OthersKept
<1>2. ASSUME NEW y \in Exporter \ {x}, pc'[x] = "records", pc[y] = "records"
      PROVE  call'[x].handle # call[y].handle
  <2>1. CASE Opens(x)
    BY <1>1, <1>2, <2>1, Types DEF Opens
  <2>2. CASE Writes(x)
    BY <1>2, <2>2 DEF Writes, Apart
  <2>3. CASE Begins(x) \/ Files(x) \/ Returns(x) \/ Fails(x)
    BY <1>2, <2>3 DEF Begins, Files, Returns, Fails, Ended
  <2> QED
    BY <2>1, <2>2, <2>3 DEF Steps
<1> QED
  BY <1>1, <1>2 DEF Apart

LEMMA StepHashed ==
  ASSUME TInv, NEW x \in Exporter, Hashed(x), Steps(x)
  PROVE  Hashed(x)'
<1>1. CASE Opens(x)
  <2>1. PICK e : e = << >>
    OBVIOUS
  <2>2. /\ pending' = Append(pending, e) /\ e \in Seq(LogicalRecord) /\ Len(e) = 0
        /\ call'[x].handle = Len(pending) + 1 /\ call'[x].digest = e
    BY <1>1, <2>1, EmptySeq DEF Opens
  <2>3. pending'[Len(pending) + 1] = e
    BY <2>2, Types
  <2>4. \A id : Ordered(e) /\ UpTo(e, id)
    BY <2>2 DEF Ordered, UpTo
  <2> QED
    BY <2>2, <2>3, <2>4 DEF Hashed, Ordered, UpTo
<1>2. CASE Writes(x)
  <2>1. PICK place \in Nat, size \in Nat \ {0}, batch \in Seq(LogicalRecord) :
           WritesPage(x, place, size, batch)
    BY <1>2 DEF Writes
  <2> DEFINE d == call[x].digest
             p == call[x].previous
             h == call[x].handle
  <2>2. pc[x] = "records" /\ call'[x].handle = h /\ d \in Seq(LogicalRecord) /\ p \in Nat
    BY <1>2, CallTyped DEF Writes
  <2>3. /\ batch[1].logical_id > p /\ pending' = [pending EXCEPT ![h] = pending[h] \o batch]
        /\ call'[x].digest = d \o batch /\ call'[x].previous = batch[size].logical_id
    BY <2>1 DEF WritesPage
  <2>4. Len(batch) = size /\ Ordered(batch)
    BY <2>1 DEF WritesPage, IsPage, Ordered
  <2>5. h \in 1..Len(pending) /\ h \in DOMAIN pending
    BY <2>2, PartitionTyped, Types, LenProperties
  <2>6. pending[h] = d /\ Ordered(d) /\ UpTo(d, p)
    BY <2>2 DEF Hashed
  <2>7. pending'[h] = d \o batch
    BY <2>3, <2>5, <2>6
  <2> HIDE DEF d, p, h
  <2>8. Ordered(d \o batch) /\ UpTo(d \o batch, batch[size].logical_id)
    BY <2>2, <2>3, <2>4, <2>6, OrderedConcat
  <2> QED
    BY <2>2, <2>3, <2>7, <2>8 DEF Hashed, Ordered, UpTo
<1>3. CASE Begins(x) \/ Files(x) \/ Returns(x) \/ Fails(x)
  BY <1>3 DEF Begins, Files, Returns, Fails, Ended, Hashed
<1> QED
  BY <1>1, <1>2, <1>3 DEF Steps

LEMMA StepFiled ==
  ASSUME TInv, NEW x \in Exporter, Hashed(x), Filed(x), Steps(x)
  PROVE  Filed(x)'
<1>1. \A m, k : Stored(m, k) => Stored(m, k)'
  BY StepSink DEF Stored, Ordered
<1>2. CASE Begins(x) \/ Returns(x) \/ Fails(x)
  <2>1. pc'[x] = "idle" \/ call'[x].manifests = << >>
    BY <1>2 DEF Begins, Returns, Fails, Ended
  <2>2. Len(<< >>) = 0
    OBVIOUS
  <2> QED
    BY <2>1, <2>2 DEF Filed
<1>3. CASE Opens(x) \/ Writes(x)
  <2>1. call'[x].manifests = call[x].manifests /\ pc[x] # "idle"
    BY <1>3 DEF Opens, Writes
  <2>2. PICK old : old = call[x].manifests
    OBVIOUS
  <2>3. \A k \in 1..Len(old) : Stored(old[k], k)'
    BY <1>1, <2>1, <2>2 DEF Filed
  <2> QED
    BY <2>1, <2>2, <2>3 DEF Filed, Stored, Ordered
<1>4. CASE Files(x)
  <2>1. PICK m, old : m = Manifest(x) /\ old = call[x].manifests
    OBVIOUS
  <2>2. pc[x] = "records" /\ call'[x].manifests = Append(old, m) /\ Ref(x) \in artifacts'
    BY <1>4, <2>1 DEF Files
  <2>3. old \in Seq(PartitionManifest) /\ m \in PartitionManifest /\ Len(old) \in Nat
    BY <2>1, <2>2, CallTyped, ManifestTyped
  <2>4. Stored(m, Len(old) + 1)'
    BY <2>1, <2>2 DEF Stored, Manifest, Ref, Partition, Hashed, Ordered
  <2>5. \A k \in 1..Len(old) : Stored(old[k], k)'
    BY <1>1, <2>1, <2>2 DEF Filed
  <2>6. /\ Len(Append(old, m)) = Len(old) + 1
        /\ \A k \in 1..(Len(old) + 1) : Append(old, m)[k] = IF k = Len(old) + 1 THEN m ELSE old[k]
    BY <2>3
  <2> DEFINE a == Append(old, m)
  <2> HIDE DEF a
  <2>7. \A k \in 1..Len(a) : (k = Len(old) + 1 /\ a[k] = m) \/ (k \in 1..Len(old) /\ a[k] = old[k])
    BY <2>3, <2>6 DEF a
  <2>8. \A k \in 1..Len(a) : Stored(a[k], k)'
    BY <2>4, <2>5, <2>7 DEF Stored
  <2> QED
    BY <2>2, <2>8 DEF Filed, Stored, Ordered, a
<1> QED
  BY <1>2, <1>3, <1>4 DEF Steps

LEMMA SInvStep ==
  ASSUME TInv, SInv, [ENext]_evars
  PROVE  SInv'
<1>1. CASE Cancels \/ Commits \/ UNCHANGED evars
  <2>1. UNCHANGED <<pending, artifacts, pc, call>>
    BY <1>1 DEF Cancels, Commits, evars
  <2> QED
    BY <2>1 DEF SInv, Apart, Hashed, Filed, Stored, Ordered, UpTo
<1>2. ASSUME NEW x \in Exporter, Steps(x)
      PROVE  SInv'
  <2>1. ASSUME NEW y \in Exporter, y # x PROVE Hashed(y)' /\ Filed(y)'
    <3>1. pc'[y] = pc[y] /\ call'[y] = call[y] /\ Hashed(y) /\ Filed(y)
      BY <1>2, <2>1, StepSink DEF OthersKept, SInv
    <3>2. ASSUME pc[y] = "records" PROVE pending'[call[y].handle] = pending[call[y].handle]
      <4>1. call[y].handle \in 1..Len(pending)
        BY <3>2, PartitionTyped
      <4>2. ~(pc[x] = "records" /\ call[y].handle = call[x].handle)
        BY <2>1, <3>2 DEF SInv, Apart
      <4> QED
        BY <1>2, <4>1, <4>2, StepSink
    <3>3. Hashed(y)'
      BY <3>1, <3>2 DEF Hashed, Ordered, UpTo
    <3>4. artifacts \subseteq artifacts'
      BY <1>2, StepSink
    <3> QED
      BY <3>1, <3>3, <3>4 DEF Filed, Stored, Ordered
  <2>2. Hashed(x)' /\ Filed(x)' /\ Apart'
    BY <1>2, StepHashed, StepFiled, StepApart DEF SInv
  <2> QED
    BY <2>1, <2>2 DEF SInv
<1> QED
  BY <1>1, <1>2, StepEffect

--------------------------------------------------------------------------------
(***************************************************************************)
(* Watermarks: what was exported of an id, or that nothing was, is how the *)
(* source was at a watermark that the call has seen.                       *)
(***************************************************************************)
Held(x, id, v) == \E w \in Seen(x) : history[w][id] = v

Read(x, s) == \A k \in 1..Len(s) : Held(x, s[k].logical_id, s[k].version)

\* The ids of a partition that s does not have.
Missing(p, s) == {id \in Id : PartitionOf[id] = p /\ \A k \in 1..Len(s) : s[k].logical_id # id}

Skipped(x, ids) == \A id \in ids : Held(x, id, 0)

Reading(x) ==
    pc[x] = "records" =>
        /\ Read(x, call[x].digest)
        /\ Skipped(x, {id \in Missing(Partition(x), call[x].digest) : id <= call[x].previous})

Covers(x, m, k) == Read(x, m.sha256) /\ Skipped(x, Missing(PartitionIds[k], m.sha256))

Done(x) ==
    pc[x] # "idle" => \A k \in 1..Len(call[x].manifests) : Covers(x, call[x].manifests[k], k)

WInv == \A x \in Exporter : Reading(x) /\ Done(x)

LEMMA SeenTyped ==
  ASSUME TInv, NEW x \in Exporter, pc[x] # "idle"
  PROVE  /\ Seen(x) \subseteq 1..Watermark /\ call[x].start \in Seen(x)
         /\ ~call[x].snapshot => Watermark \in Seen(x)
<1>1. /\ call[x].start \in Nat /\ Watermark \in Nat /\ call[x].start >= 1
      /\ call[x].start <= Watermark
  BY CallTyped, Types DEF TInv, Placed
<1>2. CASE call[x].snapshot
  <2>1. Seen(x) = {call[x].start}
    BY <1>2 DEF Seen
  <2> QED
    BY <1>1, <1>2, <2>1
<1>3. CASE ~call[x].snapshot
  <2>1. Seen(x) = call[x].start..Watermark
    BY <1>3 DEF Seen
  <2> QED
    BY <1>1, <1>3, <2>1
<1> QED
  BY <1>2, <1>3

LEMMA ViewSeen ==
  ASSUME TInv, NEW x \in Exporter, pc[x] # "idle", NEW id
  PROVE  Held(x, id, View(x)[id])
<1>1. CASE call[x].snapshot
  BY <1>1, SeenTyped DEF View, Held
<1>2. CASE ~call[x].snapshot
  BY <1>2, SeenTyped DEF View, Held
<1> QED
  BY <1>1, <1>2

\* What was seen stays seen.
LEMMA HeldStays ==
  ASSUME TInv, NEW x \in Exporter, pc[x] # "idle", NEW id, NEW v, Held(x, id, v),
         call'[x].snapshot = call[x].snapshot, call'[x].start = call[x].start,
         history' = history \/ Commits
  PROVE  Held(x, id, v)'
<1>1. CASE history' = history
  BY <1>1 DEF Held, Seen, Watermark
<1>2. CASE Commits
  <2>1. PICK s \in Snapshot : history' = Append(history, s)
    BY <1>2 DEF Commits
  <2>2. Watermark' = Watermark + 1 /\ \A w \in 1..Watermark : history'[w] = history[w]
    BY <2>1, Types DEF Watermark
  <2>3. Seen(x) \subseteq Seen(x)'
    <3>1. CASE call[x].snapshot
      BY <3>1 DEF Seen
    <3>2. CASE ~call[x].snapshot
      <4>1. Seen(x) = call[x].start..Watermark /\ Seen(x)' = call[x].start..Watermark'
        BY <3>2 DEF Seen
      <4> QED
        BY <2>2, <4>1, Types, CallTyped
    <3> QED
      BY <3>1, <3>2
  <2>4. PICK w \in Seen(x) : history[w][id] = v
    BY DEF Held
  <2>5. w \in Seen(x)' /\ history'[w][id] = v
    BY <2>2, <2>3, <2>4, SeenTyped
  <2> QED
    BY <2>5 DEF Held
<1> QED
  BY <1>1, <1>2

LEMMA CoversStays ==
  ASSUME TInv, NEW x \in Exporter, pc[x] # "idle",
         call'[x].snapshot = call[x].snapshot, call'[x].start = call[x].start,
         history' = history \/ Commits
  PROVE  /\ \A s : Read(x, s) => Read(x, s)'
         /\ \A ids : Skipped(x, ids) => Skipped(x, ids)'
         /\ \A m, k : Covers(x, m, k) => Covers(x, m, k)'
<1>1. \A s : Read(x, s) => Read(x, s)'
  BY HeldStays DEF Read
<1>2. \A ids : Skipped(x, ids) => Skipped(x, ids)'
  BY HeldStays DEF Skipped
<1>3. ASSUME NEW m, NEW k, Covers(x, m, k)
      PROVE  Covers(x, m, k)'
  <2>1. PICK s, ids : s = m.sha256 /\ ids = Missing(PartitionIds[k], m.sha256)
    OBVIOUS
  <2>2. Read(x, s)' /\ Skipped(x, ids)'
    BY <1>1, <1>2, <1>3, <2>1 DEF Covers
  <2> QED
    BY <2>1, <2>2 DEF Covers, Read, Skipped, Missing
<1> QED
  BY <1>1, <1>2, <1>3

\* A page continues what was read before.
LEMMA PageRead ==
  ASSUME TInv, NEW x \in Exporter, pc[x] = "records", Reading(x),
         NEW place \in Nat, NEW size \in Nat \ {0}, NEW batch \in Seq(LogicalRecord),
         WritesPage(x, place, size, batch)
  PROVE  LET s == call[x].digest \o batch IN
         /\ Read(x, s)
         /\ Skipped(x, {id \in Missing(Partition(x), s) : id <= batch[size].logical_id})
<1> DEFINE d == call[x].digest
           s == d \o batch
           p == Partition(x)
           F == Following(x, p, place)
           n == call[x].previous
<1>1. d \in Seq(LogicalRecord) /\ n \in Nat /\ place <= n
  BY CallTyped DEF WritesPage
<1>2. /\ Len(s) = Len(d) + Len(batch) /\ Len(d) \in Nat /\ Len(batch) \in Nat
      /\ \A k \in 1..Len(s) : s[k] = IF k <= Len(d) THEN d[k] ELSE batch[k - Len(d)]
  BY <1>1, ConcatProperties, LenProperties
<1>3. /\ Len(batch) = size
      /\ \A k \in 1..size : batch[k].version = View(x)[batch[k].logical_id]
      /\ \A i \in F : i <= batch[size].logical_id => \E k \in 1..size : batch[k].logical_id = i
  BY DEF WritesPage, IsPage
<1>4. \A i \in Id : PartitionOf[i] = p /\ i > place /\ View(x)[i] # 0 => i \in F
  BY DEF Following
<1>5. Read(x, d) /\ Skipped(x, {id \in Missing(p, d) : id <= n})
  BY DEF Reading
<1> HIDE DEF d, s, p, F, n
<1>6. /\ \A k \in 1..Len(s) : \/ k \in 1..Len(d) /\ s[k] = d[k]
                              \/ k - Len(d) \in 1..Len(batch) /\ s[k] = batch[k - Len(d)]
      /\ \A k \in 1..Len(d) : k \in 1..Len(s) /\ s[k] = d[k]
      /\ \A k \in 1..Len(batch) : Len(d) + k \in 1..Len(s) /\ s[Len(d) + k] = batch[k]
  BY <1>2
<1>7. \A k \in 1..size : Held(x, batch[k].logical_id, batch[k].version)
  BY <1>3, ViewSeen
<1>8. Read(x, s)
  <2> SUFFICES ASSUME NEW k \in 1..Len(s) PROVE Held(x, s[k].logical_id, s[k].version)
    BY DEF Read
  <2>1. CASE k \in 1..Len(d) /\ s[k] = d[k]
    BY <1>5, <2>1 DEF Read
  <2>2. CASE k - Len(d) \in 1..Len(batch) /\ s[k] = batch[k - Len(d)]
    BY <1>3, <1>7, <2>2
  <2> QED
    BY <1>6, <2>1, <2>2
<1>9. ASSUME NEW id \in Missing(p, s), id <= batch[size].logical_id
      PROVE  Held(x, id, 0)
  <2>1. /\ id \in Id /\ PartitionOf[id] = p /\ \A k \in 1..Len(s) : s[k].logical_id # id
    BY DEF Missing
  <2>2. CASE id <= n
    <3>1. id \in Missing(p, d)
      BY <1>6, <2>1 DEF Missing
    <3> QED
      BY <1>5, <2>2, <3>1 DEF Skipped
  <2>3. CASE ~(id <= n)
    <3>1. id \in Nat /\ id > place
      BY <1>1, <2>1, <2>3, ExportAssumption
    <3>2. ~\E k \in 1..size : batch[k].logical_id = id
      BY <1>3, <1>6, <2>1
    <3>3. id \notin F
      BY <1>3, <1>9, <3>2
    <3>4. View(x)[id] = 0
      BY <1>4, <2>1, <3>1, <3>3
    <3>5. Held(x, id, View(x)[id])
      BY ViewSeen
    <3> QED
      BY <3>4, <3>5
  <2> QED
    BY <2>2, <2>3
<1>10. Skipped(x, {id \in Missing(p, s) : id <= batch[size].logical_id})
  BY <1>9 DEF Skipped
<1> QED
  BY <1>8, <1>10 DEF s, d, p

LEMMA StepReading ==
  ASSUME TInv, NEW x \in Exporter, Reading(x), Steps(x)
  PROVE  Reading(x)'
<1>1. CASE Opens(x)
  <2>1. PICK s : s = << >>
    OBVIOUS
  <2>2. Len(s) = 0 /\ call'[x].digest = s /\ call'[x].previous = 0
    BY <1>1, <2>1 DEF Opens
  <2>3. Read(x, s)'
    BY <2>2 DEF Read
  <2>4. \A id \in Id : ~(id <= 0)
    BY ExportAssumption
  <2>5. {id \in Missing(Partition(x), s)' : id <= 0} = {}
    BY <2>4 DEF Missing
  <2> QED
    BY <2>2, <2>3, <2>5 DEF Reading, Read, Skipped, Missing
<1>2. CASE Writes(x)
  <2>1. PICK place \in Nat, size \in Nat \ {0}, batch \in Seq(LogicalRecord) :
           WritesPage(x, place, size, batch)
    BY <1>2 DEF Writes
  <2>2. /\ pc[x] = "records" /\ history' = history
        /\ call'[x].snapshot = call[x].snapshot /\ call'[x].start = call[x].start
        /\ call'[x].manifests = call[x].manifests
    BY <1>2 DEF Writes, GoesOn
  <2>3. PICK s, n, p, ids : /\ s = call[x].digest \o batch /\ n = batch[size].logical_id
                            /\ p = Partition(x) /\ ids = {id \in Missing(p, s) : id <= n}
    OBVIOUS
  <2>4. call'[x].digest = s /\ call'[x].previous = n /\ Partition(x)' = p
    BY <2>1, <2>2, <2>3 DEF WritesPage, Partition
  <2>5. Read(x, s) /\ Skipped(x, ids)
    BY <2>1, <2>2, <2>3, PageRead
  <2>6. Read(x, s)' /\ Skipped(x, ids)'
    BY <2>2, <2>5, CoversStays
  <2>7. Reading(x)' <=> (pc'[x] = "records" => Read(x, s)' /\ Skipped(x, ids)')
    BY <2>3, <2>4 DEF Reading, Read, Skipped, Missing
  <2> QED
    BY <2>6, <2>7
<1>3. CASE Begins(x) \/ Files(x) \/ Returns(x) \/ Fails(x)
  BY <1>3 DEF Begins, Files, Returns, Fails, Ended, Reading
<1> QED
  BY <1>1, <1>2, <1>3 DEF Steps

LEMMA StepDone ==
  ASSUME TInv, NEW x \in Exporter, Reading(x), Done(x), Steps(x)
  PROVE  Done(x)'
<1>1. CASE Begins(x) \/ Returns(x) \/ Fails(x)
  <2>1. pc'[x] = "idle" \/ call'[x].manifests = << >>
    BY <1>1 DEF Begins, Returns, Fails, Ended
  <2>2. Len(<< >>) = 0
    OBVIOUS
  <2> QED
    BY <2>1, <2>2 DEF Done
<1>2. CASE Opens(x) \/ Writes(x)
  <2>1. /\ call'[x].manifests = call[x].manifests /\ pc[x] # "idle" /\ history' = history
        /\ call'[x].snapshot = call[x].snapshot /\ call'[x].start = call[x].start
    BY <1>2 DEF Opens, Writes, GoesOn
  <2>2. PICK old : old = call[x].manifests
    OBVIOUS
  <2>3. \A m, k : Covers(x, m, k) => Covers(x, m, k)'
    BY <2>1, CoversStays
  <2>4. \A k \in 1..Len(old) : Covers(x, old[k], k)'
    BY <2>1, <2>2, <2>3 DEF Done
  <2>5. ASSUME NEW k \in 1..Len(old)
        PROVE  Covers(x, call[x].manifests[k], k)'
    <3>1. PICK m : m = old[k]
      OBVIOUS
    <3>2. Covers(x, m, k)'
      BY <2>4, <3>1 DEF Covers, Read, Skipped, Missing
    <3> QED
      BY <2>1, <2>2, <3>1, <3>2 DEF Covers, Read, Skipped, Missing
  <2>6. call'[x].manifests = old
    BY <2>1, <2>2
  <2> QED
    BY <2>5, <2>6 DEF Done
<1>3. CASE Files(x)
  <2>1. PICK m, old : m = Manifest(x) /\ old = call[x].manifests
    OBVIOUS
  <2>2. /\ pc[x] = "records" /\ call'[x].manifests = Append(old, m) /\ history' = history
        /\ call'[x].snapshot = call[x].snapshot /\ call'[x].start = call[x].start
        /\ Following(x, Partition(x), call[x].previous) = {}
    BY <1>3, <2>1 DEF Files, GoesOn
  <2>3. old \in Seq(PartitionManifest) /\ m \in PartitionManifest /\ Len(old) \in Nat
    BY <2>1, <2>2, CallTyped, ManifestTyped
  <2>4. Covers(x, m, Len(old) + 1)
    <3> DEFINE d == call[x].digest
               p == Partition(x)
               n == call[x].previous
    <3>1. m.sha256 = d /\ p = PartitionIds[Len(old) + 1]
      BY <2>1 DEF Manifest, Partition
    <3>2. Read(x, d) /\ Skipped(x, {id \in Missing(p, d) : id <= n}) /\ n \in Nat
      BY <2>2, CallTyped DEF Reading
    <3>3. ASSUME NEW id \in Missing(p, d), ~(id <= n)
          PROVE  Held(x, id, 0)
      <4>1. id \in Id /\ PartitionOf[id] = p
        BY DEF Missing
      <4>2. id > n
        BY <3>2, <3>3, <4>1, ExportAssumption
      <4>3. View(x)[id] = 0
        BY <2>2, <4>1, <4>2 DEF Following
      <4>4. Held(x, id, View(x)[id])
        BY <2>2, ViewSeen
      <4> QED
        BY <4>3, <4>4
    <3> HIDE DEF d, p, n
    <3>4. Skipped(x, Missing(p, d))
      BY <3>2, <3>3 DEF Skipped
    <3> QED
      BY <3>1, <3>2, <3>4 DEF Covers
  <2>5. Covers(x, m, Len(old) + 1)'
    <3>1. PICK n : n = Len(old) + 1
      OBVIOUS
    <3>2. Covers(x, m, n)'
      BY <2>2, <2>4, <3>1, CoversStays
    <3> QED
      BY <3>1, <3>2
  <2>6. \A k \in 1..Len(old) : Covers(x, old[k], k)'
    BY <2>1, <2>2, CoversStays DEF Done
  <2>7. /\ Len(Append(old, m)) = Len(old) + 1
        /\ \A k \in 1..(Len(old) + 1) : Append(old, m)[k] = IF k = Len(old) + 1 THEN m ELSE old[k]
    BY <2>3
  <2> DEFINE a == Append(old, m)
  <2> HIDE DEF a
  <2>8. \A k \in 1..Len(a) : (k = Len(old) + 1 /\ a[k] = m) \/ (k \in 1..Len(old) /\ a[k] = old[k])
    BY <2>3, <2>7 DEF a
  <2>9. call'[x].manifests = a
    BY <2>2 DEF a
  <2>10. ASSUME NEW k \in 1..Len(a)
         PROVE  Covers(x, call[x].manifests[k], k)'
    <3>1. PICK n : n = a[k]
      OBVIOUS
    <3>2. CASE k = Len(old) + 1 /\ n = m
      BY <2>5, <2>9, <3>1, <3>2 DEF Covers, Read, Skipped, Missing
    <3>3. CASE k \in 1..Len(old) /\ n = old[k]
      <4>1. Covers(x, n, k)'
        BY <2>6, <3>3 DEF Covers, Read, Skipped, Missing
      <4> QED
        BY <2>9, <3>1, <4>1 DEF Covers, Read, Skipped, Missing
    <3> QED
      BY <2>8, <3>1, <3>2, <3>3
  <2> QED
    BY <2>9, <2>10 DEF Done
<1> QED
  BY <1>1, <1>2, <1>3 DEF Steps

LEMMA WInvStep ==
  ASSUME TInv, WInv, [ENext]_evars
  PROVE  WInv'
<1>1. ASSUME NEW y \in Exporter, pc'[y] = pc[y], call'[y] = call[y], history' = history \/ Commits
      PROVE  Reading(y)' /\ Done(y)'
  <2>1. CASE pc[y] = "idle"
    BY <1>1, <2>1 DEF Reading, Done
  <2>2. CASE pc[y] # "idle"
    <3>1. PICK c, p, ids : /\ c = call[y] /\ p = Partition(y)
                           /\ ids = {id \in Missing(p, c.digest) : id <= c.previous}
      OBVIOUS
    <3>2. Partition(y)' = p
      BY <1>1, <3>1 DEF Partition
    <3>3. /\ \A s : Read(y, s) => Read(y, s)'
          /\ \A S : Skipped(y, S) => Skipped(y, S)'
          /\ \A m, k : Covers(y, m, k) => Covers(y, m, k)'
      BY <1>1, <2>2, CoversStays
    <3>4. \A k \in 1..Len(c.manifests) : Covers(y, c.manifests[k], k)'
      BY <2>2, <3>1, <3>3 DEF WInv, Done
    <3>5. Done(y)'
      BY <1>1, <3>1, <3>4 DEF Done, Covers, Read, Skipped, Missing
    <3>6. PICK s : s = c.digest
      OBVIOUS
    <3>7. pc[y] = "records" => Read(y, s)' /\ Skipped(y, ids)'
      BY <3>1, <3>3, <3>6 DEF WInv, Reading
    <3>8. Reading(y)' <=> (pc[y] = "records" => Read(y, s)' /\ Skipped(y, ids)')
      BY <1>1, <3>1, <3>2, <3>6 DEF Reading, Read, Skipped, Missing
    <3> QED
      BY <3>5, <3>7, <3>8
  <2> QED
    BY <2>1, <2>2
<1>2. CASE Cancels \/ Commits \/ UNCHANGED evars
  <2>1. UNCHANGED <<pc, call>> /\ (history' = history \/ Commits)
    BY <1>2 DEF Cancels, Commits, evars
  <2> QED
    BY <1>1, <2>1 DEF WInv
<1>3. ASSUME NEW x \in Exporter, Steps(x)
      PROVE  WInv'
  <2>1. \A y \in Exporter : y # x => Reading(y)' /\ Done(y)'
    BY <1>1, <1>3, StepSink DEF OthersKept
  <2>2. Reading(x)' /\ Done(x)'
    BY <1>3, StepReading, StepDone DEF WInv
  <2> QED
    BY <2>1, <2>2 DEF WInv
<1> QED
  BY <1>2, <1>3, StepEffect

--------------------------------------------------------------------------------
(***************************************************************************)
(* The exports that are returned.                                          *)
(***************************************************************************)
ImportableOne(e) ==
    \A k \in 1..Len(e.partitions) :
        LET m == e.partitions[k] IN
        /\ m.artifact_ref \in artifacts
        /\ m.artifact_ref.content = m.sha256
        /\ Ordered(m.sha256)

WithinOne(e) ==
    /\ 1 <= e.boundary.start /\ e.boundary.end <= Watermark
    /\ \A id \in Id :
          \E w \in e.boundary.start..e.boundary.end : history[w][id] = Exported(e, id)

XInv == \A e \in exports : ImportableOne(e) /\ WithinOne(e)

LEMMA ReturnImportable ==
  ASSUME TInv, NEW x \in Exporter, Filed(x), pc[x] # "idle", NEW e,
         e.partitions = call[x].manifests
  PROVE  ImportableOne(e)
  BY DEF ImportableOne, Filed, Stored

LEMMA ReturnWithin ==
  ASSUME TInv, NEW x \in Exporter, Filed(x), Done(x), Returns(x),
         NEW boundary \in ExportBoundary, ReturnsWith(x, boundary), NEW e,
         e = [boundary |-> boundary, partitions |-> call[x].manifests]
  PROVE  WithinOne(e)
<1> DEFINE ms == call[x].manifests
<1>1. /\ pc[x] # "idle" /\ Len(ms) = Len(PartitionIds) /\ e.partitions = ms
      /\ e.boundary = boundary
  BY DEF Returns
<1>2. /\ ms \in Seq(PartitionManifest) /\ DOMAIN ms = 1..Len(ms)
  BY CallTyped
<1>3. \A k \in 1..Len(ms) : /\ ms[k].artifact_ref.content = ms[k].sha256
                            /\ Read(x, ms[k].sha256)
                            /\ Skipped(x, Missing(PartitionIds[k], ms[k].sha256))
  BY <1>1 DEF Filed, Stored, Done, Covers
<1>4. \A k \in 1..Len(ms) : DOMAIN ms[k].sha256 = 1..Len(ms[k].sha256)
  <2>1. \A k \in 1..Len(ms) : ms[k] \in PartitionManifest
    BY <1>2, ElementOfSeq
  <2>2. \A k \in 1..Len(ms) : ms[k].sha256 \in Seq(LogicalRecord)
    BY <2>1 DEF PartitionManifest
  <2> QED
    BY <2>2, LenProperties
<1> HIDE DEF ms
<1>5. ASSUME NEW id \in Id
      PROVE  Held(x, id, Exported(e, id))
  <2> DEFINE found == {r \in UNION {{m.artifact_ref.content[k] : k \in DOMAIN m.artifact_ref.content} :
                               m \in {e.partitions[k] : k \in DOMAIN e.partitions}} :
                         r.logical_id = id}
  <2>1. Exported(e, id) = IF found = {} THEN 0 ELSE (CHOOSE r \in found : TRUE).version
    BY DEF Exported
  <2>2. \A r : r \in found <=>
           /\ r.logical_id = id
           /\ \E k \in 1..Len(ms) : \E j \in 1..Len(ms[k].sha256) : r = ms[k].sha256[j]
    <3>1. {e.partitions[k] : k \in DOMAIN e.partitions} = {ms[k] : k \in 1..Len(ms)}
      BY <1>1, <1>2
    <3>2. PICK M : M = {ms[k] : k \in 1..Len(ms)}
      OBVIOUS
    <3>3. found = {r \in UNION {{m.artifact_ref.content[k] : k \in DOMAIN m.artifact_ref.content}
                                 : m \in M} : r.logical_id = id}
      BY <3>1, <3>2
    <3>4. \A r : r \in found <=>
             /\ r.logical_id = id
             /\ \E m \in M : \E j \in DOMAIN m.artifact_ref.content : r = m.artifact_ref.content[j]
      <4> HIDE DEF found
      <4> QED
        BY <3>3
    <3> HIDE DEF found
    <3> QED
      BY <1>3, <1>4, <3>2, <3>4
  <2> HIDE DEF found
  <2>3. CASE found = {}
    <3>1. PICK k \in 1..Len(PartitionIds) : PartitionOf[id] = PartitionIds[k]
      BY ExportAssumption, PartitionsTyped
    <3>2. id \in Missing(PartitionIds[k], ms[k].sha256)
      BY <1>1, <2>2, <2>3, <3>1 DEF Missing
    <3>3. Held(x, id, 0)
      BY <1>1, <1>3, <3>1, <3>2 DEF Skipped
    <3> QED
      BY <2>1, <2>3, <3>3
  <2>4. CASE found # {}
    <3>1. PICK r \in found : Exported(e, id) = r.version
      BY <2>1, <2>4
    <3>2. PICK k \in 1..Len(ms) : \E j \in 1..Len(ms[k].sha256) : r = ms[k].sha256[j]
      BY <2>2, <3>1
    <3>3. Held(x, r.logical_id, r.version)
      BY <1>3, <3>2 DEF Read
    <3>4. r.logical_id = id
      BY <2>2, <3>1
    <3> QED
      BY <3>1, <3>3, <3>4
  <2> QED
    BY <2>3, <2>4
<1>6. /\ Seen(x) \subseteq boundary.start..boundary.end /\ boundary.end <= Watermark
      /\ boundary.start = call[x].start
  BY DEF ReturnsWith
<1>7. 1 <= call[x].start
  BY <1>1, Types DEF TInv, Placed
<1>8. \A id \in Id : \E w \in boundary.start..boundary.end : history[w][id] = Exported(e, id)
  BY <1>5, <1>6 DEF Held
<1> QED
  BY <1>1, <1>6, <1>7, <1>8 DEF WithinOne

LEMMA XInvStep ==
  ASSUME TInv, SInv, WInv, XInv, [ENext]_evars
  PROVE  XInv'
<1>1. ASSUME NEW e \in exports, artifacts \subseteq artifacts', history' = history \/ Commits
      PROVE  ImportableOne(e)' /\ WithinOne(e)'
  <2>1. ImportableOne(e) /\ WithinOne(e) /\ e.boundary.start \in Nat /\ e.boundary.end \in Nat
    BY Types DEF XInv, LogicalExportV1, ExportBoundary
  <2>2. ImportableOne(e)'
    BY <1>1, <2>1 DEF ImportableOne, Ordered
  <2>3. /\ Watermark' >= Watermark /\ Watermark' \in Nat
        /\ \A w \in 1..Watermark : history'[w] = history[w]
    <3>1. CASE history' = history
      BY <3>1, Types DEF Watermark
    <3>2. CASE Commits
      <4>1. PICK s \in Snapshot : history' = Append(history, s)
        BY <3>2 DEF Commits
      <4> QED
        BY <4>1, Types DEF Watermark
    <3> QED
      BY <1>1, <3>1, <3>2
  <2>4. e.boundary.end <= Watermark'
    BY <2>1, <2>3, Types DEF WithinOne
  <2>5. \A w \in e.boundary.start..e.boundary.end : w \in 1..Watermark
    BY <2>1, Types DEF WithinOne
  <2>6. \A id \in Id : \E w \in e.boundary.start..e.boundary.end : history'[w][id] = Exported(e, id)
    BY <2>1, <2>3, <2>5 DEF WithinOne
  <2> QED
    BY <2>1, <2>2, <2>4, <2>6 DEF WithinOne
<1>2. CASE Cancels \/ Commits \/ UNCHANGED evars
  <2>1. UNCHANGED <<artifacts, exports>> /\ (history' = history \/ Commits)
    BY <1>2 DEF Cancels, Commits, evars
  <2> QED
    BY <1>1, <2>1 DEF XInv
<1>3. ASSUME NEW x \in Exporter, Steps(x)
      PROVE  XInv'
  <2>1. artifacts \subseteq artifacts' /\ history' = history
    BY <1>3, StepSink
  <2>2. CASE exports' = exports
    BY <1>1, <2>1, <2>2 DEF XInv
  <2>3. CASE Returns(x)
    <3>1. PICK boundary \in ExportBoundary : ReturnsWith(x, boundary)
      BY <2>3 DEF Returns
    <3>2. PICK e : e = [boundary |-> boundary, partitions |-> call[x].manifests]
      OBVIOUS
    <3>3. exports' = exports \cup {e} /\ UNCHANGED <<history, artifacts>> /\ pc[x] # "idle"
      BY <2>3, <3>1, <3>2 DEF Returns, ReturnsWith
    <3>4. ImportableOne(e) /\ WithinOne(e)
      <4>1. Filed(x) /\ Done(x)
        BY DEF SInv, WInv
      <4>2. ImportableOne(e)
        BY <3>2, <3>3, <4>1, ReturnImportable
      <4>3. WithinOne(e)
        BY <2>3, <3>1, <3>2, <4>1, ReturnWithin
      <4> QED
        BY <4>2, <4>3
    <3>5. ImportableOne(e)' /\ WithinOne(e)'
      BY <3>3, <3>4 DEF ImportableOne, Ordered, WithinOne, Watermark
    <3> QED
      BY <1>1, <2>1, <3>3, <3>5 DEF XInv
  <2> QED
    BY <1>3, <2>2, <2>3 DEF Steps, Begins, Opens, Writes, Files, Fails
<1> QED
  BY <1>2, <1>3, StepEffect

LEMMA InitInv ==
  ASSUME EInit
  PROVE  TInv /\ SInv /\ WInv /\ XInv
<1>1. \A x \in Exporter : pc[x] = "idle"
  BY DEF EInit
<1>2. SInv /\ WInv
  BY <1>1 DEF SInv, Apart, Hashed, Filed, WInv, Reading, Done
<1>3. XInv
  BY DEF EInit, XInv
<1> QED
  BY <1>2, <1>3, TInvInit

LEMMA AlwaysInv == ESpec => [](TInv /\ SInv /\ WInv /\ XInv)
<1>1. TInv /\ SInv /\ WInv /\ XInv /\ [ENext]_evars => (TInv /\ SInv /\ WInv /\ XInv)'
  BY TInvStep, SInvStep, WInvStep, XInvStep
<1>2. EInit => TInv /\ SInv /\ WInv /\ XInv
  BY InitInv
<1> QED
  BY <1>1, <1>2, PTL DEF ESpec

(***************************************************************************)
(* Exporters, sink and source keep their types, however many exports share *)
(* the sink and wherever export raises or dies.                            *)
(***************************************************************************)
THEOREM ExportTypes == ESpec => []ETypeOK
<1>1. TInv => ETypeOK
  BY DEF TInv
<1> QED
  BY <1>1, AlwaysInv, PTL

(***************************************************************************)
(* For any number of exports into one sink, any partitioning and any pages *)
(* a source may return: every manifest that export returns names artifacts *)
(* that are stored, hold what was hashed and list their ids in order.      *)
(***************************************************************************)
THEOREM ExportsImportable == ESpec => []Importable
<1>1. ASSUME TInv, XInv PROVE Importable
  <2> SUFFICES ASSUME NEW e \in exports, NEW k \in DOMAIN e.partitions
               PROVE  LET m == e.partitions[k] IN
                      /\ m.artifact_ref \in artifacts
                      /\ m.artifact_ref.content = m.sha256
                      /\ \A i, j \in DOMAIN m.sha256 :
                            i < j => m.sha256[i].logical_id < m.sha256[j].logical_id
    BY DEF Importable
  <2>1. e.partitions \in Seq(PartitionManifest)
    BY <1>1, Types DEF LogicalExportV1
  <2>2. k \in 1..Len(e.partitions) /\ e.partitions[k] \in PartitionManifest
    BY <2>1, LenProperties, ElementOfSeq
  <2>3. e.partitions[k].sha256 \in Seq(LogicalRecord)
    BY <2>2 DEF PartitionManifest
  <2>4. DOMAIN e.partitions[k].sha256 = 1..Len(e.partitions[k].sha256)
    BY <2>3, LenProperties
  <2> QED
    BY <1>1, <2>2, <2>4 DEF XInv, ImportableOne, Ordered
<1>2. TInv /\ XInv => Importable
  BY <1>1
<1> QED
  BY <1>2, AlwaysInv, PTL

(***************************************************************************)
(* For any number of commits between pages and partitions, snapshot or     *)
(* live reads, and a source that loses its place or renews its boundary:   *)
(* an export that is returned holds for every id what the source held at   *)
(* a watermark within the boundary of its manifest.                        *)
(***************************************************************************)
THEOREM ExportsWithinBoundary == ESpec => []WithinBoundary
<1>1. XInv => WithinBoundary
  BY DEF XInv, WithinOne, WithinBoundary
<1> QED
  BY <1>1, AlwaysInv, PTL
================================================================================
