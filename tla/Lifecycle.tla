------------------------------- MODULE Lifecycle -------------------------------
(***************************************************************************)
(* The whole way of a change: TransactionalOutboxWriter commits a source   *)
(* mutation with its intent, the runner of ProjectionRunner projects the   *)
(* intent into version-addressed rows (make_projector), and a reader       *)
(* reduces the rows with latest_visible.                                   *)
(*                                                                         *)
(* The caller builds the mutation and the intent before the transaction,   *)
(* so another transaction may have come first and the two need not fit     *)
(* together; _validate_source finds out after the mutation has run.  Core  *)
(* is external: a transaction holds the row it has mutated, and leaves no  *)
(* trace if the process dies or anything raises.  Callers choose           *)
(* occurred_at, so nothing here relates the order of the outbox to the     *)
(* order of the commits.                                                   *)
(***************************************************************************)
EXTENDS ProjectionRunner

CONSTANTS
    Writer,    \* callers of TransactionalOutboxWriter.commit
    Tombstone  \* the intents of deletions

ASSUME LifecycleAssumption ==
    Tombstone \subseteq Data /\ Version \subseteq Nat /\ None \notin Version

VARIABLES
    source, \* the committed version of every source row, and whether it is deleted
    tx      \* the open transaction of each writer

lvars == <<rvars, source, tx>>

SourceRow == [version : Nat, deleted : BOOLEAN]

\* at: mutated, or put once the intent is in the transaction too.
Transaction == [at : {"mutated", "put"}, intent : Data, key : Partition, deleted : BOOLEAN]

NoTransaction == [at |-> "none"]

LTypeOK ==
    /\ RTypeOK
    /\ source \in [Partition -> SourceRow]
    /\ tx \in [Writer -> Transaction \cup {NoTransaction}]

LInit ==
    /\ RInit
    /\ source = [k \in Partition |-> [version |-> 0, deleted |-> TRUE]]
    /\ tx = [w \in Writer |-> NoTransaction]

--------------------------------------------------------------------------------
\* The mutation runs and locks its row.
Mutate(w) ==
    /\ tx[w] = NoTransaction
    /\ \E d \in Data, k \in Partition, deleted \in BOOLEAN :
          /\ \A v \in Writer : tx[v] # NoTransaction => tx[v].key # k
          /\ tx' = [tx EXCEPT ![w] =
                [at |-> "mutated", intent |-> d, key |-> k, deleted |-> deleted]]
    /\ UNCHANGED <<rvars, source>>

FaultyValidateSource(t) ==  \* does not compare the version
    /\ t.key = t.intent.partition_key
    /\ t.deleted <=> t.intent \in Tombstone

\* Resource and identity, mutation kind, and the exact version of the result.
ValidateSource(t) ==
    /\ t.key = t.intent.partition_key
    /\ t.deleted <=> t.intent \in Tombstone
    /\ source[t.key].version + 1 = t.intent.source_version

\* The source result is validated, and the intent put unless its event id is there.
PutIntent(w) ==
    /\ tx[w].at = "mutated"
    /\ ValidateSource(tx[w])
    /\ \A e \in Data : Present(e) => e.event_id # tx[w].intent.event_id
    /\ tx' = [tx EXCEPT ![w].at = "put"]
    /\ UNCHANGED <<rvars, source>>

\* The end of the with block: Core commits both.
Commit(w) ==
    /\ tx[w].at = "put"
    /\ source' = [source EXCEPT ![tx[w].key] =
                     [version |-> @.version + 1, deleted |-> tx[w].deleted]]
    /\ append(tx[w].intent)
    /\ tx' = [tx EXCEPT ![w] = NoTransaction]
    /\ UNCHANGED <<workerVars, clock, target, stop, faults>>

\* A rejected source result, a duplicate event id, any raise, or a crash.
Rollback(w) ==
    /\ tx[w] # NoTransaction
    /\ tx' = [tx EXCEPT ![w] = NoTransaction]
    /\ UNCHANGED <<rvars, source>>

\* The actions of ProjectionRunner, with the writers as the only producers.
ProjectStep ==
    /\ \/ \E w \in Worker : WorkerAction(w) \/ Crash(w) \/ Restart(w)
       \/ SetStop
       \/ Operate
       \/ Tick
       \/ SlowTick
    /\ UNCHANGED <<source, tx>>

LNext ==
    \/ ProjectStep
    \/ \E w \in Writer : Mutate(w) \/ PutIntent(w) \/ Commit(w) \/ Rollback(w)

LSpec == LInit /\ [][LNext]_lvars

(***************************************************************************)
(* The host keeps its workers running until it asks them to stop and       *)
(* restarts the ones that died; clocks go on.  Nothing forces a writer to  *)
(* begin or to commit, the operator, a stop, or a fault.                   *)
(***************************************************************************)
LFairness ==
    /\ \A w \in Worker :
          /\ WF_lvars(WorkerAction(w) /\ UNCHANGED <<source, tx>>)
          /\ WF_lvars(Restart(w) /\ UNCHANGED <<source, tx>>)
    /\ WF_lvars(Tick /\ UNCHANGED <<source, tx>>)

FairLSpec == LSpec /\ LFairness

--------------------------------------------------------------------------------
\* make_projector upserts one row for each source key and version.
Rows(k) == {[version |-> d.source_version, deleted |-> d \in Tombstone] :
              d \in {e \in target : e.partition_key = k}}

FaultyLatestVisible(k) ==  \* removes tombstones before it takes the latest
    {r \in Rows(k) : ~r.deleted /\ \A q \in Rows(k) : ~q.deleted => q.version <= r.version}

\* The largest version, unless it is a tombstone: a set of one row or none.
LatestVisible(k) ==
    {r \in Rows(k) : ~r.deleted /\ \A q \in Rows(k) : q.version <= r.version}

(***************************************************************************)
(* A mutation and its intent are committed together or not at all: each    *)
(* source row is at version n exactly if every version up to n has one     *)
(* intent in the outbox and no later one has any, and the last of them     *)
(* tells whether the row is deleted, however transactions that were built  *)
(* on the same version race, are retried, raise half way or die.           *)
(***************************************************************************)
MutationWithIntent ==
    /\ \A d, e \in Data :
          Present(d) /\ Present(e) =>
             /\ d.source_version \in 1..source[d.partition_key].version
             /\ d.partition_key = e.partition_key /\ d.source_version = e.source_version => d = e
    /\ \A k \in Partition : \A v \in 1..source[k].version :
          \E d \in Data : /\ Present(d) /\ d.partition_key = k /\ d.source_version = v
                          /\ v = source[k].version => (source[k].deleted <=> d \in Tombstone)

(***************************************************************************)
(* Readers keep up with the checkpoint and never go back behind it: once   *)
(* an intent is completed, latest_visible shows its version or a later one *)
(* or hides the row because of a tombstone as late, whatever older version *)
(* is replayed, in whatever order the outbox delivered them.  What it      *)
(* shows has been committed.                                               *)
(***************************************************************************)
ReadsFollowCheckpoint ==
    \A d \in Data :
        LET k == d.partition_key IN
        Completed(d) =>
            /\ \A r \in LatestVisible(k) : r.version \in d.source_version..source[k].version
            /\ LatestVisible(k) = {} =>
                  \E e \in Tombstone : /\ Present(e) /\ e.partition_key = k
                                       /\ e.source_version >= d.source_version

(***************************************************************************)
(* Once the writers pause, every intent of a key is completed and what     *)
(* readers see of the key is what the source holds, from some time on,     *)
(* unless an intent of it is in quarantine or the workers were told to     *)
(* stop: lost leases, crashes and failing attempts only delay it.          *)
(***************************************************************************)
EventuallyVisible ==
    \A k \in Partition :
        <>[](\/ /\ LatestVisible(k) = {r \in {source[k]} : ~r.deleted}
                /\ \A d \in Data : d.partition_key = k /\ Present(d) => Completed(d)
             \/ stop
             \/ \E d \in Data : d.partition_key = k /\ records[d].state = "QUARANTINED")
================================================================================
