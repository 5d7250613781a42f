------------------------------ MODULE MCLifecycle ------------------------------
(***************************************************************************)
(* A writer whose mutations may be stale, two workers behind it.           *)
(***************************************************************************)
EXTENDS Lifecycle

Intent(id, k, at, version) ==
    [event_id |-> id, partition_key |-> k, occurred_at |-> at, source_version |-> version]

\* Version 1 of a row, and its deletion by a caller whose clock was behind.
MCData      == {Intent(1, "k1", 2, 1), Intent(2, "k1", 1, 2)}
MCTombstone == {Intent(2, "k1", 1, 2)}

MCPartition == {"k1"}
MCVersion   == {1, 2}
MCTime      == 0..12
MCOwnerOf   == [w \in Worker |-> w]
================================================================================
