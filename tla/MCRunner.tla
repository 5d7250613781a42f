------------------------------- MODULE MCRunner -------------------------------
(***************************************************************************)
(* Two workers on a small outbox.                                          *)
(***************************************************************************)
EXTENDS ProjectionRunner, TLC

Intent(id, p, at, version) ==
    [event_id |-> id, partition_key |-> p, occurred_at |-> at, source_version |-> version]

\* One partition with two versioned intents, and an unversioned one beside it.
MCData == {Intent(1, "p1", 1, 1), Intent(2, "p1", 2, 2), Intent(3, "p2", 1, None)}

MCPartition == {"p1", "p2"}
MCVersion   == {1, 2, None}
MCTime      == 0..12
MCOwnerOf   == [w \in Worker |-> w]

Symmetry == Permutations(Worker)
================================================================================
