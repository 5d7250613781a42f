------------------------------- MODULE MCOutbox -------------------------------
(***************************************************************************)
(* The outbox on small instances.  In MCData partition p1 has three        *)
(* intents, two of them with the same time of occurrence and one without a *)
(* source version; p2 has one, with an event id p1 also uses, so the       *)
(* second of the two appends is a conflict.  MCFewData drops one of p1's:  *)
(* enough where appends come in any order.                                 *)
(***************************************************************************)
EXTENDS Outbox, TLC

CONSTANTS
    MaxAttempts, \* bound on attempt_count
    MaxRevision  \* bound on checkpoint revisions

Intent(id, p, at, version) ==
    [event_id |-> id, partition_key |-> p, occurred_at |-> at, source_version |-> version]

MCData ==
    { Intent(2, "p1", 1, 1), Intent(1, "p1", 2, None),
      Intent(3, "p1", 2, 2), Intent(3, "p2", 1, 1) }

MCFewData == MCData \ {Intent(1, "p1", 2, None)}

MCPartition == {"p1", "p2"}
MCVersion   == {1, 2, None}
MCTime      == 0..2

Bounded ==
    /\ \A d \in Data : records[d].attempt_count <= MaxAttempts
    /\ \A p \in Partition : checkpoints[p].revision <= MaxRevision

Symmetry == Permutations(Owner) \cup Permutations(Fingerprint)

MCSpec        == Init /\ [][Next /\ Bounded']_vars
MCOrderedSpec == Init /\ [][OrderedNext /\ Bounded']_vars
================================================================================
