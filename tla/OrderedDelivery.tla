---------------------------- MODULE OrderedDelivery ----------------------------
(***************************************************************************)
(* What the transactional outbox promises its users: every intent of one   *)
(* source identity (one partition) is delivered once, in order, and the    *)
(* partition's checkpoint names the last intent delivered.  Claims,        *)
(* leases, owners, clocks, attempts and quarantine are all absent here.    *)
(***************************************************************************)
EXTENDS Naturals

CONSTANTS
    Data,      \* the intents producers may publish
    Partition, \* the partition keys
    None       \* "no intent delivered yet"

VARIABLES
    published, \* intents committed with their source mutation
    delivered, \* intents whose projection is complete
    position   \* position[p]: the intent the checkpoint of p names

vars == <<published, delivered, position>>

(***************************************************************************)
(* Intents are ordered by time of occurrence, ties broken by event id.     *)
(***************************************************************************)
Before(d, e) ==
    \/ d.occurred_at < e.occurred_at
    \/ d.occurred_at = e.occurred_at /\ d.event_id < e.event_id

Earlier(d, e) == d.partition_key = e.partition_key /\ Before(d, e)

Init ==
    /\ published = {}
    /\ delivered = {}
    /\ position = [p \in Partition |-> None]

(***************************************************************************)
(* A producer publishes an intent behind those of its partition.           *)
(***************************************************************************)
Publish(d) ==
    /\ \A e \in published : d.event_id # e.event_id
    /\ \A e \in published : e.partition_key = d.partition_key => Before(e, d)
    /\ published' = published \cup {d}
    /\ UNCHANGED <<delivered, position>>

(***************************************************************************)
(* The oldest undelivered intent of a partition is delivered.              *)
(***************************************************************************)
Deliver(d) ==
    /\ d \in published \ delivered
    /\ \A e \in published : Earlier(e, d) => e \in delivered
    /\ delivered' = delivered \cup {d}
    /\ position' = [position EXCEPT ![d.partition_key] = d]
    /\ UNCHANGED published

Next == \E d \in Data : Publish(d) \/ Deliver(d)

Spec == Init /\ [][Next]_vars
================================================================================
