------------------------------- MODULE MCCache -------------------------------
(***************************************************************************)
(* Threads and callers around one cache coordinator.                       *)
(***************************************************************************)
EXTENDS CacheCoordinator, TLC

MCAtLeast == [enabled : {TRUE}, strategy : {"at-least"}, fallback : {TRUE}, negative : {TRUE}]

\* The policies that differ in what a read may do.
MCPolicies == [enabled : {TRUE}, strategy : {"exact"}, fallback : {TRUE}, negative : {TRUE}]
              \cup [enabled : BOOLEAN, strategy : {"none"}, fallback : {FALSE}, negative : {FALSE}]

Symmetry == Permutations(Reader) \cup Permutations(Key) \cup Permutations(Client)
================================================================================
