------------------------------ MODULE MCMigration ------------------------------
(***************************************************************************)
(* Two executors on one binding.                                           *)
(***************************************************************************)
EXTENDS MigrationExecutor, TLC

CONSTANTS e1, e2, x1, x2

MCShared == [x \in Executor |-> Execution]
MCOwn    == x1 :> {e1} @@ x2 :> {e2}

Symmetry == Permutations(Bundle) \cup Permutations(Executor) \cup Permutations(Execution)
================================================================================
