------------------------------- MODULE MCExport -------------------------------
(***************************************************************************)
(* Two exports of two partitions that share the sink.                      *)
(***************************************************************************)
EXTENDS LogicalExport, TLC

TwoPartitions == <<"p1", "p2">>
InTwo         == [i \in Id |-> IF i <= 2 THEN "p1" ELSE "p2"]

Symmetry == Permutations(Exporter)
================================================================================
