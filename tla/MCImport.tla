------------------------------- MODULE MCImport -------------------------------
(***************************************************************************)
(* Imports of two exports of the same ids.                                 *)
(***************************************************************************)
EXTENDS LogicalImport

R(id, version) == [logical_id |-> id, version |-> version]

OldExport == << <<R(1, 1), R(2, 1)>>, <<R(3, 1)>> >>
NewExport == << <<R(1, 2), R(2, 1)>> >>
MCExports == {OldExport, NewExport}

\* Another version, a truncated or reordered artifact, one with a bad tail.
MCDamage ==
    {<<R(1, 2), R(2, 2)>>, <<R(1, 1)>>, <<R(2, 1), R(1, 1)>>, <<R(1, 1), Garbage>>}
================================================================================
