---------------------------- MODULE MCDynocHang ----------------------------
(***************************************************************************)
(* DynocHang on the topologies of MCDynocPool.                             *)
(***************************************************************************)
EXTENDS DynocHang, MCDynocPool

OnlyLocal == {LOCAL_DC}
TwoNodes == [r \in Racks |-> 2]
============================================================================
