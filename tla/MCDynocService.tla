--------------------------- MODULE MCDynocService ---------------------------
(***************************************************************************)
(* DynocPoolService on one rack with two nodes and a slot that was never   *)
(* filled; the server of the second node rejects its password.             *)
(***************************************************************************)
EXTENDS DynocPoolService, MCDynocPool

OnlyLocal == {LOCAL_DC}
ThreeSlots == [r \in Racks |-> 3]
TwoNodes == [r \in Racks |-> 2]
SecondLocal == {<<LOCAL_DC, 0, 1>>}
============================================================================
