-------------------------- MODULE MCDynocShutdown --------------------------
(***************************************************************************)
(* DynocShutdown on the topologies of MCDynocPool.                         *)
(***************************************************************************)
EXTENDS DynocShutdown, MCDynocPool

\* One local rack with two nodes, one remote rack with one node.
ThreeNodes == [r \in Racks |-> IF r[1] = LOCAL_DC THEN 2 ELSE 1]
============================================================================
