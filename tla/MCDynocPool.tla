---------------------------- MODULE MCDynocPool ----------------------------
(***************************************************************************)
(* Topologies for model checking DynocPool.                                *)
(***************************************************************************)
EXTENDS DynocPool, TLC

BothDCs   == {LOCAL_DC, REMOTE_DC}

\* Two local racks and one remote rack, one node each.
Failover_RackCount == [d \in DCs |-> IF d = LOCAL_DC THEN 2 ELSE 1]
OneNode == [r \in Racks |-> 1]
RouteFirst == [k \in Keys |-> [r \in Racks |-> 0]]

\* One rack per datacenter: two nodes and one slot never filled in the local
\* one, one node in the remote one.  Key 0 belongs to the first node of each
\* rack, key 1 to the last one.
OneRack == [d \in DCs |-> 1]
Ring_NodeCount == [r \in Racks |-> IF r[1] = LOCAL_DC THEN 3 ELSE 1]
Ring_NContinuum == [r \in Racks |-> IF r[1] = LOCAL_DC THEN 2 ELSE 1]
RouteEnds == [k \in Keys |-> [r \in Racks |-> IF k = 0 THEN 0 ELSE NContinuum[r] - 1]]

\* One local rack and two remote racks, as in multi-thread-example.c.
Example_RackCount == [d \in DCs |-> IF d = LOCAL_DC THEN 1 ELSE 2]

NoSlots == {}
FirstLocal == {<<LOCAL_DC, 0, 0>>}

Symmetry == Permutations(Clients)
============================================================================
