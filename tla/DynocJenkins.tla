---------------------------- MODULE DynocJenkins ----------------------------
(***************************************************************************)
(* How hash_jenkins reads a key: in 32-bit words, in 16-bit words or byte  *)
(* by byte, depending on where the caller's buffer lies, on a little       *)
(* endian machine.  Mixing is a function of what was added to a, b and c   *)
(* before it, so a block is the set of bytes added, each with the variable *)
(* and the shift: dynoc clients agree on the owner of a key only if the    *)
(* three branches build the same blocks.                                   *)
(***************************************************************************)
EXTENDS Naturals, Sequences, FiniteSets

CONSTANT MaxLength      \* bound: length of the key

VARIABLES
    address,    \* the key's address modulo the word size
    size,       \* length of the key
    k,          \* bytes by which the pointer k has advanced
    length,
    blocks,     \* what was added before each mix(a,b,c) and final(a,b,c)
    reads,      \* the bytes read, counted from the start of the key
    pc

vars == <<address, size, k, length, blocks, reads, pc>>

(* `to += (bytes [at, at + len) & mask) << shift`, the mask leaving the    *)
(* low `keep` bytes.                                                       *)
Load(to, at, len, keep, shift) ==
    [to |-> to, at |-> at, len |-> len, keep |-> keep, shift |-> shift]
Byte(to, at, shift) == Load(to, at, 1, 1, shift)
Half(to, at, shift) == Load(to, at, 2, 2, shift)
Halves(to, at) == {Half(to, at, 0), Half(to, at + 2, 16)}
Bytes(to, at) == {Byte(to, at, 0), Byte(to, at + 1, 8), Byte(to, at + 2, 16), Byte(to, at + 3, 24)}

Added(loads) ==
    UNION {{<<x.to, k + x.at + j, x.shift + 8 * j>> : j \in 0..(x.keep - 1)} : x \in loads}
Touched(loads) == UNION {{k + x.at + j : j \in 0..(x.len - 1)} : x \in loads}

(* A switch whose cases fall through: statements in source order, each     *)
(* with its label and whether a break follows.                             *)
Case(label, loads, break) == [label |-> label, loads |-> loads, break |-> break]
Switch(cases, label) ==
    UNION {cases[n].loads : n \in
        {m \in DOMAIN cases :
            /\ cases[m].label <= label
            /\ \A l \in DOMAIN cases :
                  cases[l].label <= label /\ l < m => ~cases[l].break}}

-----------------------------------------------------------------------------
(* The aligned branch: how many bytes of k[0], k[1], k[2] each case keeps. *)
WordKeeps ==
    << <<1, 0, 0>>, <<2, 0, 0>>, <<3, 0, 0>>, <<4, 0, 0>>,
       <<4, 1, 0>>, <<4, 2, 0>>, <<4, 3, 0>>, <<4, 4, 0>>,
       <<4, 4, 1>>, <<4, 4, 2>>, <<4, 4, 3>>, <<4, 4, 4>> >>
WordLoads(n) ==
    LET to == <<"a", "b", "c">> IN
    {Load(to[v], 4 * (v - 1), 4, WordKeeps[n][v], 0) :
        v \in {u \in 1..3 : WordKeeps[n][u] > 0}}

(* Mutant: a break after case 9.                                           *)
HalfLoads_Break9(n) ==
    LET ab == Halves("a", 0) \cup Halves("b", 4) IN
    Switch(<<
        Case(12, ab \cup Halves("c", 8), TRUE),
        Case(11, {Byte("c", 10, 16)}, FALSE),
        Case(10, ab \cup {Half("c", 8, 0)}, TRUE),
        Case(9,  {Byte("c", 8, 0)}, TRUE),
        Case(8,  ab, TRUE),
        Case(7,  {Byte("b", 6, 16)}, FALSE),
        Case(6,  Halves("a", 0) \cup {Half("b", 4, 0)}, TRUE),
        Case(5,  {Byte("b", 4, 0)}, FALSE),
        Case(4,  Halves("a", 0), TRUE),
        Case(3,  {Byte("a", 2, 16)}, FALSE),
        Case(2,  {Half("a", 0, 0)}, TRUE),
        Case(1,  {Byte("a", 0, 0)}, TRUE) >>, n)

HalfLoads(n) ==
    LET ab == Halves("a", 0) \cup Halves("b", 4) IN
    Switch(<<
        Case(12, ab \cup Halves("c", 8), TRUE),
        Case(11, {Byte("c", 10, 16)}, FALSE),
        Case(10, ab \cup {Half("c", 8, 0)}, TRUE),
        Case(9,  {Byte("c", 8, 0)}, FALSE),
        Case(8,  ab, TRUE),
        Case(7,  {Byte("b", 6, 16)}, FALSE),
        Case(6,  Halves("a", 0) \cup {Half("b", 4, 0)}, TRUE),
        Case(5,  {Byte("b", 4, 0)}, FALSE),
        Case(4,  Halves("a", 0), TRUE),
        Case(3,  {Byte("a", 2, 16)}, FALSE),
        Case(2,  {Half("a", 0, 0)}, TRUE),
        Case(1,  {Byte("a", 0, 0)}, TRUE) >>, n)

ByteLoads(n) ==
    LET order == [m \in 1..12 |->
            LET i == 12 - m IN
            Byte(<<"a", "b", "c">>[i \div 4 + 1], i, 8 * (i % 4))] IN
    Switch([m \in 1..12 |-> Case(13 - m, {order[m]}, m = 12)], n)

(* Mutant: the test for 16-bit alignment chooses the 32-bit loads.         *)
WordAligned_Even == address % 2 = 0

WordAligned == address % 4 = 0          \* (u.i & 0x3) == 0
HalfAligned == address % 2 = 0          \* (u.i & 0x1) == 0

WholeBlock ==
    IF WordAligned THEN {Load("a", 0, 4, 4, 0), Load("b", 4, 4, 4, 0), Load("c", 8, 4, 4, 0)}
    ELSE IF HalfAligned THEN Halves("a", 0) \cup Halves("b", 4) \cup Halves("c", 8)
    ELSE Bytes("a", 0) \cup Bytes("b", 4) \cup Bytes("c", 8)

LastBlock(n) ==
    IF WordAligned THEN WordLoads(n)
    ELSE IF HalfAligned THEN HalfLoads(n)
    ELSE ByteLoads(n)

Block(mixer, loads) ==
    /\ blocks' = Append(blocks, [mixer |-> mixer, added |-> Added(loads)])
    /\ reads' = reads \cup Touched(loads)

-----------------------------------------------------------------------------
Init ==
    /\ address \in 0..3 /\ size \in 0..MaxLength
    /\ k = 0 /\ length = size
    /\ blocks = <<>> /\ reads = {}
    /\ pc = "loop"

(* One turn of `while (length > 12)`.                                      *)
Mix ==
    /\ pc = "loop" /\ length > 12
    /\ Block("mix", WholeBlock)
    /\ length' = length - 12 /\ k' = k + 12
    /\ UNCHANGED <<address, size, pc>>

Final ==
    /\ pc = "loop" /\ length \in 1..12
    /\ Block("final", LastBlock(length))
    /\ pc' = "done"
    /\ UNCHANGED <<address, size, k, length>>

(* case 0: `return c`, without final(a,b,c).                               *)
ReturnUnmixed ==
    /\ pc = "loop" /\ length = 0
    /\ pc' = "done"
    /\ UNCHANGED <<address, size, k, length, blocks, reads>>

Next == Mix \/ Final \/ ReturnUnmixed

Spec == Init /\ [][Next]_vars

-----------------------------------------------------------------------------
TypeOK ==
    /\ address \in 0..3 /\ size \in 0..MaxLength
    /\ k \in 0..size /\ length \in 0..size
    /\ \A n \in DOMAIN blocks :
          /\ blocks[n].mixer \in {"mix", "final"}
          /\ blocks[n].added \subseteq {"a", "b", "c"} \X (0..(size - 1)) \X {0, 8, 16, 24}
    /\ pc \in {"loop", "done"}

(* The hash depends on the key and not on where it lies: in every branch,  *)
(* through every fall-through, each byte of the key is added exactly once, *)
(* in the twelve-byte block, the variable and the place that it has on a   *)
(* little endian machine; the last block, and only it, goes to final.      *)
KeyBytes(n) == {i \in 0..(size - 1) : i \div 12 = n - 1}
AlignmentIrrelevant ==
    pc = "done" =>
        blocks = [n \in 1..((size + 11) \div 12) |->
                    [mixer |-> IF 12 * n >= size THEN "final" ELSE "mix",
                     added |-> {<<<<"a", "b", "c">>[(i % 12) \div 4 + 1], i, 8 * (i % 4)>> :
                                   i \in KeyBytes(n)}]]

(* hash-jenkins.c:100-108: the loads that reach beyond the key stay inside *)
(* an aligned word that holds a byte of the key, so they cannot fault; the *)
(* other branches read nothing but the key.                                *)
ReadsStayInWord ==
    \A b \in reads :
        \/ b < size
        \/ address = 0 /\ \E i \in 0..(size - 1) : (address + i) \div 4 = (address + b) \div 4
=============================================================================
