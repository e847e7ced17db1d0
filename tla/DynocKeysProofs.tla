-------------------------- MODULE DynocKeysProofs --------------------------
(***************************************************************************)
(* What hash_jenkins, hash_md5 and token_parse do with an input of any     *)
(* length: which bytes are read and where they go.                         *)
(***************************************************************************)
EXTENDS DynocKeys, WellFoundedInduction, TLAPS

-----------------------------------------------------------------------------
(***************************************************************************)
(* Induction over the natural numbers, and the functions defined by it.    *)
(* The relation < is well founded, so a set of numbers without a least one *)
(* is empty; induction follows for a set S in place of a predicate, and    *)
(* with it what a recursive function of the model is.                      *)
(***************************************************************************)
Below == {ss \in Nat \X Nat : ss[1] < ss[2]}
LEMMA Least ==
    ASSUME NEW T, T \subseteq Nat, T # {}
    PROVE  \E x \in T : \A y \in T : x <= y
<1>1. IsWellFoundedOn(Below, Nat)
  BY NatLessThanWellFounded DEF OpToRel, Below
<1>2. PICK x \in T : \A y \in T : ~(<<y, x>> \in Below)
  BY <1>1, WFMin
<1>3. ASSUME NEW y \in T PROVE x <= y
  <2>1. <<y, x>> \notin Below
    BY <1>2
  <2>2. ~(y < x)
    BY <2>1 DEF Below
  <2> QED BY <2>2
<1> QED BY <1>3

LEMMA Induction ==
    ASSUME NEW S, 0 \in S, \A n \in Nat : n \in S => n + 1 \in S
    PROVE  Nat \subseteq S
<1> DEFINE T == Nat \ S
<1> SUFFICES ASSUME T # {} PROVE FALSE
  OBVIOUS
<1>1. PICK x \in T : \A y \in T : x <= y
  BY Least
<1>2. x # 0 /\ x - 1 \in Nat
  BY <1>1
<1>3. x - 1 \in S
  BY <1>1, <1>2
<1>4. (x - 1) + 1 \in S
  BY <1>2, <1>3
<1> QED BY <1>1, <1>2, <1>4

(* Induction up to a bound.                                                *)
LEMMA InductionTo ==
    ASSUME NEW n \in Nat, NEW S, 0 \in S, \A i \in 1..n : i - 1 \in S => i \in S
    PROVE  \A i \in 0..n : i \in S
<1> DEFINE T == {i \in Nat : i <= n => i \in S}
<1>1. 0 \in T
  OBVIOUS
<1>2. ASSUME NEW i \in Nat, i \in T PROVE i + 1 \in T
  <2>1. CASE i + 1 <= n
    <3>1. i + 1 \in 1..n /\ (i + 1) - 1 = i /\ i \in S
      BY <1>2, <2>1
    <3>2. i + 1 \in S
      BY <3>1
    <3> QED BY <3>2
  <2>2. CASE ~(i + 1 <= n)
    BY <2>2
  <2> QED BY <2>1, <2>2
<1>3. Nat \subseteq T
  <2> HIDE DEF T
  <2> QED BY <1>1, <1>2, Induction
<1> QED BY <1>3

(* A function that starts at c and goes on by one step after the other     *)
(* exists.                                                                 *)
Steps(n, S) == [1..n -> [S -> S]]
Follows(f, n, S, c, step) ==
    f \in [0..n -> S] /\ f[0] = c /\ \A i \in 1..n : f[i] = step[i][f[i - 1]]

LEMMA Recursion ==
    ASSUME NEW n \in Nat, NEW S, NEW c \in S, NEW step \in Steps(n, S)
    PROVE  \E f : Follows(f, n, S, c, step)
<1> USE DEF Steps
<1> DEFINE T == {m \in 0..n : \E f \in [0..m -> S] : f[0] = c /\ \A i \in 1..m : f[i] = step[i][f[i - 1]]}
<1>1. 0 \in T
  <2> DEFINE g == [i \in 0..0 |-> c]
  <2>1. g \in [0..0 -> S] /\ g[0] = c /\ \A i \in 1..0 : g[i] = step[i][g[i - 1]]
    OBVIOUS
  <2> HIDE DEF g
  <2> QED BY <2>1
<1>2. ASSUME NEW m \in 1..n, m - 1 \in T PROVE m \in T
  <2>1. PICK f \in [0..(m - 1) -> S] : f[0] = c /\ \A i \in 1..(m - 1) : f[i] = step[i][f[i - 1]]
    BY <1>2
  <2>2. m - 1 \in 0..(m - 1) /\ f[m - 1] \in S /\ step[m] \in [S -> S]
    BY <1>2, <2>1
  <2> DEFINE v == step[m][f[m - 1]]
             g == [i \in 0..m |-> IF i = m THEN v ELSE f[i]]
  <2>3. v \in S
    BY <2>2
  <2> HIDE DEF v
  <2>4. g \in [0..m -> S] /\ g[m] = v /\ \A i \in 0..(m - 1) : g[i] = f[i]
    BY <2>3
  <2> HIDE DEF g
  <2>5. g[0] = c
    BY <2>1, <2>4
  <2>6. ASSUME NEW i \in 1..m PROVE g[i] = step[i][g[i - 1]]
    <3>1. i - 1 \in 0..(m - 1) /\ g[i - 1] = f[i - 1]
      BY <2>4
    <3>2. CASE i = m
      BY <3>1, <3>2, <2>4 DEF v
    <3>3. CASE i # m
      <4>1. i \in 1..(m - 1) /\ i \in 0..(m - 1)
        BY <3>3
      <4>2. g[i] = f[i] /\ f[i] = step[i][f[i - 1]]
        BY <4>1, <2>1, <2>4
      <4> QED BY <4>2, <3>1
    <3> QED BY <3>2, <3>3
  <2>7. \E e \in [0..m -> S] : e[0] = c /\ \A i \in 1..m : e[i] = step[i][e[i - 1]]
    <3> HIDE DEF T
    <3> QED BY <2>4, <2>5, <2>6, Zenon
  <2>8. m \in 0..n
    OBVIOUS
  <2> QED BY <2>7, <2>8, Zenon
<1>3. \A m \in 0..n : m \in T
  <2> HIDE DEF T
  <2> QED BY <1>1, <1>2, InductionTo
<1>4. n \in T
  <2> HIDE DEF T
  <2> QED BY <1>3
<1>5. \E f \in [0..n -> S] : f[0] = c /\ \A i \in 1..n : f[i] = step[i][f[i - 1]]
  BY <1>4, Zenon
<1> QED BY <1>5, Zenon DEF Follows

(* What goes on by those steps as long as it stays in S does stay in S.    *)
LEMMA StaysIn ==
    ASSUME NEW n \in Nat, NEW S, NEW c \in S, NEW step \in Steps(n, S),
           NEW g, g = [i \in 0..n |-> g[i]], g[0] = c,
           \A i \in 1..n : g[i - 1] \in S => g[i] = step[i][g[i - 1]]
    PROVE  Follows(g, n, S, c, step)
<1> DEFINE T == {i \in 0..n : g[i] \in S}
<1>1. 0 \in T
  OBVIOUS
<1>2. ASSUME NEW i \in 1..n, i - 1 \in T PROVE i \in T
  <2>1. g[i - 1] \in S /\ i \in 0..n
    BY <1>2
  <2>2. step[i][g[i - 1]] \in S
    BY <2>1 DEF Steps
  <2>3. g[i] \in S
    BY <2>1, <2>2
  <2> QED BY <2>1, <2>3
<1>3. \A i \in 0..n : i \in T
  <2> HIDE DEF T
  <2> QED BY <1>1, <1>2, InductionTo
<1>4. \A i \in 1..n : g[i] = step[i][g[i - 1]]
  <2>1. ASSUME NEW i \in 1..n PROVE g[i] = step[i][g[i - 1]]
    <3>1. i - 1 \in T
      <4> HIDE DEF T
      <4>1. i - 1 \in 0..n
        OBVIOUS
      <4> QED BY <1>3, <4>1
    <3> QED BY <3>1
  <2> QED BY <2>1
<1>5. g \in [0..n -> S]
  BY <1>3
<1> QED BY <1>4, <1>5 DEF Follows

-----------------------------------------------------------------------------
(* hash_jenkins.  Where byte i of the key belongs: the variable, the byte, *)
(* the shift.                                                              *)
Registers == <<"a", "b", "c">>
Place(i) == <<Registers[(i % 12) \div 4 + 1], i, 8 * (i % 4)>>
Places(I) == {Place(i) : i \in I}

(* n bytes of the key from k + first on.                                   *)
From(first, n) == (k + first)..(k + first + n - 1)

(* k is at a multiple of the block size.                                   *)
AtBlock == \E m \in Nat : k = 12 * m

(* The loads add those bytes, each where it belongs, and read no others.   *)
Covers(loads, first, n) ==
    /\ Jenkins!Added(loads) = Places(From(first, n))
    /\ Jenkins!Touched(loads) = From(first, n)

LEMMA LoadsUnion ==
    ASSUME NEW A, NEW B
    PROVE  /\ Jenkins!Added(A \cup B) = Jenkins!Added(A) \cup Jenkins!Added(B)
           /\ Jenkins!Touched(A \cup B) = Jenkins!Touched(A) \cup Jenkins!Touched(B)
BY DEF Jenkins!Added, Jenkins!Touched

LEMMA PlacesUnion ==
    ASSUME NEW I, NEW J
    PROVE  Places(I \cup J) = Places(I) \cup Places(J)
BY DEF Places

LEMMA FromUnion ==
    ASSUME k \in Nat, NEW f \in Nat, NEW n \in Nat, NEW m \in Nat
    PROVE  From(f, n) \cup From(f + n, m) = From(f, n + m)
BY DEF From

LEMMA CoversUnion ==
    ASSUME k \in Nat, NEW A, NEW B, NEW f \in Nat, NEW n \in Nat, NEW m \in Nat, NEW g, NEW l,
           Covers(A, f, n), Covers(B, g, m), g = f + n, l = n + m
    PROVE  Covers(A \cup B, f, l)
<1>1. From(f, n) \cup From(f + n, m) = From(f, n + m)
  BY FromUnion
<1>2. Places(From(f, n)) \cup Places(From(f + n, m)) = Places(From(f, n + m))
  BY <1>1, PlacesUnion
<1>3. /\ Jenkins!Added(A \cup B) = Places(From(f, n)) \cup Places(From(f + n, m))
      /\ Jenkins!Touched(A \cup B) = From(f, n) \cup From(f + n, m)
  <2>1. /\ Jenkins!Added(A \cup B) = Jenkins!Added(A) \cup Jenkins!Added(B)
        /\ Jenkins!Touched(A \cup B) = Jenkins!Touched(A) \cup Jenkins!Touched(B)
    BY LoadsUnion
  <2>2. /\ Jenkins!Added(A) = Places(From(f, n)) /\ Jenkins!Touched(A) = From(f, n)
        /\ Jenkins!Added(B) = Places(From(f + n, m)) /\ Jenkins!Touched(B) = From(f + n, m)
    BY Zenon DEF Covers
  <2> QED BY <2>1, <2>2
<1> QED BY <1>1, <1>2, <1>3, Zenon DEF Covers

(* What one load adds: the bytes it keeps, each where it belongs.          *)
LEMMA LoadAdds ==
    ASSUME AtBlock, NEW f \in 0..11, NEW len \in Nat, NEW keep \in 0..4, (f % 4) + keep <= 4
    PROVE  LET x == Jenkins!Load(Registers[f \div 4 + 1], f, len, keep, 8 * (f % 4)) IN
           /\ Jenkins!Added({x}) = Places(From(f, keep))
           /\ Jenkins!Touched({x}) = From(f, len)
<1>1. PICK m \in Nat : k = 12 * m
  BY DEF AtBlock
<1> DEFINE to == Registers[f \div 4 + 1]
           x == Jenkins!Load(to, f, len, keep, 8 * (f % 4))
<1>2. /\ x.to = to /\ x.at = f /\ x.len = len /\ x.keep = keep /\ x.shift = 8 * (f % 4)
  BY DEF Jenkins!Load
<1> HIDE DEF x
<1>3. Jenkins!Added({x}) = {<<to, k + f + j, 8 * (f % 4) + 8 * j>> : j \in 0..(keep - 1)}
  BY <1>2 DEF Jenkins!Added
<1>4. ASSUME NEW j \in 0..(keep - 1)
      PROVE  Place(k + f + j) = <<to, k + f + j, 8 * (f % 4) + 8 * j>> /\ k + f + j \in From(f, keep)
  <2>1. (k + f + j) % 12 = f + j /\ (f + j) \div 4 = f \div 4 /\ (k + f + j) % 4 = (f % 4) + j
    BY <1>1
  <2>2. 8 * ((f % 4) + j) = 8 * (f % 4) + 8 * j
    OBVIOUS
  <2>3. k + f + j \in From(f, keep)
    BY <1>1 DEF From
  <2> QED BY <2>1, <2>2, <2>3 DEF Place
<1>5. ASSUME NEW i \in From(f, keep)
      PROVE  \E j \in 0..(keep - 1) : i = k + f + j
  <2>1. i - (k + f) \in 0..(keep - 1) /\ i = k + f + (i - (k + f))
    BY <1>1 DEF From
  <2> QED BY <2>1
<1>6. Jenkins!Added({x}) \subseteq Places(From(f, keep))
  BY <1>3, <1>4 DEF Places
<1>7. Places(From(f, keep)) \subseteq Jenkins!Added({x})
  BY <1>3, <1>4, <1>5 DEF Places
<1>8. Jenkins!Touched({x}) = From(f, len)
  <2>1. Jenkins!Touched({x}) = {k + f + j : j \in 0..(len - 1)}
    BY <1>2 DEF Jenkins!Touched
  <2>2. ASSUME NEW i \in From(f, len) PROVE \E j \in 0..(len - 1) : i = k + f + j
    <3>1. i - (k + f) \in 0..(len - 1) /\ i = k + f + (i - (k + f))
      BY <1>1 DEF From
    <3> QED BY <3>1
  <2>3. \A j \in 0..(len - 1) : k + f + j \in From(f, len)
    BY <1>1 DEF From
  <2> QED BY <2>1, <2>2, <2>3
<1> QED BY <1>6, <1>7, <1>8 DEF x

LEMMA LoadCovers ==
    ASSUME AtBlock, NEW f \in 0..11, NEW n \in 0..4, (f % 4) + n <= 4,
           NEW to, to = Registers[f \div 4 + 1], NEW shift, shift = 8 * (f % 4)
    PROVE  Covers({Jenkins!Load(to, f, n, n, shift)}, f, n)
<1>1. n \in Nat
  OBVIOUS
<1> QED BY <1>1, LoadAdds DEF Covers

(* Loads of one, two and four bytes, none of them masked.                  *)
LEMMA ByteCovers ==
    ASSUME AtBlock, NEW f \in 0..11,
           NEW to, to = Registers[f \div 4 + 1], NEW shift, shift = 8 * (f % 4)
    PROVE  Covers({Jenkins!Byte(to, f, shift)}, f, 1)
<1>1. (f % 4) + 1 <= 4
  OBVIOUS
<1> QED BY <1>1, LoadCovers DEF Jenkins!Byte

LEMMA HalfCovers ==
    ASSUME AtBlock, NEW f \in {0, 2, 4, 6, 8, 10},
           NEW to, to = Registers[f \div 4 + 1], NEW shift, shift = 8 * (f % 4)
    PROVE  Covers({Jenkins!Half(to, f, shift)}, f, 2)
<1>1. f \in 0..11 /\ (f % 4) + 2 <= 4
  OBVIOUS
<1> QED BY <1>1, LoadCovers DEF Jenkins!Half

LEMMA WordCovers ==
    ASSUME AtBlock, NEW f \in {0, 4, 8}, NEW to, to = Registers[f \div 4 + 1]
    PROVE  /\ Covers({Jenkins!Load(to, f, 4, 4, 0)}, f, 4)
           /\ Covers(Jenkins!Halves(to, f), f, 4)
           /\ Covers(Jenkins!Bytes(to, f), f, 4)
<1>0. k \in Nat
  BY DEF AtBlock
<1>1. /\ f \in 0..11 /\ f % 4 = 0 /\ (f % 4) + 4 <= 4 /\ 8 * (f % 4) = 0
      /\ f + 2 \in {2, 6, 10} /\ (f + 2) \div 4 = f \div 4 /\ 8 * ((f + 2) % 4) = 16
  OBVIOUS
<1>2. Covers({Jenkins!Load(to, f, 4, 4, 0)}, f, 4)
  BY <1>1, LoadCovers
<1>3. ASSUME NEW A, NEW B, NEW n \in 1..3, NEW m \in 1..3, NEW g, NEW l, g = f + n, l = n + m,
             Covers(A, f, n), Covers(B, g, m)
      PROVE  Covers(A \cup B, f, l)
  <2>1. n \in Nat /\ f \in Nat /\ m \in Nat
    OBVIOUS
  <2> QED BY <1>0, <1>3, <2>1, CoversUnion
<1>4. Covers(Jenkins!Halves(to, f), f, 4)
  <2> DEFINE h(i) == {Jenkins!Half(to, f + i, 8 * i)}
  <2>1. ASSUME NEW i \in {0, 2} PROVE Covers(h(i), f + i, 2)
    <3>1. PICK g \in {0, 2, 4, 6, 8, 10} : g = f + i
      OBVIOUS
    <3>2. to = Registers[g \div 4 + 1] /\ 8 * i = 8 * (g % 4)
      <4>1. g \div 4 = f \div 4 /\ g % 4 = i
        BY <3>1
      <4> QED BY <4>1
    <3>3. Covers({Jenkins!Half(to, g, 8 * i)}, g, 2)
      BY <3>2, HalfCovers
    <3> QED BY <3>1, <3>3
  <2>2. Jenkins!Halves(to, f) = h(0) \cup h(2)
    BY DEF Jenkins!Halves
  <2> HIDE DEF h
  <2>3. PICK g : g = f + 2
    OBVIOUS
  <2>4. Covers(h(0), f, 2) /\ Covers(h(2), g, 2)
    <3>1. Covers(h(0), f + 0, 2) /\ Covers(h(2), f + 2, 2) /\ f + 0 = f
      BY <2>1
    <3> QED BY <2>3, <3>1
  <2>5. Covers(h(0) \cup h(2), f, 4)
    <3>1. 2 \in 1..3 /\ 4 = 2 + 2
      OBVIOUS
    <3> QED BY <1>3, <2>3, <2>4, <3>1, Zenon
  <2> QED BY <2>2, <2>5
<1>5. Covers(Jenkins!Bytes(to, f), f, 4)
  <2> DEFINE b(i) == {Jenkins!Byte(to, f + i, 8 * i)}
  <2>1. ASSUME NEW i \in 0..3 PROVE Covers(b(i), f + i, 1)
    <3>1. f + i \in 0..11 /\ (f + i) \div 4 = f \div 4 /\ (f + i) % 4 = i
      OBVIOUS
    <3> QED BY <3>1, ByteCovers
  <2>2. Jenkins!Bytes(to, f) = ((b(0) \cup b(1)) \cup b(2)) \cup b(3)
    BY DEF Jenkins!Bytes
  <2> HIDE DEF b
  <2>3. PICK g, h, i : g = f + 1 /\ h = f + 2 /\ i = f + 3
    OBVIOUS
  <2>4. Covers(b(0), f, 1) /\ Covers(b(1), g, 1) /\ Covers(b(2), h, 1) /\ Covers(b(3), i, 1)
    <3>1. /\ Covers(b(0), f + 0, 1) /\ Covers(b(1), f + 1, 1) /\ Covers(b(2), f + 2, 1)
          /\ Covers(b(3), f + 3, 1) /\ f + 0 = f
      BY <2>1
    <3> QED BY <2>3, <3>1
  <2>5. Covers(b(0) \cup b(1), f, 2)
    <3>1. 1 \in 1..3 /\ 2 = 1 + 1
      OBVIOUS
    <3> QED BY <1>3, <2>3, <2>4, <3>1, Zenon
  <2>6. Covers((b(0) \cup b(1)) \cup b(2), f, 3)
    <3>1. 2 \in 1..3 /\ 1 \in 1..3 /\ 3 = 2 + 1
      OBVIOUS
    <3> QED BY <1>3, <2>3, <2>4, <2>5, <3>1, Zenon
  <2>7. Covers(((b(0) \cup b(1)) \cup b(2)) \cup b(3), f, 4)
    <3>1. 3 \in 1..3 /\ 1 \in 1..3 /\ 4 = 3 + 1
      OBVIOUS
    <3> QED BY <1>3, <2>3, <2>4, <2>6, <3>1, Zenon
  <2> QED BY <2>2, <2>7
<1> QED BY <1>2, <1>4, <1>5

(* The turn of the loop reads and adds twelve bytes, in every branch.      *)
LEMMA WholeBlockCovers ==
    ASSUME AtBlock
    PROVE  Covers(Jenkins!WholeBlock, 0, 12)
<1>0. k \in Nat
  BY DEF AtBlock
<1>1. "a" = Registers[0 \div 4 + 1] /\ "b" = Registers[4 \div 4 + 1] /\ "c" = Registers[8 \div 4 + 1]
  BY DEF Registers
<1>2. ASSUME NEW A, NEW B, NEW C, Covers(A, 0, 4), Covers(B, 4, 4), Covers(C, 8, 4)
      PROVE  Covers((A \cup B) \cup C, 0, 12)
  <2>1. Covers(A \cup B, 0, 8)
    BY <1>0, <1>2, CoversUnion
  <2> QED BY <1>0, <1>2, <2>1, CoversUnion
<1> DEFINE W(to, f) == {Jenkins!Load(to, f, 4, 4, 0)}
<1>3. CASE Jenkins!WordAligned
  <2>1. Jenkins!WholeBlock = (W("a", 0) \cup W("b", 4)) \cup W("c", 8)
    BY <1>3 DEF Jenkins!WholeBlock
  <2>2. Covers(W("a", 0), 0, 4) /\ Covers(W("b", 4), 4, 4) /\ Covers(W("c", 8), 8, 4)
    BY <1>1, WordCovers
  <2> QED BY <1>2, <2>1, <2>2
<1>4. CASE ~Jenkins!WordAligned /\ Jenkins!HalfAligned
  <2>1. Jenkins!WholeBlock =
          (Jenkins!Halves("a", 0) \cup Jenkins!Halves("b", 4)) \cup Jenkins!Halves("c", 8)
    BY <1>4 DEF Jenkins!WholeBlock
  <2>2. /\ Covers(Jenkins!Halves("a", 0), 0, 4) /\ Covers(Jenkins!Halves("b", 4), 4, 4)
        /\ Covers(Jenkins!Halves("c", 8), 8, 4)
    BY <1>1, WordCovers
  <2> QED BY <1>2, <2>1, <2>2
<1>5. CASE ~Jenkins!WordAligned /\ ~Jenkins!HalfAligned
  <2>1. Jenkins!WholeBlock =
          (Jenkins!Bytes("a", 0) \cup Jenkins!Bytes("b", 4)) \cup Jenkins!Bytes("c", 8)
    BY <1>5 DEF Jenkins!WholeBlock
  <2>2. /\ Covers(Jenkins!Bytes("a", 0), 0, 4) /\ Covers(Jenkins!Bytes("b", 4), 4, 4)
        /\ Covers(Jenkins!Bytes("c", 8), 8, 4)
    BY <1>1, WordCovers
  <2> QED BY <1>2, <2>1, <2>2
<1> QED BY <1>3, <1>4, <1>5

LEMMA LoadsPointwise ==
    ASSUME NEW L
    PROVE  /\ Jenkins!Added(L) = UNION {Jenkins!Added({x}) : x \in L}
           /\ Jenkins!Touched(L) = UNION {Jenkins!Touched({x}) : x \in L}
BY DEF Jenkins!Added, Jenkins!Touched

(* A switch over labels 12 to 1 runs from the case that matches, m, to the *)
(* next break.                                                             *)
Reached(cases, m) ==
    {j \in 1..12 : m <= j /\ \A l \in 1..12 : m <= l /\ l < j => ~cases[l].break}

LEMMA SwitchRuns ==
    ASSUME NEW cases, DOMAIN cases = 1..12, \A i \in 1..12 : cases[i].label = 13 - i,
           NEW n \in 1..12, NEW m, m = 13 - n
    PROVE  Jenkins!Switch(cases, n) = UNION {cases[i].loads : i \in Reached(cases, m)}
<1> DEFINE Runs(i) == /\ cases[i].label <= n
                      /\ \A l \in DOMAIN cases :
                            cases[l].label <= n /\ l < i => ~cases[l].break
<1>1. Jenkins!Switch(cases, n) = UNION {cases[i].loads : i \in {j \in 1..12 : Runs(j)}}
  BY DEF Jenkins!Switch
<1>2. \A i \in 1..12 : Runs(i) <=> i \in Reached(cases, m)
  <2>1. \A l \in 1..12 : cases[l].label <= n <=> m <= l
    OBVIOUS
  <2> QED BY <2>1 DEF Reached
<1> HIDE DEF Runs
<1>3. {j \in 1..12 : Runs(j)} = Reached(cases, m)
  BY <1>2 DEF Reached
<1> QED BY <1>1, <1>3

LEMMA SwitchBreaks ==
    ASSUME NEW cases, DOMAIN cases = 1..12, \A i \in 1..12 : cases[i].label = 13 - i,
           NEW n \in 1..12, NEW m, m = 13 - n
    PROVE  /\ cases[m].break => Jenkins!Switch(cases, n) = cases[m].loads
           /\ n > 1 /\ ~cases[m].break /\ cases[m + 1].break =>
                 Jenkins!Switch(cases, n) = cases[m].loads \cup cases[m + 1].loads
<1>0. m \in 1..12
  OBVIOUS
<1>1. Jenkins!Switch(cases, n) = UNION {cases[i].loads : i \in Reached(cases, m)}
  BY SwitchRuns
<1>2. ASSUME cases[m].break PROVE Jenkins!Switch(cases, n) = cases[m].loads
  <2>1. Reached(cases, m) = {m}
    BY <1>0, <1>2 DEF Reached
  <2> QED BY <1>1, <2>1
<1>3. ASSUME n > 1, ~cases[m].break, cases[m + 1].break
      PROVE  Jenkins!Switch(cases, n) = cases[m].loads \cup cases[m + 1].loads
  <2>1. m + 1 \in 1..12
    BY <1>3
  <2>2. ASSUME NEW i \in 1..12 PROVE i \in Reached(cases, m) <=> i = m \/ i = m + 1
    <3>1. CASE i < m
      BY <1>0, <3>1 DEF Reached
    <3>2. CASE i = m \/ i = m + 1
      <4>1. \A l \in 1..12 : m <= l /\ l < i => l = m
        BY <1>0, <3>2
      <4> QED BY <1>0, <1>3, <3>2, <4>1 DEF Reached
    <3>3. CASE m + 1 < i
      BY <1>0, <1>3, <2>1, <3>3 DEF Reached
    <3> QED BY <1>0, <3>1, <3>2, <3>3
  <2>3. Reached(cases, m) = {m, m + 1}
    BY <1>0, <2>1, <2>2 DEF Reached
  <2> QED BY <1>1, <2>3
<1> QED BY <1>2, <1>3

LEMMA ByteLoadsCover ==
    ASSUME AtBlock, NEW n \in 1..12
    PROVE  Covers(Jenkins!ByteLoads(n), 0, n)
<1>0. k \in Nat
  BY DEF AtBlock
<1> DEFINE load(i) == Jenkins!Byte(Registers[i \div 4 + 1], i, 8 * (i % 4))
           cases == [m \in 1..12 |-> Jenkins!Case(13 - m, {load(12 - m)}, m = 12)]
           L == {load(i) : i \in 0..(n - 1)}
<1>1. Jenkins!ByteLoads(n) = Jenkins!Switch(cases, n)
  BY DEF Jenkins!ByteLoads, Registers
<1>2. /\ DOMAIN cases = 1..12
      /\ \A m \in 1..12 : /\ cases[m].label = 13 - m /\ cases[m].loads = {load(12 - m)}
                          /\ cases[m].break <=> m = 12
  BY DEF Jenkins!Case
<1> HIDE DEF cases, load
<1>3. Jenkins!ByteLoads(n) = UNION {cases[m].loads : m \in (13 - n)..12}
  <2>1. DOMAIN cases = 1..12 /\ \A i \in 1..12 : cases[i].label = 13 - i
    BY <1>2
  <2>2. Jenkins!Switch(cases, n) = UNION {cases[i].loads : i \in Reached(cases, 13 - n)}
    BY <2>1, SwitchRuns
  <2>3. \A l, j \in 1..12 : l < j => ~cases[l].break
    <3>1. \A l, j \in 1..12 : l < j => l # 12
      OBVIOUS
    <3> QED BY <1>2, <3>1, Zenon
  <2>4. Reached(cases, 13 - n) = (13 - n)..12
    BY <2>3 DEF Reached
  <2> QED BY <1>1, <2>2, <2>4
<1>4. Jenkins!ByteLoads(n) = L
  <2>1. ASSUME NEW x, x \in Jenkins!ByteLoads(n) PROVE x \in L
    <3>1. PICK m \in (13 - n)..12 : x \in cases[m].loads
      BY <1>3, <2>1
    <3>2. x = load(12 - m) /\ 12 - m \in 0..(n - 1)
      BY <1>2, <3>1
    <3> QED BY <3>2
  <2>2. ASSUME NEW i \in 0..(n - 1) PROVE load(i) \in Jenkins!ByteLoads(n)
    <3>1. 12 - i \in (13 - n)..12 /\ 12 - i \in 1..12 /\ 12 - (12 - i) = i
      OBVIOUS
    <3>2. load(i) \in cases[12 - i].loads
      BY <1>2, <3>1
    <3> QED BY <1>3, <3>1, <3>2
  <2> QED BY <2>1, <2>2
<1>5. ASSUME NEW i \in 0..(n - 1)
      PROVE  Jenkins!Added({load(i)}) = {Place(k + i)} /\ Jenkins!Touched({load(i)}) = {k + i}
  <2>1. Covers({load(i)}, i, 1)
    BY ByteCovers DEF load
  <2>2. From(i, 1) = {k + i}
    BY <1>0 DEF From
  <2> QED BY <2>1, <2>2 DEF Covers, Places
<1>6. /\ Jenkins!Added(L) = {Place(k + i) : i \in 0..(n - 1)}
      /\ Jenkins!Touched(L) = {k + i : i \in 0..(n - 1)}
  <2>1. /\ Jenkins!Added(L) = UNION {Jenkins!Added({x}) : x \in L}
        /\ Jenkins!Touched(L) = UNION {Jenkins!Touched({x}) : x \in L}
    BY LoadsPointwise
  <2>2. Jenkins!Added(L) = UNION {{Place(k + i)} : i \in 0..(n - 1)}
    <3>1. Jenkins!Added(L) = UNION {Jenkins!Added({load(i)}) : i \in 0..(n - 1)}
      BY <2>1
    <3> QED BY <1>5, <3>1
  <2>3. Jenkins!Touched(L) = UNION {{k + i} : i \in 0..(n - 1)}
    <3>1. Jenkins!Touched(L) = UNION {Jenkins!Touched({load(i)}) : i \in 0..(n - 1)}
      BY <2>1
    <3> QED BY <1>5, <3>1
  <2> QED BY <2>2, <2>3
<1>7. From(0, n) = {k + i : i \in 0..(n - 1)}
  <2>1. ASSUME NEW b \in From(0, n) PROVE b - k \in 0..(n - 1) /\ b = k + (b - k)
    BY <1>0 DEF From
  <2> QED BY <1>0, <2>1 DEF From
<1>8. Places(From(0, n)) = {Place(k + i) : i \in 0..(n - 1)}
  BY <1>7 DEF Places
<1> QED BY <1>4, <1>6, <1>7, <1>8 DEF Covers

LEMMA HalfLoadsCover ==
    ASSUME AtBlock, NEW n \in 1..12
    PROVE  Covers(Jenkins!HalfLoads(n), 0, n)
<1>0. k \in Nat
  BY DEF AtBlock
<1> DEFINE ab == Jenkins!Halves("a", 0) \cup Jenkins!Halves("b", 4)
           abc == ab \cup Jenkins!Halves("c", 8)
           half(to, f) == {Jenkins!Half(to, f, 0)}
           byte(to, f, shift) == {Jenkins!Byte(to, f, shift)}
           cases == <<
               Jenkins!Case(12, abc, TRUE),
               Jenkins!Case(11, byte("c", 10, 16), FALSE),
               Jenkins!Case(10, ab \cup half("c", 8), TRUE),
               Jenkins!Case(9, byte("c", 8, 0), FALSE),
               Jenkins!Case(8, ab, TRUE),
               Jenkins!Case(7, byte("b", 6, 16), FALSE),
               Jenkins!Case(6, Jenkins!Halves("a", 0) \cup half("b", 4), TRUE),
               Jenkins!Case(5, byte("b", 4, 0), FALSE),
               Jenkins!Case(4, Jenkins!Halves("a", 0), TRUE),
               Jenkins!Case(3, byte("a", 2, 16), FALSE),
               Jenkins!Case(2, half("a", 0), TRUE),
               Jenkins!Case(1, byte("a", 0, 0), TRUE) >>
<1>1. Jenkins!HalfLoads(n) = Jenkins!Switch(cases, n)
  BY DEF Jenkins!HalfLoads
<1> HIDE DEF ab, abc, half, byte
<1>2. /\ cases[1].loads = abc /\ cases[2].loads = byte("c", 10, 16)
      /\ cases[3].loads = ab \cup half("c", 8) /\ cases[4].loads = byte("c", 8, 0)
      /\ cases[5].loads = ab /\ cases[6].loads = byte("b", 6, 16)
      /\ cases[7].loads = Jenkins!Halves("a", 0) \cup half("b", 4)
      /\ cases[8].loads = byte("b", 4, 0) /\ cases[9].loads = Jenkins!Halves("a", 0)
      /\ cases[10].loads = byte("a", 2, 16) /\ cases[11].loads = half("a", 0)
      /\ cases[12].loads = byte("a", 0, 0)
  BY DEF Jenkins!Case
<1>3. /\ cases[1].label = 12 /\ cases[2].label = 11 /\ cases[3].label = 10 /\ cases[4].label = 9
      /\ cases[5].label = 8 /\ cases[6].label = 7 /\ cases[7].label = 6 /\ cases[8].label = 5
      /\ cases[9].label = 4 /\ cases[10].label = 3 /\ cases[11].label = 2 /\ cases[12].label = 1
  BY DEF Jenkins!Case
<1>4. /\ cases[1].break /\ cases[3].break /\ cases[5].break /\ cases[7].break /\ cases[9].break
      /\ cases[11].break /\ cases[12].break
      /\ ~cases[2].break /\ ~cases[4].break /\ ~cases[6].break /\ ~cases[8].break
      /\ ~cases[10].break
  BY DEF Jenkins!Case
<1>5. DOMAIN cases = 1..12
  OBVIOUS
<1> HIDE DEF cases
<1>6. \A i \in 1..12 : cases[i].label = 13 - i
  BY <1>3
<1>7. /\ Covers(Jenkins!Halves("a", 0), 0, 4) /\ Covers(Jenkins!Halves("b", 4), 4, 4)
      /\ Covers(Jenkins!Halves("c", 8), 8, 4)
  <2>1. "a" = Registers[0 \div 4 + 1] /\ "b" = Registers[4 \div 4 + 1] /\ "c" = Registers[8 \div 4 + 1]
    BY DEF Registers
  <2> QED BY <2>1, WordCovers
<1>8. Covers(half("a", 0), 0, 2) /\ Covers(half("b", 4), 4, 2) /\ Covers(half("c", 8), 8, 2)
  <2>1. /\ "a" = Registers[0 \div 4 + 1] /\ "b" = Registers[4 \div 4 + 1] /\ "c" = Registers[8 \div 4 + 1]
        /\ 0 = 8 * (0 % 4) /\ 0 = 8 * (4 % 4) /\ 0 = 8 * (8 % 4)
    BY DEF Registers
  <2> QED BY <2>1, HalfCovers DEF half
<1>9. /\ Covers(byte("a", 0, 0), 0, 1) /\ Covers(byte("a", 2, 16), 2, 1)
      /\ Covers(byte("b", 4, 0), 4, 1) /\ Covers(byte("b", 6, 16), 6, 1)
      /\ Covers(byte("c", 8, 0), 8, 1) /\ Covers(byte("c", 10, 16), 10, 1)
  <2>1. /\ "a" = Registers[0 \div 4 + 1] /\ "a" = Registers[2 \div 4 + 1]
        /\ "b" = Registers[4 \div 4 + 1] /\ "b" = Registers[6 \div 4 + 1]
        /\ "c" = Registers[8 \div 4 + 1] /\ "c" = Registers[10 \div 4 + 1]
        /\ 0 = 8 * (0 % 4) /\ 16 = 8 * (2 % 4) /\ 0 = 8 * (4 % 4) /\ 16 = 8 * (6 % 4)
        /\ 0 = 8 * (8 % 4) /\ 16 = 8 * (10 % 4)
    BY DEF Registers
  <2> QED BY <2>1, ByteCovers DEF byte
<1>10. ASSUME NEW A, NEW B, NEW f \in 0..12, NEW m \in 0..12, NEW l, l = f + m,
              Covers(A, 0, f), Covers(B, f, m)
       PROVE  Covers(A \cup B, 0, l)
  <2>1. f \in Nat /\ m \in Nat /\ 0 \in Nat /\ f = 0 + f
    OBVIOUS
  <2> QED BY <1>0, <1>10, <2>1, CoversUnion
<1>11. Covers(ab, 0, 8)
  <2>1. 4 \in 0..12 /\ 4 \in 0..12 /\ 8 = 4 + 4
    OBVIOUS
  <2> QED BY <1>10, <1>7, <2>1, Zenon DEF ab
<1>12. Covers(abc, 0, 12)
  <2>1. 8 \in 0..12 /\ 4 \in 0..12 /\ 12 = 8 + 4
    OBVIOUS
  <2> QED BY <1>10, <1>7, <1>11, <2>1, Zenon DEF abc
<1>13. Covers(ab \cup half("c", 8), 0, 10)
  <2>1. 8 \in 0..12 /\ 2 \in 0..12 /\ 10 = 8 + 2
    OBVIOUS
  <2> QED BY <1>10, <1>8, <1>11, <2>1, Zenon
<1>14. Covers(Jenkins!Halves("a", 0) \cup half("b", 4), 0, 6)
  <2>1. 4 \in 0..12 /\ 2 \in 0..12 /\ 6 = 4 + 2
    OBVIOUS
  <2> QED BY <1>10, <1>7, <1>8, <2>1, Zenon
<1>15. CASE n = 1
  <2>1. Jenkins!Switch(cases, n) = cases[12].loads
    BY <1>4, <1>5, <1>6, <1>15, SwitchBreaks
  <2> QED BY <1>1, <1>2, <1>9, <1>15, <2>1
<1>16. CASE n = 2
  <2>1. Jenkins!Switch(cases, n) = cases[11].loads
    BY <1>4, <1>5, <1>6, <1>16, SwitchBreaks
  <2> QED BY <1>1, <1>2, <1>8, <1>16, <2>1
<1>17. CASE n = 3
  <2>1. Jenkins!Switch(cases, n) = cases[10].loads \cup cases[11].loads
    BY <1>4, <1>5, <1>6, <1>17, SwitchBreaks
  <2>2. Covers(cases[11].loads, 0, 2) /\ Covers(cases[10].loads, 2, 1)
    BY <1>2, <1>9, <1>8
  <2>3. Covers(cases[11].loads \cup cases[10].loads, 0, 3)
    <3>1. 2 \in 0..12 /\ 1 \in 0..12 /\ 3 = 2 + 1
      OBVIOUS
    <3> QED BY <1>10, <2>2, <3>1, Zenon
  <2>4. cases[10].loads \cup cases[11].loads = cases[11].loads \cup cases[10].loads
    OBVIOUS
  <2> QED BY <1>1, <1>17, <2>1, <2>3, <2>4, Zenon
<1>18. CASE n = 4
  <2>1. Jenkins!Switch(cases, n) = cases[9].loads
    BY <1>4, <1>5, <1>6, <1>18, SwitchBreaks
  <2> QED BY <1>1, <1>2, <1>7, <1>18, <2>1
<1>19. CASE n = 5
  <2>1. Jenkins!Switch(cases, n) = cases[8].loads \cup cases[9].loads
    BY <1>4, <1>5, <1>6, <1>19, SwitchBreaks
  <2>2. Covers(cases[9].loads, 0, 4) /\ Covers(cases[8].loads, 4, 1)
    BY <1>2, <1>9, <1>7
  <2>3. Covers(cases[9].loads \cup cases[8].loads, 0, 5)
    <3>1. 4 \in 0..12 /\ 1 \in 0..12 /\ 5 = 4 + 1
      OBVIOUS
    <3> QED BY <1>10, <2>2, <3>1, Zenon
  <2>4. cases[8].loads \cup cases[9].loads = cases[9].loads \cup cases[8].loads
    OBVIOUS
  <2> QED BY <1>1, <1>19, <2>1, <2>3, <2>4, Zenon
<1>20. CASE n = 6
  <2>1. Jenkins!Switch(cases, n) = cases[7].loads
    BY <1>4, <1>5, <1>6, <1>20, SwitchBreaks
  <2> QED BY <1>1, <1>2, <1>14, <1>20, <2>1
<1>21. CASE n = 7
  <2>1. Jenkins!Switch(cases, n) = cases[6].loads \cup cases[7].loads
    BY <1>4, <1>5, <1>6, <1>21, SwitchBreaks
  <2>2. Covers(cases[7].loads, 0, 6) /\ Covers(cases[6].loads, 6, 1)
    BY <1>2, <1>9, <1>14
  <2>3. Covers(cases[7].loads \cup cases[6].loads, 0, 7)
    <3>1. 6 \in 0..12 /\ 1 \in 0..12 /\ 7 = 6 + 1
      OBVIOUS
    <3> QED BY <1>10, <2>2, <3>1, Zenon
  <2>4. cases[6].loads \cup cases[7].loads = cases[7].loads \cup cases[6].loads
    OBVIOUS
  <2> QED BY <1>1, <1>21, <2>1, <2>3, <2>4, Zenon
<1>22. CASE n = 8
  <2>1. Jenkins!Switch(cases, n) = cases[5].loads
    BY <1>4, <1>5, <1>6, <1>22, SwitchBreaks
  <2> QED BY <1>1, <1>2, <1>11, <1>22, <2>1
<1>23. CASE n = 9
  <2>1. Jenkins!Switch(cases, n) = cases[4].loads \cup cases[5].loads
    BY <1>4, <1>5, <1>6, <1>23, SwitchBreaks
  <2>2. Covers(cases[5].loads, 0, 8) /\ Covers(cases[4].loads, 8, 1)
    BY <1>2, <1>9, <1>11
  <2>3. Covers(cases[5].loads \cup cases[4].loads, 0, 9)
    <3>1. 8 \in 0..12 /\ 1 \in 0..12 /\ 9 = 8 + 1
      OBVIOUS
    <3> QED BY <1>10, <2>2, <3>1, Zenon
  <2>4. cases[4].loads \cup cases[5].loads = cases[5].loads \cup cases[4].loads
    OBVIOUS
  <2> QED BY <1>1, <1>23, <2>1, <2>3, <2>4, Zenon
<1>24. CASE n = 10
  <2>1. Jenkins!Switch(cases, n) = cases[3].loads
    BY <1>4, <1>5, <1>6, <1>24, SwitchBreaks
  <2> QED BY <1>1, <1>2, <1>13, <1>24, <2>1
<1>25. CASE n = 11
  <2>1. Jenkins!Switch(cases, n) = cases[2].loads \cup cases[3].loads
    BY <1>4, <1>5, <1>6, <1>25, SwitchBreaks
  <2>2. Covers(cases[3].loads, 0, 10) /\ Covers(cases[2].loads, 10, 1)
    BY <1>2, <1>9, <1>13
  <2>3. Covers(cases[3].loads \cup cases[2].loads, 0, 11)
    <3>1. 10 \in 0..12 /\ 1 \in 0..12 /\ 11 = 10 + 1
      OBVIOUS
    <3> QED BY <1>10, <2>2, <3>1, Zenon
  <2>4. cases[2].loads \cup cases[3].loads = cases[3].loads \cup cases[2].loads
    OBVIOUS
  <2> QED BY <1>1, <1>25, <2>1, <2>3, <2>4, Zenon
<1>26. CASE n = 12
  <2>1. Jenkins!Switch(cases, n) = cases[1].loads
    BY <1>4, <1>5, <1>6, <1>26, SwitchBreaks
  <2> QED BY <1>1, <1>2, <1>12, <1>26, <2>1
<1> QED BY <1>15, <1>16, <1>17, <1>18, <1>19, <1>20, <1>21, <1>22, <1>23, <1>24, <1>25, <1>26

(* The aligned branch reads whole words of which it keeps the bytes of the *)
(* key.                                                                    *)
LEMMA WordLoadsCover ==
    ASSUME AtBlock, NEW n \in 1..12
    PROVE  /\ Jenkins!Added(Jenkins!WordLoads(n)) = Places(From(0, n))
           /\ \A b \in Jenkins!Touched(Jenkins!WordLoads(n)) :
                 \E f \in {0, 4, 8} : f < n /\ b \in (k + f)..(k + f + 3)
<1>0. k \in Nat
  BY DEF AtBlock
<1> DEFINE Kept(v) == IF n >= 4 * v THEN 4 ELSE IF n > 4 * (v - 1) THEN n - 4 * (v - 1) ELSE 0
           load(v) == Jenkins!Load(Registers[v], 4 * (v - 1), 4, Kept(v), 0)
           V == {v \in 1..3 : Kept(v) > 0}
<1>1. \A v \in 1..3 : Jenkins!WordKeeps[n][v] = Kept(v)
  <2> SUFFICES /\ Jenkins!WordKeeps[n][1] = Kept(1) /\ Jenkins!WordKeeps[n][2] = Kept(2)
               /\ Jenkins!WordKeeps[n][3] = Kept(3)
    OBVIOUS
  <2>1. CASE n \in 1..4
    BY <2>1 DEF Jenkins!WordKeeps
  <2>2. CASE n \in 5..8
    BY <2>2 DEF Jenkins!WordKeeps
  <2>3. CASE n \in 9..12
    BY <2>3 DEF Jenkins!WordKeeps
  <2> QED BY <2>1, <2>2, <2>3
<1>2. Jenkins!WordLoads(n) = {load(v) : v \in V}
  BY <1>1 DEF Jenkins!WordLoads, Registers
<1>3. ASSUME NEW v \in 1..3
      PROVE  /\ Jenkins!Added({load(v)}) = Places(From(4 * (v - 1), Kept(v)))
             /\ Jenkins!Touched({load(v)}) = From(4 * (v - 1), 4)
  <2>1. PICK f \in {0, 4, 8} : f = 4 * (v - 1)
    OBVIOUS
  <2>2. Registers[v] = Registers[f \div 4 + 1]
    <3>1. f \div 4 + 1 = v
      BY <2>1
    <3> QED BY <3>1
  <2>3. PICK kept \in 0..4 : kept = Kept(v)
    OBVIOUS
  <2>4. f \in 0..11 /\ (f % 4) + kept <= 4 /\ 4 \in Nat /\ 8 * (f % 4) = 0
    BY <2>3
  <2> HIDE DEF Kept
  <2>5. /\ Jenkins!Added({Jenkins!Load(Registers[v], f, 4, kept, 0)}) = Places(From(f, kept))
        /\ Jenkins!Touched({Jenkins!Load(Registers[v], f, 4, kept, 0)}) = From(f, 4)
    <3>1. Jenkins!Load(Registers[f \div 4 + 1], f, 4, kept, 8 * (f % 4)) =
              Jenkins!Load(Registers[v], f, 4, kept, 0)
      BY <2>2, <2>4
    <3>2. LET x == Jenkins!Load(Registers[f \div 4 + 1], f, 4, kept, 8 * (f % 4)) IN
          /\ Jenkins!Added({x}) = Places(From(f, kept))
          /\ Jenkins!Touched({x}) = From(f, 4)
      BY <2>4, LoadAdds
    <3> QED BY <3>1, <3>2
  <2> QED BY <2>1, <2>3, <2>5
<1> HIDE DEF load
<1>4. /\ Jenkins!Added(Jenkins!WordLoads(n)) = UNION {Jenkins!Added({load(v)}) : v \in V}
      /\ Jenkins!Touched(Jenkins!WordLoads(n)) = UNION {Jenkins!Touched({load(v)}) : v \in V}
  <2> DEFINE L == {load(v) : v \in V}
  <2>1. /\ Jenkins!Added(L) = UNION {Jenkins!Added({x}) : x \in L}
        /\ Jenkins!Touched(L) = UNION {Jenkins!Touched({x}) : x \in L}
    BY LoadsPointwise
  <2> HIDE DEF V
  <2>2. Jenkins!Added(L) = UNION {Jenkins!Added({load(v)}) : v \in V}
    BY <2>1
  <2>3. Jenkins!Touched(L) = UNION {Jenkins!Touched({load(v)}) : v \in V}
    BY <2>1
  <2> QED BY <1>2, <2>2, <2>3
<1>5. ASSUME NEW b \in From(0, n) PROVE Place(b) \in Jenkins!Added(Jenkins!WordLoads(n))
  <2>1. PICK v \in 1..3 : 4 * (v - 1) <= b - k /\ b - k < 4 * v
    <3>1. b - k \in 0..11
      BY <1>0 DEF From
    <3> QED BY <3>1
  <2>2. v \in V /\ b \in From(4 * (v - 1), Kept(v))
    BY <1>0, <2>1 DEF From
  <2> HIDE DEF V, Kept
  <2>3. Place(b) \in Jenkins!Added({load(v)})
    BY <1>3, <2>2 DEF Places
  <2>4. Place(b) \in UNION {Jenkins!Added({load(u)}) : u \in V}
    BY <2>2, <2>3
  <2> QED BY <1>4, <2>4
<1>6. ASSUME NEW t \in Jenkins!Added(Jenkins!WordLoads(n)) PROVE t \in Places(From(0, n))
  <2>1. PICK v \in V : t \in Jenkins!Added({load(v)})
    BY <1>4
  <2>2. PICK b \in From(4 * (v - 1), Kept(v)) : t = Place(b)
    BY <1>3, <2>1 DEF Places
  <2>3. b \in From(0, n)
    BY <1>0, <2>2 DEF From
  <2> QED BY <2>2, <2>3 DEF Places
<1>7. ASSUME NEW b \in Jenkins!Touched(Jenkins!WordLoads(n))
      PROVE  \E f \in {0, 4, 8} : f < n /\ b \in (k + f)..(k + f + 3)
  <2>1. PICK v \in V : b \in Jenkins!Touched({load(v)})
    BY <1>4
  <2>2. b \in From(4 * (v - 1), 4)
    BY <1>3, <2>1
  <2>3. 4 * (v - 1) \in {0, 4, 8} /\ 4 * (v - 1) < n /\ b \in (k + 4 * (v - 1))..(k + 4 * (v - 1) + 3)
    BY <1>0, <2>2 DEF From
  <2> QED BY <2>3
<1> QED BY <1>5, <1>6, <1>7 DEF Places

(* The last block takes the n bytes that are left, in every branch, and no *)
(* branch reads more than the word that holds the last of them.            *)
LEMMA LastBlockCovers ==
    ASSUME AtBlock, NEW n \in 1..12, address \in 0..3
    PROVE  /\ Jenkins!Added(Jenkins!LastBlock(n)) = Places(From(0, n))
           /\ \A b \in Jenkins!Touched(Jenkins!LastBlock(n)) :
                 \/ b \in From(0, n)
                 \/ /\ address = 0
                    /\ \E f \in {0, 4, 8} : f < n /\ b \in (k + f)..(k + f + 3)
<1>1. CASE Jenkins!WordAligned
  <2>1. address = 0
    BY <1>1 DEF Jenkins!WordAligned
  <2>2. Jenkins!LastBlock(n) = Jenkins!WordLoads(n)
    BY <1>1 DEF Jenkins!LastBlock
  <2> QED BY <2>1, <2>2, WordLoadsCover
<1>2. CASE ~Jenkins!WordAligned /\ Jenkins!HalfAligned
  <2>1. Jenkins!LastBlock(n) = Jenkins!HalfLoads(n)
    BY <1>2 DEF Jenkins!LastBlock
  <2> QED BY <2>1, HalfLoadsCover DEF Covers
<1>3. CASE ~Jenkins!WordAligned /\ ~Jenkins!HalfAligned
  <2>1. Jenkins!LastBlock(n) = Jenkins!ByteLoads(n)
    BY <1>3 DEF Jenkins!LastBlock
  <2> QED BY <2>1, ByteLoadsCover DEF Covers
<1> QED BY <1>1, <1>2, <1>3

(* The first m blocks of the key.                                          *)
BlockOf(n) ==
    [mixer |-> IF 12 * n >= size THEN "final" ELSE "mix", added |-> Places(Jenkins!KeyBytes(n))]
BlocksOf(m) == [n \in 1..m |-> BlockOf(n)]

LEMMA NextBlock ==
    ASSUME NEW m \in Nat
    PROVE  Append(BlocksOf(m), BlockOf(m + 1)) = BlocksOf(m + 1)
<1> DEFINE S == {BlockOf(n) : n \in Nat}
<1>1. BlocksOf(m) \in Seq(S) /\ Len(BlocksOf(m)) = m /\ BlockOf(m + 1) \in S
  BY DEF BlocksOf
<1> HIDE DEF S
<1>2. /\ DOMAIN Append(BlocksOf(m), BlockOf(m + 1)) = 1..(m + 1)
      /\ \A n \in 1..m : Append(BlocksOf(m), BlockOf(m + 1))[n] = BlocksOf(m)[n]
      /\ Append(BlocksOf(m), BlockOf(m + 1))[m + 1] = BlockOf(m + 1)
      /\ Append(BlocksOf(m), BlockOf(m + 1)) \in Seq(S)
  BY <1>1
<1>3. \A n \in 1..m : BlocksOf(m)[n] = BlockOf(n)
  BY DEF BlocksOf
<1>4. \A n \in 1..(m + 1) : Append(BlocksOf(m), BlockOf(m + 1))[n] = BlockOf(n)
  <2>1. \A n \in 1..(m + 1) : n \in 1..m \/ n = m + 1
    OBVIOUS
  <2> QED BY <1>2, <1>3, <2>1
<1>5. DOMAIN BlocksOf(m + 1) = 1..(m + 1) /\ \A n \in 1..(m + 1) : BlocksOf(m + 1)[n] = BlockOf(n)
  BY DEF BlocksOf
<1> QED BY <1>2, <1>4, <1>5 DEF BlocksOf

(* The invariant of hash_jenkins: the blocks so far are the first blocks   *)
(* of the key, and k and length divide the key where they end.             *)
JenkinsInv ==
    /\ address \in 0..3 /\ size \in 0..MaxLength /\ at \in {"loop", "done"}
    /\ k \in Nat /\ length \in Nat /\ k + length = size
    /\ length = 0 => k = 0
    /\ AtBlock
    /\ at = "loop" => k = 12 * (k \div 12) /\ blocks = BlocksOf(k \div 12)
    /\ at = "done" => blocks = BlocksOf((size + 11) \div 12)
    /\ Jenkins!ReadsStayInWord

LEMMA JenkinsInit ==
    ASSUME MaxLength \in Nat, Jenkins!Init
    PROVE  JenkinsInv
<1>1. /\ address \in 0..3 /\ size \in 0..MaxLength /\ k = 0 /\ length = size /\ at = "loop"
      /\ blocks = <<>> /\ reads = {}
  BY DEF Jenkins!Init
<1>2. AtBlock
  BY <1>1 DEF AtBlock
<1>3. BlocksOf(0) = <<>>
  BY DEF BlocksOf
<1>4. Jenkins!ReadsStayInWord
  BY <1>1 DEF Jenkins!ReadsStayInWord
<1>5. k \div 12 = 0
  BY <1>1
<1> QED BY <1>1, <1>2, <1>3, <1>4, <1>5 DEF JenkinsInv

LEMMA MixStep ==
    ASSUME MaxLength \in Nat, JenkinsInv, Jenkins!Mix
    PROVE  JenkinsInv'
<1>1. /\ address \in 0..3 /\ size \in Nat /\ k \in Nat /\ length \in Nat /\ k + length = size
      /\ AtBlock /\ k = 12 * (k \div 12) /\ blocks = BlocksOf(k \div 12)
      /\ Jenkins!ReadsStayInWord /\ size \in 0..MaxLength
  BY DEF JenkinsInv, Jenkins!Mix
<1>2. /\ length > 12 /\ at = "loop" /\ at' = at /\ address' = address /\ size' = size
      /\ length' = length - 12 /\ k' = k + 12
      /\ blocks' = Append(blocks, [mixer |-> "mix", added |-> Jenkins!Added(Jenkins!WholeBlock)])
      /\ reads' = reads \cup Jenkins!Touched(Jenkins!WholeBlock)
  BY DEF Jenkins!Mix, Jenkins!Block
<1>3. PICK m \in Nat : m = k \div 12 /\ k = 12 * m
  BY <1>1
<1>4. k' = 12 * (m + 1) /\ k' \div 12 = m + 1 /\ m + 1 \in Nat
  BY <1>2, <1>3
<1>5. From(0, 12) = Jenkins!KeyBytes(m + 1)
  <2>1. ASSUME NEW i \in 0..(size - 1) PROVE i \div 12 = (m + 1) - 1 <=> i \in k..(k + 11)
    BY <1>1, <1>3
  <2>2. k..(k + 11) \subseteq 0..(size - 1)
    BY <1>1, <1>2
  <2>3. From(0, 12) = k..(k + 11)
    BY <1>1 DEF From
  <2> QED BY <2>1, <2>2, <2>3 DEF Jenkins!KeyBytes
<1>6. BlockOf(m + 1) = [mixer |-> "mix", added |-> Jenkins!Added(Jenkins!WholeBlock)]
  <2>1. ~(12 * (m + 1) >= size)
    BY <1>1, <1>2, <1>3
  <2>2. Jenkins!Added(Jenkins!WholeBlock) = Places(Jenkins!KeyBytes(m + 1))
    BY <1>1, <1>5, WholeBlockCovers DEF Covers
  <2> QED BY <2>1, <2>2 DEF BlockOf
<1>7. blocks' = BlocksOf(m + 1)
  BY <1>1, <1>2, <1>3, <1>6, NextBlock
<1>8. BlocksOf(m + 1)' = BlocksOf(m + 1)
  BY <1>2 DEF BlocksOf, BlockOf, Places, Place, Jenkins!KeyBytes
<1>9. Jenkins!ReadsStayInWord'
  <2>1. \A b \in Jenkins!Touched(Jenkins!WholeBlock) : b < size
    BY <1>1, <1>2, WholeBlockCovers DEF Covers, From
  <2> QED BY <1>1, <1>2, <2>1 DEF Jenkins!ReadsStayInWord
<1>10. AtBlock'
  BY <1>4 DEF AtBlock
<1>11. k' \in Nat /\ length' \in Nat /\ k' + length' = size /\ length' # 0
  BY <1>1, <1>2
<1> QED BY <1>1, <1>2, <1>4, <1>7, <1>8, <1>9, <1>10, <1>11 DEF JenkinsInv

LEMMA FinalStep ==
    ASSUME MaxLength \in Nat, JenkinsInv, Jenkins!Final
    PROVE  JenkinsInv'
<1>1. /\ address \in 0..3 /\ size \in Nat /\ k \in Nat /\ length \in Nat /\ k + length = size
      /\ AtBlock /\ k = 12 * (k \div 12) /\ blocks = BlocksOf(k \div 12)
      /\ Jenkins!ReadsStayInWord /\ size \in 0..MaxLength
  BY DEF JenkinsInv, Jenkins!Final
<1>2. /\ length \in 1..12 /\ at' = "done" /\ address' = address /\ size' = size
      /\ length' = length /\ k' = k
      /\ blocks' = Append(blocks, [mixer |-> "final",
                                   added |-> Jenkins!Added(Jenkins!LastBlock(length))])
      /\ reads' = reads \cup Jenkins!Touched(Jenkins!LastBlock(length))
  BY DEF Jenkins!Final, Jenkins!Block
<1>3. PICK m \in Nat : m = k \div 12 /\ k = 12 * m
  BY <1>1
<1>4. (size + 11) \div 12 = m + 1
  BY <1>1, <1>2, <1>3
<1>5. From(0, length) = Jenkins!KeyBytes(m + 1)
  <2>1. ASSUME NEW i \in 0..(size - 1) PROVE i \div 12 = (m + 1) - 1 <=> i \in k..(k + length - 1)
    BY <1>1, <1>2, <1>3
  <2>2. k..(k + length - 1) \subseteq 0..(size - 1)
    BY <1>1, <1>2
  <2>3. From(0, length) = k..(k + length - 1)
    BY <1>1, <1>2 DEF From
  <2> QED BY <2>1, <2>2, <2>3 DEF Jenkins!KeyBytes
<1>6. BlockOf(m + 1) = [mixer |-> "final", added |-> Jenkins!Added(Jenkins!LastBlock(length))]
  <2>1. 12 * (m + 1) >= size
    BY <1>1, <1>2, <1>3
  <2>2. Jenkins!Added(Jenkins!LastBlock(length)) = Places(Jenkins!KeyBytes(m + 1))
    BY <1>1, <1>2, <1>5, LastBlockCovers
  <2> QED BY <2>1, <2>2 DEF BlockOf
<1>7. blocks' = BlocksOf((size + 11) \div 12)
  BY <1>1, <1>2, <1>3, <1>4, <1>6, NextBlock
<1>8. BlocksOf((size + 11) \div 12)' = BlocksOf((size + 11) \div 12)
  BY <1>2 DEF BlocksOf, BlockOf, Places, Place, Jenkins!KeyBytes
<1>9. Jenkins!ReadsStayInWord'
  <2> SUFFICES ASSUME NEW b \in Jenkins!Touched(Jenkins!LastBlock(length)), ~(b < size)
               PROVE  address = 0 /\ \E i \in 0..(size - 1) : (address + i) \div 4 = (address + b) \div 4
    BY <1>1, <1>2 DEF Jenkins!ReadsStayInWord
  <2>1. b \notin From(0, length)
    BY <1>1 DEF From
  <2>2. address = 0 /\ \E f \in {0, 4, 8} : f < length /\ b \in (k + f)..(k + f + 3)
    BY <1>1, <1>2, <2>1, LastBlockCovers
  <2>3. PICK f \in {0, 4, 8} : f < length /\ b \in (k + f)..(k + f + 3)
    BY <2>2
  <2>4. k + f \in 0..(size - 1) /\ (0 + (k + f)) \div 4 = (0 + b) \div 4
    BY <1>1, <1>2, <1>3, <2>3
  <2> QED BY <2>2, <2>4
<1>10. AtBlock'
  BY <1>1, <1>2 DEF AtBlock
<1> QED BY <1>1, <1>2, <1>7, <1>8, <1>9, <1>10 DEF JenkinsInv

LEMMA ReturnUnmixedStep ==
    ASSUME MaxLength \in Nat, JenkinsInv, Jenkins!ReturnUnmixed
    PROVE  JenkinsInv'
<1>1. /\ k = 0 /\ size = 0 /\ at = "loop" /\ at' = "done"
      /\ UNCHANGED <<address, size, k, length, blocks, reads>>
  BY DEF JenkinsInv, Jenkins!ReturnUnmixed
<1>2. k \div 12 = 0 /\ (size + 11) \div 12 = 0
  BY <1>1
<1>3. blocks' = BlocksOf((size + 11) \div 12)
  BY <1>1, <1>2 DEF JenkinsInv
<1>4. BlocksOf((size + 11) \div 12)' = BlocksOf((size + 11) \div 12)
  BY <1>1 DEF BlocksOf, BlockOf, Places, Place, Jenkins!KeyBytes
<1>5. AtBlock' /\ Jenkins!ReadsStayInWord'
  BY <1>1 DEF JenkinsInv, AtBlock, Jenkins!ReadsStayInWord
<1> QED BY <1>1, <1>3, <1>4, <1>5 DEF JenkinsInv

(* hash_jenkins keeps its invariant, for keys of every length.             *)
THEOREM JenkinsInvariant ==
    ASSUME MaxLength \in Nat
    PROVE  KeysSpec => [](call = "hash_jenkins" => JenkinsInv)
<1>1. Jenkins!Init => JenkinsInv
  BY JenkinsInit
<1>2. JenkinsInv /\ [Jenkins!Next]_(Jenkins!vars) => JenkinsInv'
  <2>1. ASSUME JenkinsInv, UNCHANGED Jenkins!vars PROVE JenkinsInv'
    <3>1. UNCHANGED <<at, address, size, k, length, blocks, reads>>
      BY <2>1 DEF Jenkins!vars
    <3>2. \A m : BlocksOf(m)' = BlocksOf(m)
      BY <3>1 DEF BlocksOf, BlockOf, Places, Place, Jenkins!KeyBytes
    <3>3. AtBlock' = AtBlock /\ Jenkins!ReadsStayInWord' = Jenkins!ReadsStayInWord
      BY <3>1 DEF AtBlock, Jenkins!ReadsStayInWord
    <3> QED BY <2>1, <3>1, <3>2, <3>3 DEF JenkinsInv
  <2> QED BY <2>1, MixStep, FinalStep, ReturnUnmixedStep DEF Jenkins!Next
<1>3. KeysInit => (call = "hash_jenkins" => JenkinsInv)
  BY <1>1 DEF KeysInit
<1>4. (call = "hash_jenkins" => JenkinsInv) /\ [KeysNext]_keysVars => (call = "hash_jenkins" => JenkinsInv)'
  <2> SUFFICES ASSUME call = "hash_jenkins" => JenkinsInv, [KeysNext]_keysVars, call' = "hash_jenkins"
               PROVE  JenkinsInv'
    OBVIOUS
  <2>1. call = "hash_jenkins"
    BY DEF KeysNext, keysVars
  <2>2. [Jenkins!Next]_(Jenkins!vars)
    BY <2>1 DEF KeysNext, keysVars, jenkinsVars, Jenkins!vars
  <2> QED BY <1>2, <2>1, <2>2
<1> QED BY <1>3, <1>4, PTL DEF KeysSpec

(* The key is hashed the same wherever the caller's buffer lies: for every *)
(* length and every address, the word, half-word and byte branches of      *)
(* hash_jenkins mix the same blocks.                                       *)
THEOREM JenkinsIsPortable ==
    ASSUME MaxLength \in Nat
    PROVE  KeysSpec => []AlignmentIrrelevant
<1>1. ASSUME JenkinsInv PROVE Jenkins!AlignmentIrrelevant
  <2>1. at = "done" => blocks = BlocksOf((size + 11) \div 12)
    BY <1>1 DEF JenkinsInv
  <2> QED BY <2>1 DEF Jenkins!AlignmentIrrelevant, BlocksOf, BlockOf, Places, Place, Registers
<1> QED BY <1>1, JenkinsInvariant, PTL DEF AlignmentIrrelevant

(* The loads of hash_jenkins that reach beyond the key stay in an aligned  *)
(* word with a byte of the key.                                            *)
THEOREM JenkinsStaysInWord ==
    ASSUME MaxLength \in Nat
    PROVE  KeysSpec => []ReadsStayInWord
<1>1. JenkinsInv => Jenkins!ReadsStayInWord
  BY DEF JenkinsInv
<1> QED BY <1>1, JenkinsInvariant, PTL DEF ReadsStayInWord

(* Type correctness of hash_jenkins: k and length stay inside the key, and *)
(* every byte goes to a, b or c with one of four shifts.                   *)
THEOREM JenkinsTypeCorrect ==
    ASSUME MaxLength \in Nat
    PROVE  KeysSpec => []JenkinsTypeOK
<1>1. ASSUME JenkinsInv PROVE Jenkins!TypeOK
  <2>1. /\ address \in 0..3 /\ size \in 0..MaxLength /\ at \in {"loop", "done"}
        /\ k \in 0..size /\ length \in 0..size /\ size \in Nat
    BY <1>1 DEF JenkinsInv
  <2>2. ASSUME NEW m \in Nat, NEW n \in DOMAIN BlocksOf(m)
        PROVE  /\ BlocksOf(m)[n].mixer \in {"mix", "final"}
               /\ BlocksOf(m)[n].added \subseteq {"a", "b", "c"} \X (0..(size - 1)) \X {0, 8, 16, 24}
    <3>1. BlocksOf(m)[n] = BlockOf(n)
      BY DEF BlocksOf
    <3>2. ASSUME NEW i \in Jenkins!KeyBytes(n)
          PROVE  Place(i) \in {"a", "b", "c"} \X (0..(size - 1)) \X {0, 8, 16, 24}
      <4>1. i \in 0..(size - 1)
        BY DEF Jenkins!KeyBytes
      <4>2. (i % 12) \div 4 + 1 \in 1..3 /\ 8 * (i % 4) \in {0, 8, 16, 24}
        BY <4>1
      <4> QED BY <4>1, <4>2 DEF Place, Registers
    <3> QED BY <3>1, <3>2 DEF BlockOf, Places
  <2>3. \E m \in Nat : blocks = BlocksOf(m)
    <3>1. k \div 12 \in Nat /\ (size + 11) \div 12 \in Nat
      BY <2>1
    <3> QED BY <1>1, <3>1 DEF JenkinsInv
  <2> QED BY <2>1, <2>2, <2>3 DEF Jenkins!TypeOK
<1> QED BY <1>1, JenkinsInvariant, PTL DEF JenkinsTypeOK

-----------------------------------------------------------------------------
(* hash_md5.  The labels of bytes.                                         *)
Label == {Md5!Key(i) : i \in Nat} \cup {Md5!Const(x) : x \in Nat} \cup {Md5!Junk}

LEMMA LabelSeq ==
    ASSUME NEW s \in Seq(Label)
    PROVE  Len(s) \in Nat /\ \A i \in 1..Len(s) : s[i] \in Label
OBVIOUS

LEMMA ConcatLabels ==
    ASSUME NEW s \in Seq(Label), NEW t \in Seq(Label)
    PROVE  /\ s \o t \in Seq(Label) /\ Len(s \o t) = Len(s) + Len(t)
           /\ \A i \in 1..Len(s) : (s \o t)[i] = s[i]
           /\ \A i \in 1..Len(t) : (s \o t)[Len(s) + i] = t[i]
OBVIOUS

LEMMA EmptyConcat ==
    ASSUME NEW s \in Seq(Label)
    PROVE  s \o <<>> = s
OBVIOUS

LEMMA SameLabels ==
    ASSUME NEW s \in Seq(Label), NEW t \in Seq(Label), Len(s) = Len(t),
           \A i \in 1..Len(s) : s[i] = t[i]
    PROVE  s = t
OBVIOUS

LEMMA KeyPartSeq ==
    ASSUME NEW from \in Nat, NEW n \in Nat
    PROVE  /\ Md5!KeyPart(from, n) \in Seq(Label) /\ Len(Md5!KeyPart(from, n)) = n
           /\ \A i \in 1..n : Md5!KeyPart(from, n)[i] = Md5!Key(from + i - 1)
<1>1. \A i \in 1..n : Md5!Key(from + i - 1) \in Label
  <2>1. \A i \in 1..n : from + i - 1 \in Nat
    OBVIOUS
  <2> QED BY <2>1 DEF Label
<1> QED BY <1>1 DEF Md5!KeyPart

LEMMA ZerosSeq ==
    ASSUME NEW n \in Nat
    PROVE  /\ Md5!Zeros(n) \in Seq(Label) /\ Len(Md5!Zeros(n)) = n
           /\ \A i \in 1..n : Md5!Zeros(n)[i] = Md5!Const(0)
<1>1. Md5!Const(0) \in Label
  BY DEF Label
<1> QED BY <1>1 DEF Md5!Zeros

(* Two adjoining parts of the key.                                         *)
LEMMA KeyPartConcat ==
    ASSUME NEW from \in Nat, NEW n \in Nat, NEW m \in Nat, NEW then, then = from + n
    PROVE  Md5!KeyPart(from, n) \o Md5!KeyPart(then, m) = Md5!KeyPart(from, n + m)
<1> DEFINE s == Md5!KeyPart(from, n)
           t == Md5!KeyPart(then, m)
           u == Md5!KeyPart(from, n + m)
<1>1. /\ s \in Seq(Label) /\ Len(s) = n /\ \A i \in 1..n : s[i] = Md5!Key(from + i - 1)
      /\ t \in Seq(Label) /\ Len(t) = m /\ \A i \in 1..m : t[i] = Md5!Key(then + i - 1)
      /\ u \in Seq(Label) /\ Len(u) = n + m /\ \A i \in 1..(n + m) : u[i] = Md5!Key(from + i - 1)
  <2>1. then \in Nat /\ n + m \in Nat
    OBVIOUS
  <2> QED BY <2>1, KeyPartSeq
<1> HIDE DEF s, t, u
<1>2. /\ s \o t \in Seq(Label) /\ Len(s \o t) = n + m
      /\ \A i \in 1..n : (s \o t)[i] = s[i]
      /\ \A i \in 1..m : (s \o t)[n + i] = t[i]
  BY <1>1, ConcatLabels
<1>3. ASSUME NEW i \in 1..(n + m) PROVE (s \o t)[i] = u[i]
  <2>1. CASE i <= n
    BY <1>1, <1>2, <2>1
  <2>2. CASE ~(i <= n)
    <3>1. PICK j \in 1..m : i = n + j
      <4>1. i - n \in 1..m /\ i = n + (i - n)
        BY <2>2
      <4> QED BY <4>1
    <3>2. then + j - 1 = from + i - 1
      BY <3>1
    <3>3. (s \o t)[i] = t[j] /\ t[j] = Md5!Key(then + j - 1)
      BY <1>1, <1>2, <3>1
    <3>4. u[i] = Md5!Key(from + i - 1)
      BY <1>1
    <3> QED BY <3>2, <3>3, <3>4
  <2> QED BY <2>1, <2>2
<1> QED BY <1>1, <1>2, <1>3, SameLabels DEF s, t, u

(* What a write to the buffer leaves, and the whole of it as a sequence.   *)
LEMMA WrittenBytes ==
    ASSUME NEW buf \in [0..63 -> Label], NEW from \in Nat, NEW bytes \in Seq(Label)
    PROVE  /\ Md5!Written(buf, from, bytes) \in [0..63 -> Label]
           /\ \A i \in 0..63 : i < from \/ from + Len(bytes) <= i =>
                 Md5!Written(buf, from, bytes)[i] = buf[i]
           /\ \A i \in 0..63 : from <= i /\ i < from + Len(bytes) =>
                 Md5!Written(buf, from, bytes)[i] = bytes[i - from + 1]
<1>0. PICK n \in Nat : n = Len(bytes) /\ \A i \in 1..n : bytes[i] \in Label
  BY LabelSeq, Zenon
<1>1. ASSUME NEW i \in 0..63, from <= i, i < from + n PROVE bytes[i - from + 1] \in Label
  <2>1. PICK j \in 1..n : i - from + 1 = j
    <3>1. i - from + 1 \in 1..n
      BY <1>1
    <3> QED BY <3>1
  <2>2. bytes[j] \in Label
    BY <1>0
  <2> QED BY <2>1, <2>2, Zenon
<1> DEFINE New(i) == IF i >= from /\ i < from + n THEN bytes[i - from + 1] ELSE buf[i]
<1>2. Md5!Written(buf, from, bytes) = [i \in 0..63 |-> New(i)]
  BY <1>0, Zenon DEF Md5!Written
<1>3. \A i \in 0..63 : New(i) \in Label
  BY <1>1
<1>4. ASSUME NEW i \in 0..63, i < from \/ from + n <= i PROVE New(i) = buf[i]
  <2>1. ~(i >= from /\ i < from + n)
    BY <1>4
  <2> QED BY <2>1, Zenon
<1>5. ASSUME NEW i \in 0..63, from <= i, i < from + n PROVE New(i) = bytes[i - from + 1]
  <2>1. i >= from /\ i < from + n
    BY <1>5
  <2> QED BY <2>1, Zenon
<1> HIDE DEF New
<1>6. [i \in 0..63 |-> New(i)] \in [0..63 -> Label] /\ \A i \in 0..63 : [j \in 0..63 |-> New(j)][i] = New(i)
  BY <1>3
<1> QED BY <1>0, <1>2, <1>4, <1>5, <1>6

LEMMA BlockSeq ==
    ASSUME NEW buf \in [0..63 -> Label]
    PROVE  /\ Md5!AsBlock(buf) \in Seq(Label) /\ Len(Md5!AsBlock(buf)) = 64
           /\ \A i \in 1..64 : Md5!AsBlock(buf)[i] = buf[i - 1]
<1>1. \A i \in 1..64 : i - 1 \in 0..63
  OBVIOUS
<1> QED BY <1>1 DEF Md5!AsBlock

LEMMA WrittenKey ==
    ASSUME NEW buf \in [0..63 -> Label], NEW from \in 0..64, NEW n \in 0..(64 - from), NEW f \in Nat
    PROVE  /\ Md5!Written(buf, from, Md5!KeyPart(f, n)) \in [0..63 -> Label]
           /\ \A i \in 0..63 : i < from \/ from + n <= i =>
                 Md5!Written(buf, from, Md5!KeyPart(f, n))[i] = buf[i]
           /\ \A i \in 0..63 : from <= i /\ i < from + n =>
                 Md5!Written(buf, from, Md5!KeyPart(f, n))[i] = Md5!Key(f + (i - from))
<1> DEFINE part == Md5!KeyPart(f, n)
           new == Md5!Written(buf, from, part)
<1>0. from \in Nat /\ n \in Nat
  OBVIOUS
<1>1. part \in Seq(Label) /\ Len(part) = n /\ \A i \in 1..n : part[i] = Md5!Key(f + i - 1)
  BY <1>0, KeyPartSeq
<1> HIDE DEF part
<1>2. /\ new \in [0..63 -> Label]
      /\ \A i \in 0..63 : i < from \/ from + n <= i => new[i] = buf[i]
      /\ \A i \in 0..63 : from <= i /\ i < from + n => new[i] = part[i - from + 1]
  <2>1. /\ new \in [0..63 -> Label]
        /\ \A i \in 0..63 : i < from \/ from + Len(part) <= i => new[i] = buf[i]
        /\ \A i \in 0..63 : from <= i /\ i < from + Len(part) => new[i] = part[i - from + 1]
    BY <1>0, <1>1, WrittenBytes
  <2> HIDE DEF new
  <2> QED BY <1>1, <2>1, Zenon
<1> HIDE DEF new
<1>3. ASSUME NEW i \in 0..63, from <= i, i < from + n PROVE new[i] = Md5!Key(f + (i - from))
  <2>1. PICK j \in 1..n : i - from + 1 = j
    <3>1. i - from + 1 \in 1..n
      BY <1>3
    <3> QED BY <3>1
  <2>2. f + j - 1 = f + (i - from)
    BY <2>1
  <2>3. new[i] = part[j]
    BY <1>2, <1>3, <2>1, Zenon
  <2>4. part[j] = Md5!Key(f + j - 1)
    BY <1>1, Zenon
  <2> QED BY <2>2, <2>3, <2>4, Zenon
<1> QED BY <1>2, <1>3, Zenon DEF new, part

LEMMA WrittenZeros ==
    ASSUME NEW buf \in [0..63 -> Label], NEW from \in 0..64, NEW n \in 0..(64 - from)
    PROVE  /\ Md5!Written(buf, from, Md5!Zeros(n)) \in [0..63 -> Label]
           /\ \A i \in 0..63 : i < from \/ from + n <= i =>
                 Md5!Written(buf, from, Md5!Zeros(n))[i] = buf[i]
           /\ \A i \in 0..63 : from <= i /\ i < from + n =>
                 Md5!Written(buf, from, Md5!Zeros(n))[i] = Md5!Const(0)
<1> DEFINE part == Md5!Zeros(n)
           new == Md5!Written(buf, from, part)
<1>0. from \in Nat /\ n \in Nat
  OBVIOUS
<1>1. part \in Seq(Label) /\ Len(part) = n /\ \A i \in 1..n : part[i] = Md5!Const(0)
  BY <1>0, ZerosSeq
<1> HIDE DEF part
<1>2. /\ new \in [0..63 -> Label]
      /\ \A i \in 0..63 : i < from \/ from + n <= i => new[i] = buf[i]
      /\ \A i \in 0..63 : from <= i /\ i < from + n => new[i] = part[i - from + 1]
  <2>1. /\ new \in [0..63 -> Label]
        /\ \A i \in 0..63 : i < from \/ from + Len(part) <= i => new[i] = buf[i]
        /\ \A i \in 0..63 : from <= i /\ i < from + Len(part) => new[i] = part[i - from + 1]
    BY <1>0, <1>1, WrittenBytes
  <2> HIDE DEF new
  <2> QED BY <1>1, <2>1, Zenon
<1> HIDE DEF new
<1>3. ASSUME NEW i \in 0..63, from <= i, i < from + n PROVE new[i] = Md5!Const(0)
  <2>1. PICK j \in 1..n : i - from + 1 = j
    <3>1. i - from + 1 \in 1..n
      BY <1>3
    <3> QED BY <3>1
  <2>2. new[i] = part[j]
    BY <1>2, <1>3, <2>1, Zenon
  <2> QED BY <1>1, <2>2, Zenon
<1> QED BY <1>2, <1>3, Zenon DEF new, part

-----------------------------------------------------------------------------
(* What hash_md5 keeps: the blocks so far are the key up to the last       *)
(* multiple of 64, the buffer begins with the rest of the key.             *)
Base(n) == n - (n % 64)
HoldsKey(buf, n, from) == \A i \in 0..63 : i < n => buf[i] = Md5!Key(from + i)
Keeps(n, buf, bytes) == bytes = Md5!KeyPart(0, Base(n)) /\ HoldsKey(buf, n % 64, Base(n))

(* lo and hi count the bytes, lo modulo 2^29.                              *)
Wrap == 2^29
Counts(n) == lo = n % Wrap /\ hi = n \div Wrap

Md5Inv ==
    /\ size \in 0..MaxSize /\ given \in 0..size /\ updates \in 0..MaxUpdates
    /\ updates < MaxUpdates \/ (given = size /\ updates > 0)
    /\ at \in {"update", "done"}
    /\ buffer \in [0..63 -> Label]
    /\ at = "update" => Counts(given) /\ Keeps(given, buffer, fed)
    /\ at = "done" => lo = 0 /\ hi = 0 /\ fed = Md5!Padded(size)

(* MD5_Update, the new bytes not reaching the end of a block ...           *)
LEMMA UpdateWithinBlock ==
    ASSUME NEW n \in Nat, given \in Nat, lo % 64 = given % 64, buffer \in [0..63 -> Label],
           Keeps(given, buffer, fed), Md5!FillsNoBlock(given % 64, n), Md5!MD5_Update(n)
    PROVE  buffer' \in [0..63 -> Label] /\ Keeps(given + n, buffer', fed')
<1>0. /\ fed = Md5!KeyPart(0, Base(given))
      /\ \A i \in 0..63 : i < given % 64 => buffer[i] = Md5!Key(Base(given) + i)
  BY Zenon DEF Keeps, HoldsKey
<1>1. PICK u \in 0..63 : u = given % 64
  OBVIOUS
<1>2. u > 0 /\ n < 64 - u
  BY <1>1 DEF Md5!FillsNoBlock
<1>3. (given + n) % 64 = u + n /\ Base(given + n) = Base(given) /\ Base(given) = given - u
  BY <1>1, <1>2 DEF Base
<1>4. buffer' = Md5!Written(buffer, u, Md5!KeyPart(given, n)) /\ fed' = fed
  <2>1. lo % 64 = u /\ Md5!FillsNoBlock(lo % 64, n)
    BY <1>1, Zenon
  <2> QED BY <2>1, Zenon DEF Md5!MD5_Update
<1>5. u \in 0..64 /\ n \in 0..(64 - u)
  BY <1>2
<1>6. /\ buffer' \in [0..63 -> Label]
      /\ \A i \in 0..63 : i < u \/ u + n <= i => buffer'[i] = buffer[i]
      /\ \A i \in 0..63 : u <= i /\ i < u + n => buffer'[i] = Md5!Key(given + (i - u))
  BY <1>4, <1>5, WrittenKey, ZenonT(60)
<1>7. ASSUME NEW i \in 0..63, i < u + n PROVE buffer'[i] = Md5!Key((given - u) + i)
  <2>1. CASE i < u
    BY <1>0, <1>1, <1>3, <1>6, <2>1, Zenon
  <2>2. CASE ~(i < u)
    <3>1. u <= i /\ (given - u) + i = given + (i - u)
      BY <2>2
    <3> QED BY <1>6, <1>7, <3>1, Zenon
  <2> QED BY <2>1, <2>2
<1> QED BY <1>0, <1>3, <1>4, <1>6, <1>7, Zenon DEF Keeps, HoldsKey

(* ... and reaching it: how the lengths are cut,                           *)
Cut(g, n, u, head, start, whole, rest) ==
    /\ u = g % 64 /\ Base(g) = g - u
    /\ head = IF u > 0 THEN 64 - u ELSE 0
    /\ start = g + head /\ start = Base(g) + (IF u > 0 THEN 64 ELSE 0)
    /\ whole = Md5!WholeBlocks(n - head) /\ rest = n - head - whole
    /\ rest = (g + n) % 64 /\ Base(g + n) = start + whole

LEMMA UpdateArithmetic ==
    ASSUME NEW n \in Nat, NEW g \in Nat, ~Md5!FillsNoBlock(g % 64, n)
    PROVE  \E u \in 0..63, head \in Nat, start \in Nat, whole \in Nat, rest \in 0..63 :
              head \in 0..(64 - u) /\ Cut(g, n, u, head, start, whole, rest)
<1>1. PICK u \in 0..63 : u = g % 64
  OBVIOUS
<1>2. PICK q \in Nat : g = 64 * q + u
  <2>1. g \div 64 \in Nat /\ g = 64 * (g \div 64) + u
    BY <1>1
  <2> QED BY <2>1, Zenon
<1>3. PICK head \in 0..(64 - u) : head = IF u > 0 THEN 64 - u ELSE 0
  OBVIOUS
<1>4. PICK r \in Nat : r = n - head
  <2>1. u > 0 => 64 - u <= n
    BY <1>1 DEF Md5!FillsNoBlock
  <2>2. n - head \in Nat
    BY <1>3, <2>1
  <2> QED BY <2>2
<1>5. PICK rest \in 0..63, b \in Nat : rest = r % 64 /\ r = 64 * b + rest
  <2>1. PICK rest \in 0..63 : rest = r % 64
    OBVIOUS
  <2>2. r \div 64 \in Nat /\ r = 64 * (r \div 64) + rest
    BY <2>1
  <2> QED BY <2>1, <2>2, Zenon
<1>6. PICK whole \in Nat : whole = Md5!WholeBlocks(n - head) /\ whole = 64 * b
  <2>1. Md5!WholeBlocks(r) = 64 * b /\ 64 * b \in Nat
    BY <1>5 DEF Md5!WholeBlocks
  <2> QED BY <1>4, <2>1, Zenon
<1>7. PICK c \in Nat : 64 * c = 64 * q + (IF u > 0 THEN 64 ELSE 0)
  <2>1. CASE u > 0
    <3>1. q + 1 \in Nat /\ 64 * (q + 1) = 64 * q + 64
      OBVIOUS
    <3> QED BY <2>1, <3>1
  <2>2. CASE ~(u > 0)
    BY <2>2
  <2> QED BY <2>1, <2>2
<1>8. PICK start \in Nat : start = g + head /\ start = 64 * c
  <2>1. g + head = 64 * c /\ g + head \in Nat
    BY <1>2, <1>3, <1>7
  <2> QED BY <2>1, Zenon
<1>9. Base(g) = g - u /\ Base(g) = 64 * q
  BY <1>1, <1>2 DEF Base
<1>10. g + n = 64 * (c + b) + rest
  BY <1>4, <1>5, <1>8
<1>11. rest = (g + n) % 64
  <2>1. c + b \in Nat
    OBVIOUS
  <2>2. \A m \in Nat : (64 * m + rest) % 64 = rest
    OBVIOUS
  <2> QED BY <1>10, <2>1, <2>2, Zenon
<1>12. Base(g + n) = start + whole
  <2>1. Base(g + n) = (g + n) - rest
    BY <1>11, Zenon DEF Base
  <2>2. 64 * (c + b) = start + whole
    <3>1. \A i, j \in Nat : 64 * (i + j) = 64 * i + 64 * j
      OBVIOUS
    <3>2. 64 * (c + b) = 64 * c + 64 * b
      BY <3>1, Zenon
    <3> QED BY <1>6, <1>8, <3>2
  <2>3. PICK m \in Nat : m = 64 * (c + b)
    OBVIOUS
  <2>4. (g + n) - rest = m
    BY <1>10, <2>3
  <2> QED BY <2>1, <2>2, <2>3, <2>4, Zenon
<1>13. rest = n - head - whole
  BY <1>4, <1>5, <1>6
<1>14. start = Base(g) + (IF u > 0 THEN 64 ELSE 0)
  BY <1>7, <1>8, <1>9
<1>15. Cut(g, n, u, head, start, whole, rest)
  BY <1>1, <1>3, <1>6, <1>8, <1>9, <1>11, <1>12, <1>13, <1>14, Zenon DEF Cut
<1>16. head \in Nat
  OBVIOUS
<1> QED BY <1>15, <1>16, Zenon

(* what the buffer gives to body() once it is full,                        *)
LEMMA BlockOfKey ==
    ASSUME NEW buf \in [0..63 -> Label], NEW base \in Nat,
           \A i \in 0..63 : buf[i] = Md5!Key(base + i)
    PROVE  Md5!AsBlock(buf) = Md5!KeyPart(base, 64)
<1>1. ASSUME NEW i \in 1..64 PROVE buf[i - 1] = Md5!Key(base + i - 1)
  <2>1. PICK j \in 0..63 : j = i - 1 /\ base + i - 1 = base + j
    OBVIOUS
  <2> QED BY <2>1, Zenon
<1> QED BY <1>1, Zenon DEF Md5!AsBlock, Md5!KeyPart

LEMMA CompletedBlock ==
    ASSUME NEW buf \in [0..63 -> Label], NEW base \in Nat, NEW u \in 1..63, NEW g \in Nat,
           g = base + u, HoldsKey(buf, u, base)
    PROVE  Md5!AsBlock(Md5!Written(buf, u, Md5!KeyPart(g, 64 - u))) = Md5!KeyPart(base, 64)
<1> DEFINE new == Md5!Written(buf, u, Md5!KeyPart(g, 64 - u))
<1>1. u \in 0..64 /\ 64 - u \in 0..(64 - u)
  OBVIOUS
<1>2. /\ new \in [0..63 -> Label]
      /\ \A i \in 0..63 : i < u \/ u + (64 - u) <= i => new[i] = buf[i]
      /\ \A i \in 0..63 : u <= i /\ i < u + (64 - u) => new[i] = Md5!Key(g + (i - u))
  BY <1>1, WrittenKey, ZenonT(60)
<1> HIDE DEF new
<1>3. ASSUME NEW i \in 0..63 PROVE new[i] = Md5!Key(base + i)
  <2>1. CASE i < u
    BY <1>2, <2>1, Zenon DEF HoldsKey
  <2>2. CASE ~(i < u)
    <3>1. u <= i /\ i < u + (64 - u) /\ g + (i - u) = base + i
      BY <2>2
    <3> QED BY <1>2, <3>1, Zenon
  <2> QED BY <2>1, <2>2
<1> QED BY <1>2, <1>3, BlockOfKey DEF new

LEMMA KeptAtStart ==
    ASSUME NEW buf \in [0..63 -> Label], NEW n \in 0..63, NEW f \in Nat
    PROVE  /\ Md5!Written(buf, 0, Md5!KeyPart(f, n)) \in [0..63 -> Label]
           /\ HoldsKey(Md5!Written(buf, 0, Md5!KeyPart(f, n)), n, f)
<1>1. 0 \in 0..64 /\ n \in 0..(64 - 0)
  OBVIOUS
<1>2. /\ Md5!Written(buf, 0, Md5!KeyPart(f, n)) \in [0..63 -> Label]
      /\ \A i \in 0..63 : 0 <= i /\ i < 0 + n =>
            Md5!Written(buf, 0, Md5!KeyPart(f, n))[i] = Md5!Key(f + (i - 0))
  BY <1>1, WrittenKey
<1>3. \A i \in 0..63 : 0 <= i /\ 0 + n = n /\ i - 0 = i
  OBVIOUS
<1> QED BY <1>2, <1>3, Zenon DEF HoldsKey

LEMMA KeyPartFirst ==
    ASSUME NEW n \in Nat, NEW m \in Nat
    PROVE  /\ Md5!KeyPart(0, n) \in Seq(Label) /\ Len(Md5!KeyPart(0, n)) = n
           /\ Md5!KeyPart(0, n) \o Md5!KeyPart(n, m) = Md5!KeyPart(0, n + m)
           /\ Md5!KeyPart(0, n) \o <<>> = Md5!KeyPart(0, n)
<1>1. 0 \in Nat /\ n = 0 + n
  OBVIOUS
<1>2. Md5!KeyPart(0, n) \in Seq(Label) /\ Len(Md5!KeyPart(0, n)) = n
  BY <1>1, KeyPartSeq
<1>3. Md5!KeyPart(0, n) \o Md5!KeyPart(n, m) = Md5!KeyPart(0, n + m)
  BY <1>1, KeyPartConcat, ZenonT(60)
<1>4. Md5!KeyPart(0, n) \o <<>> = Md5!KeyPart(0, n)
  BY <1>2, EmptyConcat
<1> QED BY <1>2, <1>3, <1>4

(* and the whole step.                                                     *)
LEMMA UpdateFillsBlock ==
    ASSUME NEW n \in Nat, given \in Nat, lo % 64 = given % 64, buffer \in [0..63 -> Label],
           Keeps(given, buffer, fed), ~Md5!FillsNoBlock(given % 64, n), Md5!MD5_Update(n)
    PROVE  buffer' \in [0..63 -> Label] /\ Keeps(given + n, buffer', fed')
<1>0. fed = Md5!KeyPart(0, Base(given)) /\ HoldsKey(buffer, given % 64, Base(given))
  BY Zenon DEF Keeps
<1>1. PICK u \in 0..63, head \in Nat, start \in Nat, whole \in Nat, rest \in 0..63 :
         head \in 0..(64 - u) /\ Cut(given, n, u, head, start, whole, rest)
  BY UpdateArithmetic, Zenon
<1>2. /\ head \in 0..(64 - u)
      /\ u = given % 64 /\ Base(given) = given - u
      /\ head = IF u > 0 THEN 64 - u ELSE 0
      /\ start = given + head /\ start = Base(given) + (IF u > 0 THEN 64 ELSE 0)
      /\ whole = Md5!WholeBlocks(n - head) /\ rest = n - head - whole
      /\ rest = (given + n) % 64 /\ Base(given + n) = start + whole
  BY <1>1, Zenon DEF Cut
<1>3. PICK base \in Nat : base = Base(given) /\ given = base + u
  <2>1. given - (given % 64) \in Nat
    OBVIOUS
  <2>2. given = (given - (given % 64)) + (given % 64)
    OBVIOUS
  <2> QED BY <1>2, <2>1, <2>2, Zenon DEF Base
<1>4. PICK end \in Nat : end = start + whole
  OBVIOUS
<1> DEFINE first == Md5!Written(buffer, u, Md5!KeyPart(given, head))
<1>5. /\ fed' = (fed \o (IF u > 0 THEN Md5!AsBlock(first) ELSE <<>>)) \o Md5!KeyPart(start, whole)
      /\ buffer' = Md5!Written(first, 0, Md5!KeyPart(end, rest))
  <2> DEFINE used == lo % 64
             head1 == IF used > 0 THEN 64 - used ELSE 0
             first1 == Md5!Written(buffer, used, Md5!KeyPart(given, head1))
             whole1 == Md5!WholeBlocks(n - head1)
  <2>1. ~Md5!FillsNoBlock(used, n)
    BY Zenon
  <2>2. /\ fed' = (fed \o (IF used > 0 THEN Md5!AsBlock(first1) ELSE <<>>))
                  \o Md5!KeyPart(given + head1, whole1)
        /\ buffer' = Md5!Written(first1, 0, Md5!KeyPart(given + head1 + whole1, n - head1 - whole1))
    BY <2>1, Zenon DEF Md5!MD5_Update
  <2>3. used = u
    BY <1>2, Zenon
  <2> HIDE DEF used
  <2>4. head1 = head
    BY <1>2, <2>3, Zenon
  <2> HIDE DEF head1
  <2>5. whole1 = whole
    BY <1>2, <2>4, Zenon
  <2>6. first1 = first
    BY <2>3, <2>4, Zenon
  <2> HIDE DEF whole1, first1, first
  <2>7. given + head1 = start /\ given + head1 + whole1 = end /\ n - head1 - whole1 = rest
    BY <1>2, <1>4, <2>4, <2>5, ZenonT(60)
  <2> QED BY <2>2, <2>3, <2>5, <2>6, <2>7, Zenon
<1>6. first \in [0..63 -> Label]
  <2>1. u \in 0..64
    OBVIOUS
  <2> QED BY <1>2, <2>1, WrittenKey, ZenonT(60)
<1>7. fed \o (IF u > 0 THEN Md5!AsBlock(first) ELSE <<>>) = Md5!KeyPart(0, start)
  <2>1. CASE u > 0
    <3>1. u \in 1..63 /\ head = 64 - u /\ start = base + 64
      BY <1>2, <1>3, <2>1
    <3>2. Md5!AsBlock(first) = Md5!KeyPart(base, 64)
      <4>1. HoldsKey(buffer, u, base)
        BY <1>0, <1>2, <1>3, Zenon
      <4>2. u \in 1..63 /\ given = base + u
        BY <1>3, <3>1, Zenon
      <4>3. Md5!AsBlock(Md5!Written(buffer, u, Md5!KeyPart(given, 64 - u))) = Md5!KeyPart(base, 64)
        BY <4>1, <4>2, CompletedBlock
      <4> QED BY <3>1, <4>3, Zenon
    <3>3. 64 \in Nat
      OBVIOUS
    <3>4. Md5!KeyPart(0, base) \o Md5!KeyPart(base, 64) = Md5!KeyPart(0, base + 64)
      BY <3>3, KeyPartFirst, Zenon
    <3> QED BY <1>0, <1>3, <2>1, <3>1, <3>2, <3>4, Zenon
  <2>2. CASE ~(u > 0)
    <3>1. start = base
      BY <1>2, <1>3, <2>2
    <3> QED BY <1>0, <1>3, <2>2, <3>1, KeyPartFirst, Zenon
  <2> QED BY <2>1, <2>2
<1>8. fed' = Md5!KeyPart(0, end)
  BY <1>4, <1>5, <1>7, KeyPartFirst, ZenonT(60)
<1> HIDE DEF first
<1>9. buffer' \in [0..63 -> Label] /\ HoldsKey(buffer', rest, end)
  BY <1>5, <1>6, KeptAtStart, Zenon
<1> QED BY <1>2, <1>4, <1>8, <1>9, Zenon DEF Keeps

-----------------------------------------------------------------------------
(* The padded message byte by byte, from 0 on, and how far a sequence or   *)
(* a block spells it.                                                      *)
Byte(n, i) ==
    IF i < n THEN Md5!Key(i)
    ELSE IF i = n THEN Md5!Const(128)
    ELSE IF i < n + 1 + Md5!Padding(n) THEN Md5!Const(0)
    ELSE Md5!LengthInBits(n)[i - n - Md5!Padding(n)]
Spells(s, n, b) == s \in Seq(Label) /\ Len(s) = b /\ \A i \in 1..b : s[i] = Byte(n, i - 1)
BlockSpells(buf, n, b) == \A e \in 0..63 : buf[e] = Byte(n, b + e)

LEMMA AppendBytes ==
    ASSUME NEW n \in Nat, NEW s, NEW b \in Nat, Spells(s, n, b),
           NEW t \in Seq(Label), NEW c \in Nat, Len(t) = c,
           \A i \in 1..c : t[i] = Byte(n, b + i - 1)
    PROVE  Spells(s \o t, n, b + c)
<1>1. s \in Seq(Label) /\ Len(s) = b /\ \A i \in 1..b : s[i] = Byte(n, i - 1)
  BY Zenon DEF Spells
<1>2. /\ s \o t \in Seq(Label) /\ Len(s \o t) = b + c
      /\ \A i \in 1..b : (s \o t)[i] = s[i]
      /\ \A i \in 1..c : (s \o t)[b + i] = t[i]
  <2>1. /\ s \o t \in Seq(Label) /\ Len(s \o t) = Len(s) + Len(t)
        /\ \A i \in 1..Len(s) : (s \o t)[i] = s[i]
        /\ \A i \in 1..Len(t) : (s \o t)[Len(s) + i] = t[i]
    BY <1>1, ConcatLabels, Zenon
  <2> QED BY <1>1, <2>1, Zenon
<1>3. ASSUME NEW i \in 1..(b + c) PROVE (s \o t)[i] = Byte(n, i - 1)
  <2>1. CASE i <= b
    <3>1. i \in 1..b
      BY <2>1
    <3> QED BY <1>1, <1>2, <3>1, Zenon
  <2>2. CASE ~(i <= b)
    <3>1. PICK j \in 1..c : i = b + j
      <4>1. i - b \in 1..c /\ i = b + (i - b)
        BY <2>2
      <4> QED BY <4>1, Zenon
    <3>2. (s \o t)[b + j] = t[j] /\ t[j] = Byte(n, b + j - 1)
      BY <1>2, Zenon
    <3>3. b + j - 1 = i - 1
      BY <3>1
    <3> QED BY <3>1, <3>2, <3>3, Zenon
  <2> QED BY <2>1, <2>2
<1> QED BY <1>2, <1>3, Zenon DEF Spells

LEMMA AppendBlock ==
    ASSUME NEW n \in Nat, NEW s, NEW b \in Nat, Spells(s, n, b),
           NEW buf \in [0..63 -> Label], BlockSpells(buf, n, b)
    PROVE  Spells(s \o Md5!AsBlock(buf), n, b + 64)
<1> DEFINE t == Md5!AsBlock(buf)
<1>1. t \in Seq(Label) /\ Len(t) = 64 /\ \A i \in 1..64 : t[i] = buf[i - 1]
  BY BlockSeq, Zenon
<1>2. ASSUME NEW i \in 1..64 PROVE t[i] = Byte(n, b + i - 1)
  <2>1. PICK e \in 0..63 : e = i - 1 /\ b + i - 1 = b + e
    OBVIOUS
  <2> QED BY <1>1, <2>1, Zenon DEF BlockSpells
<1> HIDE DEF t
<1>3. 64 \in Nat
  OBVIOUS
<1> QED BY <1>1, <1>2, <1>3, AppendBytes, ZenonT(60) DEF t

LEMMA KeySpells ==
    ASSUME NEW n \in Nat, NEW b \in 0..n
    PROVE  Spells(Md5!KeyPart(0, b), n, b)
<1>1. b \in Nat /\ 0 \in Nat
  OBVIOUS
<1>2. /\ Md5!KeyPart(0, b) \in Seq(Label) /\ Len(Md5!KeyPart(0, b)) = b
      /\ \A i \in 1..b : Md5!KeyPart(0, b)[i] = Md5!Key(0 + i - 1)
  BY <1>1, KeyPartSeq
<1>3. \A i \in 1..b : 0 + i - 1 = i - 1 /\ i - 1 < n
  OBVIOUS
<1> QED BY <1>2, <1>3, Zenon DEF Spells, Byte

(* The eight bytes of the length.                                          *)
LEMMA LengthSeq ==
    ASSUME NEW n \in Nat
    PROVE  Md5!LengthInBits(n) \in Seq(Label) /\ Len(Md5!LengthInBits(n)) = 8
<1> DEFINE value(j) == IF j <= 4 THEN ((n * 8) \div 256^(j - 1)) % 256
                       ELSE ((n \div 2^29) \div 256^(j - 5)) % 256
<1>1. ASSUME NEW j \in 1..8 PROVE value(j) \in Nat
  <2>1. CASE j = 1
    BY <2>1
  <2>2. CASE j = 2
    BY <2>2
  <2>3. CASE j = 3
    BY <2>3
  <2>4. CASE j = 4
    BY <2>4
  <2>5. CASE j = 5
    BY <2>5
  <2>6. CASE j = 6
    BY <2>6
  <2>7. CASE j = 7
    BY <2>7
  <2>8. CASE j = 8
    BY <2>8
  <2> QED BY <2>1, <2>2, <2>3, <2>4, <2>5, <2>6, <2>7, <2>8
<1> HIDE DEF value
<1>2. \A j \in 1..8 : Md5!Const(value(j)) \in Label
  BY <1>1, Zenon DEF Label
<1>3. Md5!LengthInBits(n) = [j \in 1..8 |-> Md5!Const(value(j))]
  BY Zenon DEF Md5!LengthInBits, value
<1> QED BY <1>2, <1>3

(* A length is a number of wraps of lo and what is left.                   *)
LEMMA CountParts ==
    ASSUME NEW n \in Nat
    PROVE  \E low \in Nat, high \in Nat :
              low < Wrap /\ n = Wrap * high + low /\ n % Wrap = low /\ n \div Wrap = high
<1>1. /\ n % Wrap \in Nat /\ n \div Wrap \in Nat /\ n % Wrap < Wrap
      /\ n = Wrap * (n \div Wrap) + (n % Wrap)
  BY DEF Wrap
<1> QED BY <1>1, Zenon

LEMMA LengthOfKey ==
    ASSUME NEW n \in Nat, Counts(n)
    PROVE  Md5!LengthBytes = Md5!LengthInBits(n)
<1> DEFINE written(j) == IF j = 1 THEN (lo % 32) * 8
                         ELSE IF j <= 4 THEN (lo \div 2^(8 * (j - 1) - 3)) % 256
                         ELSE (hi \div 2^(8 * (j - 5))) % 256
           value(j) == IF j <= 4 THEN ((n * 8) \div 256^(j - 1)) % 256
                       ELSE ((n \div 2^29) \div 256^(j - 5)) % 256
<1>0. PICK low \in Nat, high \in Nat :
        low < Wrap /\ n = Wrap * high + low /\ lo = low /\ hi = high /\ n \div Wrap = high
  BY CountParts, Zenon DEF Counts
<1>1. ASSUME NEW j \in 1..8 PROVE written(j) = value(j)
  <2>1. CASE j = 1
    BY <1>0, <2>1 DEF Wrap
  <2>2. CASE j = 2
    BY <1>0, <2>2 DEF Wrap
  <2>3. CASE j = 3
    BY <1>0, <2>3 DEF Wrap
  <2>4. CASE j = 4
    BY <1>0, <2>4 DEF Wrap
  <2>5. CASE j = 5
    BY <1>0, <2>5 DEF Wrap
  <2>6. CASE j = 6
    BY <1>0, <2>6 DEF Wrap
  <2>7. CASE j = 7
    BY <1>0, <2>7 DEF Wrap
  <2>8. CASE j = 8
    BY <1>0, <2>8 DEF Wrap
  <2> QED BY <2>1, <2>2, <2>3, <2>4, <2>5, <2>6, <2>7, <2>8
<1> HIDE DEF written, value
<1>2. Md5!LengthBytes = [j \in 1..8 |-> Md5!Const(written(j))]
  BY Zenon DEF Md5!LengthBytes, written
<1>3. Md5!LengthInBits(n) = [j \in 1..8 |-> Md5!Const(value(j))]
  BY Zenon DEF Md5!LengthInBits, value
<1> QED BY <1>1, <1>2, <1>3

(* The padded message spells itself, and fills whole blocks: the end of    *)
(* the last block of the key, or that and a block more.                    *)
LEMMA PaddingArithmetic ==
    ASSUME NEW n \in Nat
    PROVE  /\ Md5!Padding(n) \in Nat
           /\ n % 64 <= 55 => n + 9 + Md5!Padding(n) = Base(n) + 64
           /\ ~(n % 64 <= 55) => n + 9 + Md5!Padding(n) = Base(n) + 128
<1>1. PICK u \in 0..63 : u = n % 64
  OBVIOUS
<1>2. PICK pad \in Nat : pad = (119 - u) % 64
  OBVIOUS
<1>3. pad = IF u <= 55 THEN 55 - u ELSE 119 - u
  BY <1>2
<1>4. Md5!Padding(n) = pad /\ Base(n) = n - u
  BY <1>1, <1>2, Zenon DEF Md5!Padding, Base
<1> QED BY <1>1, <1>3, <1>4

LEMMA PaddedSpelt ==
    ASSUME NEW n \in Nat
    PROVE  Spells(Md5!Padded(n), n, n + 9 + Md5!Padding(n))
<1> DEFINE pad == Md5!Padding(n)
           mark == <<Md5!Const(128)>>
           zeros == Md5!Zeros(pad)
           bits == Md5!LengthInBits(n)
<1>1. pad \in Nat
  BY PaddingArithmetic
<1>2. Spells(Md5!KeyPart(0, n), n, n)
  <2>1. n \in 0..n
    OBVIOUS
  <2> QED BY <2>1, KeySpells
<1>3. Spells(Md5!KeyPart(0, n) \o mark, n, n + 1)
  <2>1. mark \in Seq(Label) /\ Len(mark) = 1 /\ mark[1] = Md5!Const(128)
    <3>1. Md5!Const(128) \in Label
      BY DEF Label
    <3> QED BY <3>1
  <2>2. ASSUME NEW i \in 1..1 PROVE mark[i] = Byte(n, n + i - 1)
    <3>1. i = 1 /\ n + i - 1 = n /\ ~(n < n)
      OBVIOUS
    <3> QED BY <2>1, <3>1, Zenon DEF Byte
  <2> HIDE DEF mark
  <2>3. 1 \in Nat
    OBVIOUS
  <2> QED BY <1>2, <2>1, <2>2, <2>3, AppendBytes, Zenon
<1>4. Spells(Md5!KeyPart(0, n) \o mark \o zeros, n, n + 1 + pad)
  <2>1. zeros \in Seq(Label) /\ Len(zeros) = pad /\ \A i \in 1..pad : zeros[i] = Md5!Const(0)
    BY <1>1, ZerosSeq
  <2> HIDE DEF zeros, pad, mark
  <2>2. ASSUME NEW i \in 1..pad PROVE zeros[i] = Byte(n, n + 1 + i - 1)
    <3>1. PICK m \in Nat : m = n + 1 + i - 1 /\ ~(m < n) /\ ~(m = n) /\ m < n + 1 + pad
      BY <1>1
    <3>2. Byte(n, m) = Md5!Const(0)
      BY <3>1, Zenon DEF Byte, pad
    <3> QED BY <2>1, <3>1, <3>2, Zenon
  <2>3. n + 1 \in Nat
    OBVIOUS
  <2> QED BY <1>1, <1>3, <2>1, <2>2, <2>3, AppendBytes, Zenon
<1>5. Spells(Md5!KeyPart(0, n) \o mark \o zeros \o bits, n, n + 1 + pad + 8)
  <2>1. bits \in Seq(Label) /\ Len(bits) = 8
    BY LengthSeq
  <2> HIDE DEF zeros, pad, mark
  <2>2. ASSUME NEW i \in 1..8 PROVE bits[i] = Byte(n, n + 1 + pad + i - 1)
    <3>1. PICK m \in Nat : /\ m = n + 1 + pad + i - 1 /\ ~(m < n) /\ ~(m = n) /\ ~(m < n + 1 + pad)
                           /\ m - n - pad = i
      BY <1>1
    <3>2. Byte(n, m) = bits[m - n - pad]
      BY <3>1, Zenon DEF Byte, pad
    <3> QED BY <3>1, <3>2, Zenon
  <2> HIDE DEF bits
  <2>3. n + 1 + pad \in Nat /\ 8 \in Nat
    BY <1>1
  <2> QED BY <1>4, <2>1, <2>2, <2>3, AppendBytes, Zenon
<1>6. n + 1 + pad + 8 = n + 9 + pad
  BY <1>1
<1> QED BY <1>5, <1>6, Zenon DEF Md5!Padded

LEMMA SpeltAlike ==
    ASSUME NEW n, NEW b \in Nat, NEW s, NEW t, Spells(s, n, b), Spells(t, n, b)
    PROVE  s = t
<1>1. /\ s \in Seq(Label) /\ t \in Seq(Label) /\ Len(s) = b /\ Len(t) = b
      /\ \A i \in 1..b : s[i] = t[i]
  BY Zenon DEF Spells
<1> QED BY <1>1, SameLabels

(* The buffer after the marker, the zeros and the length.                  *)
LEMMA WrittenMark ==
    ASSUME NEW buf \in [0..63 -> Label], NEW u \in 0..63
    PROVE  /\ Md5!Written(buf, u, <<Md5!Const(128)>>) \in [0..63 -> Label]
           /\ Md5!Written(buf, u, <<Md5!Const(128)>>)[u] = Md5!Const(128)
           /\ \A i \in 0..63 : i # u => Md5!Written(buf, u, <<Md5!Const(128)>>)[i] = buf[i]
<1> DEFINE mark == <<Md5!Const(128)>>
           new == Md5!Written(buf, u, mark)
<1>1. mark \in Seq(Label) /\ Len(mark) = 1 /\ mark[1] = Md5!Const(128)
  <2>1. Md5!Const(128) \in Label
    BY DEF Label
  <2> QED BY <2>1
<1> HIDE DEF mark
<1>2. /\ new \in [0..63 -> Label]
      /\ \A i \in 0..63 : i < u \/ u + Len(mark) <= i => new[i] = buf[i]
      /\ \A i \in 0..63 : u <= i /\ i < u + Len(mark) => new[i] = mark[i - u + 1]
  <2>1. u \in Nat
    OBVIOUS
  <2> QED BY <1>1, <2>1, WrittenBytes
<1> HIDE DEF new
<1>3. u <= u /\ u < u + 1 /\ u - u + 1 = 1 /\ \A i \in 0..63 : i # u => i < u \/ u + 1 <= i
  OBVIOUS
<1> QED BY <1>1, <1>2, <1>3, ZenonT(60) DEF new, mark

(* The length field is the last eight bytes of the buffer.                 *)
LEMMA LengthFieldBytes == \A i \in 0..63 : i < 56 + 8 /\ i - 56 + 1 = i - 55
OBVIOUS

LEMMA WrittenLength ==
    ASSUME NEW buf \in [0..63 -> Label], NEW bits \in Seq(Label), Len(bits) = 8
    PROVE  /\ Md5!Written(buf, 56, bits) \in [0..63 -> Label]
           /\ \A i \in 0..63 : i < 56 => Md5!Written(buf, 56, bits)[i] = buf[i]
           /\ \A i \in 0..63 : 56 <= i => Md5!Written(buf, 56, bits)[i] = bits[i - 55]
<1> DEFINE new == Md5!Written(buf, 56, bits)
<1>1. /\ new \in [0..63 -> Label]
      /\ \A i \in 0..63 : i < 56 \/ 56 + Len(bits) <= i => new[i] = buf[i]
      /\ \A i \in 0..63 : 56 <= i /\ i < 56 + Len(bits) => new[i] = bits[i - 56 + 1]
  <2>1. 56 \in Nat
    OBVIOUS
  <2> QED BY <2>1, WrittenBytes, ZenonT(60)
<1> HIDE DEF new
<1>2. \A i \in 0..63 : i < 56 + 8 /\ i - 56 + 1 = i - 55
  BY LengthFieldBytes, Zenon
<1> QED BY <1>1, <1>2, Zenon DEF new

LEMMA ZerosUpTo ==
    ASSUME NEW buf \in [0..63 -> Label], NEW from \in 0..64, NEW last \in from..64
    PROVE  /\ Md5!Written(buf, from, Md5!Zeros(last - from)) \in [0..63 -> Label]
           /\ \A i \in 0..63 : i < from \/ last <= i =>
                 Md5!Written(buf, from, Md5!Zeros(last - from))[i] = buf[i]
           /\ \A i \in 0..63 : from <= i /\ i < last =>
                 Md5!Written(buf, from, Md5!Zeros(last - from))[i] = Md5!Const(0)
<1>1. PICK n \in 0..(64 - from) : n = last - from /\ from + n = last
  OBVIOUS
<1> DEFINE new == Md5!Written(buf, from, Md5!Zeros(n))
<1>2. /\ new \in [0..63 -> Label]
      /\ \A i \in 0..63 : i < from \/ from + n <= i => new[i] = buf[i]
      /\ \A i \in 0..63 : from <= i /\ i < from + n => new[i] = Md5!Const(0)
  BY WrittenZeros
<1> HIDE DEF new
<1>3. /\ new \in [0..63 -> Label]
      /\ \A i \in 0..63 : i < from \/ last <= i => new[i] = buf[i]
      /\ \A i \in 0..63 : from <= i /\ i < last => new[i] = Md5!Const(0)
  BY <1>1, <1>2, Zenon
<1> QED BY <1>1, <1>3, Zenon DEF new

LEMMA ClearedBlock ==
    ASSUME NEW buf \in [0..63 -> Label]
    PROVE  /\ Md5!Written(buf, 0, Md5!Zeros(56)) \in [0..63 -> Label]
           /\ \A i \in 0..63 : i < 56 => Md5!Written(buf, 0, Md5!Zeros(56))[i] = Md5!Const(0)
<1>0. PICK from \in 0..64 : from = 0
  OBVIOUS
<1>1. PICK last \in from..64 : from = 0 /\ last = 56
  BY <1>0
<1> DEFINE new == Md5!Written(buf, from, Md5!Zeros(last - from))
<1>2. /\ new \in [0..63 -> Label]
      /\ \A i \in 0..63 : from <= i /\ i < last => new[i] = Md5!Const(0)
  BY ZerosUpTo, Zenon
<1> HIDE DEF new
<1>3. last - from = 56 /\ \A i \in 0..63 : i < 56 => from <= i /\ i < last
  BY <1>1
<1>4. new = Md5!Written(buf, 0, Md5!Zeros(56))
  BY <1>1, <1>3, Zenon DEF new
<1> QED BY <1>2, <1>3, <1>4, Zenon

InBlock(n, b, u, pad, e) ==
    /\ e < u => Byte(n, b + e) = Md5!Key(b + e)
    /\ e = u => Byte(n, b + e) = Md5!Const(128)
    /\ u < e /\ e < u + 1 + pad => Byte(n, b + e) = Md5!Const(0)
    /\ u + 1 + pad <= e => Byte(n, b + e) = Md5!LengthInBits(n)[e - u - pad]

LEMMA ByteAt ==
    ASSUME NEW b \in Nat, NEW u \in Nat, NEW n, n = b + u, NEW e \in Nat,
           NEW pad \in Nat, pad = Md5!Padding(n)
    PROVE  InBlock(n, b, u, pad, e)
<1>2. PICK m \in Nat : m = b + e
  OBVIOUS
<1>3. /\ (m < n) <=> (e < u)
      /\ (m = n) <=> (e = u)
      /\ (m < n + 1 + pad) <=> (e < u + 1 + pad)
      /\ m - n - pad = e - u - pad
  BY <1>2
<1>4. /\ u < e => ~(e < u) /\ ~(e = u)
      /\ e = u => ~(e < u)
      /\ u + 1 + pad <= e => ~(e < u) /\ ~(e = u) /\ ~(e < u + 1 + pad)
  OBVIOUS
<1>5. Byte(n, m) = IF e < u THEN Md5!Key(m)
                   ELSE IF e = u THEN Md5!Const(128)
                   ELSE IF e < u + 1 + pad THEN Md5!Const(0)
                   ELSE Md5!LengthInBits(n)[e - u - pad]
  BY <1>3, Zenon DEF Byte
<1> QED BY <1>2, <1>4, <1>5, Zenon DEF InBlock

(* The blocks MD5_Final gives to body(): one ...                           *)
Unpadded(n, b, u, buf, bits) ==
    /\ n = b + u
    /\ buf \in [0..63 -> Label] /\ HoldsKey(buf, u, b)
    /\ bits \in Seq(Label) /\ Len(bits) = 8 /\ bits = Md5!LengthInBits(n)

LEMMA LastBlock ==
    ASSUME NEW b \in Nat, NEW u \in 0..55, NEW n, Md5!Padding(n) = 55 - u,
           NEW buf, NEW bits, Unpadded(n, b, u, buf, bits)
    PROVE  LET marked == Md5!Written(buf, u, <<Md5!Const(128)>>)
               filled == Md5!Written(marked, u + 1, Md5!Zeros(56 - (u + 1)))
               new == Md5!Written(filled, 56, bits)
           IN  new \in [0..63 -> Label] /\ BlockSpells(new, n, b)
<1> DEFINE marked == Md5!Written(buf, u, <<Md5!Const(128)>>)
           filled == Md5!Written(marked, u + 1, Md5!Zeros(56 - (u + 1)))
           new == Md5!Written(filled, 56, bits)
<1>1. /\ marked \in [0..63 -> Label] /\ marked[u] = Md5!Const(128)
      /\ \A i \in 0..63 : i # u => marked[i] = buf[i]
  <2>1. u \in 0..63
    OBVIOUS
  <2> QED BY <2>1, WrittenMark, ZenonT(60) DEF Unpadded
<1> HIDE DEF marked
<1>2. /\ filled \in [0..63 -> Label]
      /\ \A i \in 0..63 : i < u + 1 \/ 56 <= i => filled[i] = marked[i]
      /\ \A i \in 0..63 : u + 1 <= i /\ i < 56 => filled[i] = Md5!Const(0)
  <2>1. u + 1 \in 0..64 /\ 56 \in (u + 1)..64
    OBVIOUS
  <2> QED BY <1>1, <2>1, ZerosUpTo, ZenonT(60)
<1> HIDE DEF filled
<1>3. /\ new \in [0..63 -> Label]
      /\ \A i \in 0..63 : i < 56 => new[i] = filled[i]
      /\ \A i \in 0..63 : 56 <= i => new[i] = bits[i - 55]
  BY <1>2, WrittenLength DEF Unpadded
<1> HIDE DEF new
<1>4. ASSUME NEW e \in 0..63 PROVE new[e] = Byte(n, b + e)
  <2>1. /\ e < u => Byte(n, b + e) = Md5!Key(b + e)
        /\ e = u => Byte(n, b + e) = Md5!Const(128)
        /\ u < e /\ e < 56 => Byte(n, b + e) = Md5!Const(0)
        /\ 56 <= e => Byte(n, b + e) = bits[e - 55]
    <3>1. PICK pad \in Nat : pad = Md5!Padding(n) /\ u + 1 + pad = 56 /\ e - u - pad = e - 55
      OBVIOUS
    <3>2. e \in Nat /\ u \in Nat
      OBVIOUS
    <3>3. n = b + u /\ bits = Md5!LengthInBits(n)
      BY Zenon DEF Unpadded
    <3>4. InBlock(n, b, u, pad, e)
      BY <3>1, <3>2, <3>3, ByteAt
    <3> QED BY <3>1, <3>3, <3>4, Zenon DEF InBlock
  <2>2. CASE e < u
    <3>1. e # u /\ e < u + 1 /\ e < 56
      BY <2>2
    <3>2. new[e] = filled[e] /\ filled[e] = marked[e] /\ marked[e] = buf[e]
      BY <1>1, <1>2, <1>3, <3>1, Zenon
    <3>3. buf[e] = Md5!Key(b + e)
      BY <2>2, Zenon DEF Unpadded, HoldsKey
    <3> QED BY <2>1, <2>2, <3>2, <3>3, Zenon
  <2>3. CASE e = u
    <3>1. u < u + 1 /\ u < 56
      OBVIOUS
    <3>2. new[e] = filled[e] /\ filled[e] = marked[e] /\ marked[e] = Md5!Const(128)
      BY <1>1, <1>2, <1>3, <2>3, <3>1, Zenon
    <3> QED BY <2>1, <2>3, <3>2, Zenon
  <2>4. CASE u < e /\ e < 56
    <3>1. u + 1 <= e
      BY <2>4
    <3> QED BY <1>2, <1>3, <2>1, <2>4, <3>1, Zenon
  <2>5. CASE 56 <= e
    BY <1>3, <2>1, <2>5, Zenon
  <2>6. e < u \/ e = u \/ (u < e /\ e < 56) \/ 56 <= e
    OBVIOUS
  <2> QED BY <2>2, <2>3, <2>4, <2>5, <2>6, Zenon
<1> QED BY <1>3, <1>4, ZenonT(60) DEF BlockSpells, new, filled, marked

(* ... or two.                                                             *)
FullBlock(buf, u) ==
    Md5!Written(Md5!Written(buf, u, <<Md5!Const(128)>>), u + 1, Md5!Zeros(64 - (u + 1)))
LengthBlock(buf, u, bits) ==
    Md5!Written(Md5!Written(FullBlock(buf, u), 0, Md5!Zeros(56)), 56, bits)

LEMMA LastTwoBlocks ==
    ASSUME NEW b \in Nat, NEW u \in 56..63, NEW n, Md5!Padding(n) = 119 - u,
           NEW buf, NEW bits, Unpadded(n, b, u, buf, bits)
    PROVE  /\ FullBlock(buf, u) \in [0..63 -> Label]
           /\ BlockSpells(FullBlock(buf, u), n, b)
           /\ LengthBlock(buf, u, bits) \in [0..63 -> Label]
           /\ BlockSpells(LengthBlock(buf, u, bits), n, b + 64)
<1> DEFINE marked == Md5!Written(buf, u, <<Md5!Const(128)>>)
           first == Md5!Written(marked, u + 1, Md5!Zeros(64 - (u + 1)))
           cleared == Md5!Written(first, 0, Md5!Zeros(56))
           new == Md5!Written(cleared, 56, bits)
<1>1. /\ marked \in [0..63 -> Label] /\ marked[u] = Md5!Const(128)
      /\ \A i \in 0..63 : i # u => marked[i] = buf[i]
  <2>1. u \in 0..63
    OBVIOUS
  <2> QED BY <2>1, WrittenMark, ZenonT(60) DEF Unpadded
<1> HIDE DEF marked
<1>2. /\ first \in [0..63 -> Label]
      /\ \A i \in 0..63 : i < u + 1 => first[i] = marked[i]
      /\ \A i \in 0..63 : u + 1 <= i => first[i] = Md5!Const(0)
  <2>1. u + 1 \in 0..64 /\ 64 \in (u + 1)..64 /\ \A i \in 0..63 : i < 64
    OBVIOUS
  <2>2. /\ first \in [0..63 -> Label]
        /\ \A i \in 0..63 : i < u + 1 \/ 64 <= i => first[i] = marked[i]
        /\ \A i \in 0..63 : u + 1 <= i /\ i < 64 => first[i] = Md5!Const(0)
    BY <1>1, <2>1, ZerosUpTo, ZenonT(60)
  <2> HIDE DEF first
  <2> QED BY <2>1, <2>2, Zenon
<1> HIDE DEF first
<1>3. /\ cleared \in [0..63 -> Label]
      /\ \A i \in 0..63 : i < 56 => cleared[i] = Md5!Const(0)
  BY <1>2, ClearedBlock
<1> HIDE DEF cleared
<1>4. /\ new \in [0..63 -> Label]
      /\ \A i \in 0..63 : i < 56 => new[i] = cleared[i]
      /\ \A i \in 0..63 : 56 <= i => new[i] = bits[i - 55]
  BY <1>3, WrittenLength DEF Unpadded
<1> HIDE DEF new
<1>5. ASSUME NEW e \in 0..63 PROVE first[e] = Byte(n, b + e)
  <2>1. /\ e < u => Byte(n, b + e) = Md5!Key(b + e)
        /\ e = u => Byte(n, b + e) = Md5!Const(128)
        /\ u < e => Byte(n, b + e) = Md5!Const(0)
    <3>1. PICK pad \in Nat : pad = Md5!Padding(n) /\ e < u + 1 + pad
      OBVIOUS
    <3>2. e \in Nat /\ u \in Nat
      OBVIOUS
    <3>3. n = b + u
      BY Zenon DEF Unpadded
    <3>4. InBlock(n, b, u, pad, e)
      BY <3>1, <3>2, <3>3, ByteAt
    <3> QED BY <3>1, <3>4, Zenon DEF InBlock
  <2>2. CASE e < u
    <3>1. e # u /\ e < u + 1
      BY <2>2
    <3>2. first[e] = marked[e] /\ marked[e] = buf[e]
      BY <1>1, <1>2, <3>1, Zenon
    <3>3. buf[e] = Md5!Key(b + e)
      BY <2>2, Zenon DEF Unpadded, HoldsKey
    <3> QED BY <2>1, <2>2, <3>2, <3>3, Zenon
  <2>3. CASE e = u
    <3>1. u < u + 1
      OBVIOUS
    <3> QED BY <1>1, <1>2, <2>1, <2>3, <3>1, Zenon
  <2>4. CASE u < e
    <3>1. u + 1 <= e
      BY <2>4
    <3> QED BY <1>2, <2>1, <2>4, <3>1, Zenon
  <2>5. e < u \/ e = u \/ u < e
    OBVIOUS
  <2> QED BY <2>2, <2>3, <2>4, <2>5, Zenon
<1>6. ASSUME NEW e \in 0..63 PROVE new[e] = Byte(n, b + 64 + e)
  <2>1. /\ e < 56 => Byte(n, b + 64 + e) = Md5!Const(0)
        /\ 56 <= e => Byte(n, b + 64 + e) = bits[e - 55]
    <3>1. PICK f \in Nat : f = 64 + e
      OBVIOUS
    <3>2. PICK pad \in Nat : pad = Md5!Padding(n) /\ pad = 119 - u
      OBVIOUS
    <3>3. /\ u \in Nat /\ b + 64 + e = b + f
          /\ u < f /\ f - u - pad = e - 55
          /\ e < 56 => f < u + 1 + pad
          /\ 56 <= e => u + 1 + pad <= f
      BY <3>1, <3>2
    <3>4. n = b + u /\ bits = Md5!LengthInBits(n)
      BY Zenon DEF Unpadded
    <3>5. InBlock(n, b, u, pad, f)
      BY <3>2, <3>3, <3>4, ByteAt
    <3> QED BY <3>3, <3>4, <3>5, Zenon DEF InBlock
  <2>2. e < 56 \/ 56 <= e
    OBVIOUS
  <2> QED BY <1>3, <1>4, <2>1, <2>2, Zenon
<1>7. first = FullBlock(buf, u) /\ new = LengthBlock(buf, u, bits)
  BY Zenon DEF FullBlock, LengthBlock, new, cleared, first, marked
<1> QED BY <1>2, <1>4, <1>5, <1>6, <1>7, ZenonT(60) DEF BlockSpells

(* What lo says of the length: where the partial block ends.              *)
LEMMA CountModulo ==
    ASSUME NEW n \in Nat, Counts(n)
    PROVE  lo % 64 = n % 64 /\ lo \in 0..(2^29 - 1) /\ hi \in Nat
<1>1. PICK low \in Nat, high \in Nat : low < Wrap /\ n = Wrap * high + low /\ lo = low /\ hi = high
  BY CountParts, Zenon DEF Counts
<1>2. lo % 64 = n % 64
  BY <1>1 DEF Wrap
<1>3. lo \in 0..(2^29 - 1)
  BY <1>1 DEF Wrap
<1> QED BY <1>1, <1>2, <1>3

(* MD5_Final completes the padded message.                                 *)
LEMMA FinalFeeds ==
    ASSUME NEW n \in Nat, Counts(n), buffer \in [0..63 -> Label],
           Keeps(n, buffer, fed), Md5!MD5_Final
    PROVE  fed' = Md5!Padded(n)
<1>1. PICK u \in 0..63 : u = n % 64
  OBVIOUS
<1>2. PICK b \in 0..n : b = Base(n) /\ n = b + u
  <2>1. n - u \in 0..n /\ n = (n - u) + u
    BY <1>1
  <2> QED BY <1>1, <2>1, Zenon DEF Base
<1>3. PICK pad \in Nat : /\ pad = Md5!Padding(n)
                         /\ u <= 55 => n + 9 + pad = b + 64 /\ pad = 55 - u
                         /\ ~(u <= 55) => n + 9 + pad = b + 128 /\ pad = 119 - u
  <2>1. PICK pad \in Nat : /\ pad = Md5!Padding(n)
                           /\ u <= 55 => n + 9 + pad = b + 64
                           /\ ~(u <= 55) => n + 9 + pad = b + 128
    BY <1>1, <1>2, PaddingArithmetic, ZenonT(60)
  <2>2. CASE u <= 55
    <3>1. n + 9 + pad = b + 64 /\ pad = 55 - u
      BY <1>2, <2>1, <2>2
    <3> QED BY <2>1, <2>2, <3>1, Zenon
  <2>3. CASE ~(u <= 55)
    <3>1. n + 9 + pad = b + 128 /\ pad = 119 - u
      BY <1>2, <2>1, <2>3
    <3> QED BY <2>1, <2>3, <3>1, Zenon
  <2> QED BY <2>2, <2>3, Zenon
<1> DEFINE bits == Md5!LengthBytes
<1>4. bits = Md5!LengthInBits(n) /\ bits \in Seq(Label) /\ Len(bits) = 8
  BY LengthOfKey, LengthSeq, Zenon
<1>5. Spells(fed, n, b)
  BY <1>2, KeySpells, Zenon DEF Keeps
<1>6. Unpadded(n, b, u, buffer, bits)
  BY <1>1, <1>2, <1>4, Zenon DEF Unpadded, Keeps
<1>7. Spells(Md5!Padded(n), n, n + 9 + pad)
  BY <1>3, PaddedSpelt, Zenon
<1> DEFINE marked == Md5!Written(buffer, u, <<Md5!Const(128)>>)
           first == Md5!Written(marked, u + 1, Md5!Zeros(64 - (u + 1)))
           last == IF Md5!NeedsBlock(64 - (u + 1)) THEN Md5!Written(first, 0, Md5!Zeros(56))
                   ELSE Md5!Written(marked, u + 1, Md5!Zeros(56 - (u + 1)))
<1>8. fed' = (fed \o (IF Md5!NeedsBlock(64 - (u + 1)) THEN Md5!AsBlock(first) ELSE <<>>))
             \o Md5!AsBlock(Md5!Written(last, 56, bits))
  <2> DEFINE used == (lo % 64) + 1
             marked1 == Md5!Written(buffer, used - 1, <<Md5!Const(128)>>)
             first1 == Md5!Written(marked1, used, Md5!Zeros(64 - used))
             last1 == IF Md5!NeedsBlock(64 - used) THEN Md5!Written(first1, 0, Md5!Zeros(56))
                      ELSE Md5!Written(marked1, used, Md5!Zeros(56 - used))
  <2>1. fed' = (fed \o (IF Md5!NeedsBlock(64 - used) THEN Md5!AsBlock(first1) ELSE <<>>))
               \o Md5!AsBlock(Md5!Written(last1, 56, bits))
    BY Zenon DEF Md5!MD5_Final
  <2>2. used = u + 1 /\ used - 1 = u
    BY <1>1, CountModulo
  <2> HIDE DEF used
  <2>3. marked1 = marked
    BY <2>2, Zenon
  <2> HIDE DEF marked1, marked
  <2>4. first1 = first
    BY <2>2, <2>3, Zenon
  <2> HIDE DEF first1, first
  <2>5. last1 = last
    BY <2>2, <2>3, <2>4, Zenon
  <2> HIDE DEF last1, last, bits
  <2> QED BY <2>1, <2>2, <2>4, <2>5, Zenon
<1>9. b \in Nat /\ Len(fed) = b /\ fed \in Seq(Label)
  <2>1. b \in Nat
    OBVIOUS
  <2> QED BY <1>5, <2>1, Zenon DEF Spells
<1> HIDE DEF bits
<1>10. CASE u <= 55
  <2>1. u \in 0..55 /\ Md5!Padding(n) = 55 - u /\ ~Md5!NeedsBlock(64 - (u + 1))
    BY <1>3, <1>10 DEF Md5!NeedsBlock
  <2> DEFINE new == Md5!Written(Md5!Written(marked, u + 1, Md5!Zeros(56 - (u + 1))), 56, bits)
  <2>2. new \in [0..63 -> Label] /\ BlockSpells(new, n, b)
    BY <1>6, <1>9, <2>1, LastBlock, ZenonT(60)
  <2>3. fed' = (fed \o <<>>) \o Md5!AsBlock(new)
    BY <1>8, <2>1, Zenon
  <2> HIDE DEF new, marked, first, last
  <2>4. fed' = fed \o Md5!AsBlock(new)
    BY <1>9, <2>3, EmptyConcat, Zenon
  <2>5. Spells(fed', n, b + 64)
    BY <1>5, <1>9, <2>2, <2>4, AppendBlock, Zenon
  <2>6. b + 64 \in Nat /\ n + 9 + pad = b + 64
    BY <1>3, <1>10
  <2> QED BY <1>7, <2>5, <2>6, SpeltAlike, Zenon
<1>11. CASE ~(u <= 55)
  <2>1. u \in 56..63 /\ Md5!Padding(n) = 119 - u /\ Md5!NeedsBlock(64 - (u + 1))
    BY <1>3, <1>11 DEF Md5!NeedsBlock
  <2> DEFINE new == Md5!Written(Md5!Written(first, 0, Md5!Zeros(56)), 56, bits)
  <2>2. /\ first \in [0..63 -> Label] /\ BlockSpells(first, n, b)
        /\ new \in [0..63 -> Label] /\ BlockSpells(new, n, b + 64)
    <3>1. /\ FullBlock(buffer, u) \in [0..63 -> Label]
          /\ BlockSpells(FullBlock(buffer, u), n, b)
          /\ LengthBlock(buffer, u, bits) \in [0..63 -> Label]
          /\ BlockSpells(LengthBlock(buffer, u, bits), n, b + 64)
      BY <1>6, <1>9, <2>1, LastTwoBlocks
    <3>2. first = FullBlock(buffer, u)
      BY Zenon DEF FullBlock
    <3>3. new = LengthBlock(buffer, u, bits)
      BY Zenon DEF LengthBlock, FullBlock
    <3> HIDE DEF new, first
    <3> QED BY <3>1, <3>2, <3>3, Zenon
  <2>3. fed' = (fed \o Md5!AsBlock(first)) \o Md5!AsBlock(new)
    BY <1>8, <2>1, Zenon
  <2> HIDE DEF new, marked, first, last
  <2>4. Spells(fed \o Md5!AsBlock(first), n, b + 64)
    BY <1>5, <1>9, <2>2, AppendBlock, Zenon
  <2>5. b + 64 \in Nat /\ b + 128 \in Nat /\ b + 64 + 64 = b + 128 /\ n + 9 + pad = b + 128
    BY <1>3, <1>9, <1>11
  <2>6. Spells((fed \o Md5!AsBlock(first)) \o Md5!AsBlock(new), n, b + 64 + 64)
    BY <2>2, <2>4, <2>5, AppendBlock, Zenon
  <2> QED BY <1>7, <2>3, <2>5, <2>6, SpeltAlike, Zenon
<1> QED BY <1>10, <1>11

-----------------------------------------------------------------------------
(* The invariant of hash_md5.                                              *)
LEMMA Md5Init ==
    ASSUME MaxSize \in Nat, MaxUpdates \in Nat \ {0}, Md5!Init
    PROVE  Md5Inv
<1>1. /\ size \in 0..MaxSize /\ given = 0 /\ updates = 0 /\ lo = 0 /\ hi = 0
      /\ buffer = [i \in 0..63 |-> Md5!Junk] /\ fed = <<>> /\ at = "update"
  BY DEF Md5!Init
<1>2. given \in 0..size /\ updates \in 0..MaxUpdates /\ updates < MaxUpdates
  BY <1>1
<1>3. buffer \in [0..63 -> Label]
  BY <1>1 DEF Label
<1>4. Keeps(given, buffer, fed)
  <2>1. given % 64 = 0 /\ Base(given) = 0 /\ \A i \in 0..63 : ~(i < 0)
    BY <1>1 DEF Base
  <2>2. Md5!KeyPart(0, 0) = <<>>
    <3>1. Md5!KeyPart(0, 0) \in Seq(Label) /\ Len(Md5!KeyPart(0, 0)) = 0
      <4>1. 0 \in Nat
        OBVIOUS
      <4> QED BY <4>1, KeyPartSeq
    <3> QED BY <3>1
  <2> QED BY <1>1, <2>1, <2>2, Zenon DEF Keeps, HoldsKey
<1>5. at \in {"update", "done"} /\ at # "done"
  BY <1>1
<1>6. Counts(given)
  <2>1. 0 % Wrap = 0 /\ 0 \div Wrap = 0
    BY DEF Wrap
  <2> QED BY <1>1, <2>1, Zenon DEF Counts
<1> QED BY <1>1, <1>2, <1>3, <1>4, <1>5, <1>6, Zenon DEF Md5Inv

(* A call with the next n bytes of the key, one of several or the last.    *)
LEMMA UpdateStep ==
    ASSUME MaxSize \in Nat, MaxUpdates \in Nat, Md5Inv,
           NEW n \in 0..(size - given), Md5!Update(n),
           updates + 1 < MaxUpdates \/ (updates < MaxUpdates /\ n = size - given)
    PROVE  Md5Inv'
<1>1. /\ size \in 0..MaxSize /\ given \in 0..size /\ updates \in 0..MaxUpdates
      /\ at = "update" /\ buffer \in [0..63 -> Label]
      /\ Counts(given) /\ Keeps(given, buffer, fed)
  BY Zenon DEF Md5Inv, Md5!Update
<1>2. /\ size' = size /\ at' = at /\ given' = given + n /\ updates' = updates + 1
      /\ Md5!MD5_Update(n)
  BY Zenon DEF Md5!Update
<1>3. given \in Nat /\ n \in Nat /\ given + n \in 0..size
  BY <1>1
<1>4. lo' = (given + n) % Wrap /\ hi' = (given + n) \div Wrap
  <2>1. lo' = (lo + n) % Wrap /\ hi' = hi + (IF lo' < lo THEN 1 ELSE 0) + (n \div Wrap)
    BY <1>2, Zenon DEF Md5!MD5_Update, Wrap
  <2>2. PICK gl \in Nat, gh \in Nat : gl < Wrap /\ given = Wrap * gh + gl /\ lo = gl /\ hi = gh
    BY <1>1, <1>3, CountParts, Zenon DEF Counts
  <2>3. PICK nl \in Nat, nh \in Nat : nl < Wrap /\ n = Wrap * nh + nl /\ n \div Wrap = nh
    BY <1>3, CountParts, Zenon
  <2>4. CASE gl + nl < Wrap
    <3>1. (lo + n) % Wrap = gl + nl
      BY <2>2, <2>3, <2>4 DEF Wrap
    <3>2. lo' = gl + nl /\ hi' = gh + nh
      BY <2>1, <2>2, <2>3, <3>1
    <3>3. (given + n) % Wrap = gl + nl /\ (given + n) \div Wrap = gh + nh
      BY <2>2, <2>3, <2>4 DEF Wrap
    <3> QED BY <3>2, <3>3, Zenon
  <2>5. CASE ~(gl + nl < Wrap)
    <3>1. PICK c \in Nat : gl + nl = c + Wrap /\ c < gl /\ c < Wrap
      <4>1. (gl + nl) - Wrap \in Nat /\ (gl + nl) - Wrap < gl /\ (gl + nl) - Wrap < Wrap
            /\ gl + nl = ((gl + nl) - Wrap) + Wrap
        BY <2>2, <2>3, <2>5 DEF Wrap
      <4> QED BY <4>1, Zenon
    <3>2. (lo + n) % Wrap = c
      BY <2>2, <2>3, <3>1 DEF Wrap
    <3>3. lo' = c /\ hi' = gh + 1 + nh
      BY <2>1, <2>2, <2>3, <3>1, <3>2
    <3>4. (given + n) % Wrap = c /\ (given + n) \div Wrap = gh + 1 + nh
      BY <2>2, <2>3, <3>1 DEF Wrap
    <3> QED BY <3>3, <3>4, Zenon
  <2> QED BY <2>4, <2>5, Zenon
<1>5. buffer' \in [0..63 -> Label] /\ Keeps(given + n, buffer', fed')
  <2>1. lo % 64 = given % 64
    BY <1>1, <1>3, CountModulo, Zenon
  <2> QED BY <1>1, <1>2, <1>3, <2>1, UpdateWithinBlock, UpdateFillsBlock, Zenon
<1>6. /\ updates' \in 0..MaxUpdates
      /\ updates' < MaxUpdates \/ (given' = size' /\ updates' > 0)
  BY <1>1, <1>2, <1>3
<1>7. at' \in {"update", "done"} /\ at' # "done"
  BY <1>1, <1>2
<1> QED BY <1>1, <1>2, <1>3, <1>4, <1>5, <1>6, <1>7, Zenon DEF Md5Inv, Counts

LEMMA Md5FinalStep ==
    ASSUME MaxSize \in Nat, MaxUpdates \in Nat, Md5Inv, Md5!Final
    PROVE  Md5Inv'
<1>1. /\ size \in 0..MaxSize /\ given \in 0..size /\ updates \in 0..MaxUpdates
      /\ updates < MaxUpdates \/ (given = size /\ updates > 0)
      /\ at = "update" /\ given = size /\ buffer \in [0..63 -> Label]
      /\ Counts(given) /\ Keeps(given, buffer, fed)
  BY Zenon DEF Md5Inv, Md5!Final
<1>2. /\ size' = size /\ given' = given /\ updates' = updates /\ at' = "done"
      /\ buffer' = [i \in 0..63 |-> Md5!Const(0)] /\ lo' = 0 /\ hi' = 0
      /\ Md5!MD5_Final
  BY Zenon DEF Md5!Final
<1>3. size \in Nat
  BY <1>1
<1>4. fed' = Md5!Padded(size)
  BY <1>1, <1>2, <1>3, FinalFeeds, Zenon
<1>5. buffer' \in [0..63 -> Label]
  BY <1>2 DEF Label
<1>6. at' \in {"update", "done"} /\ at' # "update"
  BY <1>2
<1> QED BY <1>1, <1>2, <1>4, <1>5, <1>6, Zenon DEF Md5Inv

(* hash_md5 keeps its invariant, however long the key is and however it is *)
(* cut: where ctx->lo wraps, ctx->hi takes the carry.                      *)
THEOREM Md5Invariant ==
    ASSUME MaxSize \in Nat, MaxUpdates \in Nat \ {0}
    PROVE  KeysSpec => [](call = "hash_md5" => Md5Inv)
<1>1. Md5!Init => Md5Inv
  BY Md5Init
<1>2. Md5Inv /\ [Md5!Next]_(Md5!vars) => Md5Inv'
  <2>1. ASSUME Md5Inv, Md5!UpdateSome PROVE Md5Inv'
    BY <2>1, UpdateStep, Zenon DEF Md5!UpdateSome
  <2>2. ASSUME Md5Inv, Md5!UpdateRest PROVE Md5Inv'
    <3>1. size - given \in 0..(size - given) /\ updates < MaxUpdates
      <4>1. /\ size \in 0..MaxSize /\ given \in 0..size /\ updates \in 0..MaxUpdates
            /\ updates < MaxUpdates \/ (given = size /\ updates > 0)
        BY <2>2, Zenon DEF Md5Inv
      <4>2. given < size \/ updates = 0
        BY <2>2, Zenon DEF Md5!UpdateRest
      <4> QED BY <4>1, <4>2
    <3>2. Md5!Update(size - given)
      BY <2>2, Zenon DEF Md5!UpdateRest
    <3> QED BY <2>2, <3>1, <3>2, UpdateStep, Zenon
  <2>3. ASSUME Md5Inv, Md5!Final PROVE Md5Inv'
    BY <2>3, Md5FinalStep, Zenon
  <2>4. ASSUME Md5Inv, UNCHANGED Md5!vars PROVE Md5Inv'
    <3>1. UNCHANGED <<size, given, updates, lo, hi, buffer, fed, at>>
      BY <2>4 DEF Md5!vars
    <3> QED BY <2>4, <3>1 DEF Md5Inv, Counts, Keeps, HoldsKey
  <2> QED BY <2>1, <2>2, <2>3, <2>4 DEF Md5!Next
<1>3. KeysInit => (call = "hash_md5" => Md5Inv)
  BY <1>1 DEF KeysInit
<1>4. (call = "hash_md5" => Md5Inv) /\ [KeysNext]_keysVars => (call = "hash_md5" => Md5Inv)'
  <2> SUFFICES ASSUME call = "hash_md5" => Md5Inv, [KeysNext]_keysVars, call' = "hash_md5"
               PROVE  Md5Inv'
    OBVIOUS
  <2>1. call = "hash_md5"
    BY DEF KeysNext, keysVars
  <2>2. [Md5!Next]_(Md5!vars)
    BY <2>1 DEF KeysNext, keysVars, md5Vars, Md5!vars
  <2> QED BY <1>2, <2>1, <2>2
<1> QED BY <1>3, <1>4, PTL DEF KeysSpec

(* Between two calls of MD5_Update nothing is lost: the bytes body() has   *)
(* got and the valid part of the buffer are the key so far, in order.      *)
THEOREM Md5LosesNothing ==
    ASSUME MaxSize \in Nat, MaxUpdates \in Nat \ {0}
    PROVE  KeysSpec => []NothingLost
<1>1. ASSUME Md5Inv, at = "update"
      PROVE  /\ fed \o [i \in 1..(lo % 64) |-> buffer[i - 1]] = Md5!KeyPart(0, given)
             /\ Counts(given)
  <2>1. /\ size \in 0..MaxSize /\ given \in 0..size
        /\ Counts(given) /\ fed = Md5!KeyPart(0, Base(given))
        /\ HoldsKey(buffer, given % 64, Base(given))
    BY <1>1, Zenon DEF Md5Inv, Keeps
  <2>2. PICK u \in 0..63 : u = given % 64
    BY <2>1
  <2>3. PICK b \in Nat : b = Base(given) /\ given = b + u
    <3>1. given - u \in Nat /\ given = (given - u) + u
      BY <2>1, <2>2
    <3> QED BY <2>2, <3>1, Zenon DEF Base
  <2>4. [i \in 1..u |-> buffer[i - 1]] = Md5!KeyPart(b, u)
    <3>1. ASSUME NEW i \in 1..u PROVE buffer[i - 1] = Md5!Key(b + i - 1)
      <4>1. PICK e \in 0..63 : e = i - 1 /\ b + i - 1 = b + e /\ e < u
        OBVIOUS
      <4> QED BY <2>1, <2>2, <2>3, <4>1, Zenon DEF HoldsKey
    <3> QED BY <3>1, Zenon DEF Md5!KeyPart
  <2>5. Md5!KeyPart(0, b) \o Md5!KeyPart(b, u) = Md5!KeyPart(0, given)
    <3>1. u \in Nat
      OBVIOUS
    <3>2. Md5!KeyPart(0, b) \o Md5!KeyPart(b, u) = Md5!KeyPart(0, b + u)
      BY <3>1, KeyPartFirst, Zenon
    <3> QED BY <2>3, <3>2, Zenon
  <2>6. lo % 64 = u
    <3>1. given \in Nat
      BY <2>1
    <3> QED BY <2>1, <2>2, <3>1, CountModulo, Zenon
  <2> QED BY <2>1, <2>3, <2>4, <2>5, <2>6, Zenon
<1>2. Md5Inv => Md5!NothingLost
  BY <1>1, Zenon DEF Md5!NothingLost, Counts, Wrap
<1> QED BY <1>2, Md5Invariant, PTL DEF NothingLost

(* However long the key is and however it is cut into updates, the blocks  *)
(* body() gets are those of the padded message of RFC 1321.                *)
THEOREM Md5FeedsPadded ==
    ASSUME MaxSize \in Nat, MaxUpdates \in Nat \ {0}
    PROVE  KeysSpec => []FeedsPaddedMessage
<1>1. Md5Inv => Md5!FeedsPaddedMessage
  BY Zenon DEF Md5Inv, Md5!FeedsPaddedMessage
<1> QED BY <1>1, Md5Invariant, PTL DEF FeedsPaddedMessage

(* Type correctness of hash_md5: the buffer is a block, lo has 29 bits,    *)
(* and body() gets whole blocks.                                           *)
THEOREM Md5TypeCorrect ==
    ASSUME MaxSize \in Nat, MaxUpdates \in Nat \ {0}
    PROVE  KeysSpec => []Md5TypeOK
<1>1. ASSUME Md5Inv PROVE Md5!TypeOK
  <2>1. /\ size \in 0..MaxSize /\ given \in 0..size /\ updates \in 0..MaxUpdates
        /\ buffer \in [0..63 -> Label] /\ at \in {"update", "done"}
        /\ at = "update" => Counts(given) /\ fed = Md5!KeyPart(0, Base(given))
        /\ at = "done" => lo = 0 /\ hi = 0 /\ fed = Md5!Padded(size)
    BY <1>1, Zenon DEF Md5Inv, Keeps
  <2>2. lo \in 0..(2^29 - 1) /\ hi \in Nat
    <3>1. CASE at = "update"
      <4>1. given \in Nat
        BY <2>1
      <4> QED BY <2>1, <3>1, <4>1, CountModulo, Zenon
    <3>2. CASE at = "done"
      BY <2>1, <3>2
    <3> QED BY <2>1, <3>1, <3>2
  <2>3. Len(fed) % 64 = 0
    <3>1. CASE at = "update"
      <4>1. PICK b \in Nat : b = Base(given) /\ b % 64 = 0
        <5>1. given - (given % 64) \in Nat /\ (given - (given % 64)) % 64 = 0
          BY <2>1
        <5> QED BY <5>1, Zenon DEF Base
      <4>2. Len(Md5!KeyPart(0, b)) = b
        BY KeyPartFirst, Zenon
      <4> QED BY <2>1, <3>1, <4>1, <4>2, Zenon
    <3>2. CASE at = "done"
      <4>1. size \in Nat
        BY <2>1
      <4>2. Len(Md5!Padded(size)) = size + 9 + Md5!Padding(size)
        BY <4>1, PaddedSpelt, Zenon DEF Spells
      <4>3. PICK b \in Nat : b = Base(size) /\ b % 64 = 0
        <5>1. size - (size % 64) \in Nat /\ (size - (size % 64)) % 64 = 0
          BY <4>1
        <5> QED BY <5>1, Zenon DEF Base
      <4>4. PICK m \in Nat : m = size + 9 + Md5!Padding(size) /\ (m = b + 64 \/ m = b + 128)
        BY <4>1, <4>3, PaddingArithmetic
      <4>5. m % 64 = 0
        BY <4>3, <4>4
      <4> QED BY <2>1, <3>2, <4>2, <4>4, <4>5, Zenon
    <3> QED BY <2>1, <3>1, <3>2, Zenon
  <2>4. DOMAIN buffer = 0..63
    BY <2>1
  <2> QED BY <2>1, <2>2, <2>3, <2>4, Zenon DEF Md5!TypeOK
<1> QED BY <1>1, Md5Invariant, PTL DEF Md5TypeOK

-----------------------------------------------------------------------------
(* token_parse.  From where p stands, whole groups of digits are left.     *)
WholeGroups(i) == \E m \in Nat : Len(str) + 1 = i + m * DIGITS_PER_INT

ParseInv ==
    /\ str \in Seq(Parse!Char) /\ p \in Nat
    /\ at \in {"sign", "first", "groups", "done"}
    /\ at = "sign" => p = 1
    /\ at = "first" => p + Parse!DigitCount = Len(str) + 1
    /\ at \in {"groups", "done"} /\ Parse!DigitCount > 0 => WholeGroups(p)

(* `digits` is not negative: what is counted as a sign is a character.     *)
LEMMA Digits ==
    ASSUME str \in Seq(Parse!Char)
    PROVE  Parse!DigitCount \in Nat
<1>1. Len(str) \in Nat
  OBVIOUS
<1>2. ASSUME Parse!At(1) = Parse!MINUS PROVE Len(str) - 1 \in Nat
  <2>1. 1 <= Len(str)
    BY <1>2 DEF Parse!At, Parse!MINUS, Parse!NUL
  <2> QED BY <1>1, <2>1
<1> QED BY <1>1, <1>2, Zenon DEF Parse!DigitCount

LEMMA ParseInit ==
    ASSUME MaxLen \in Nat, Parse!Init
    PROVE  ParseInv
<1>1. str \in Seq(Parse!Char)
  BY DEF Parse!Init, Parse!BoundedSeq, Parse!SeqOf
<1> QED BY <1>1 DEF ParseInv, Parse!Init

LEMMA Multiples ==
    ASSUME NEW d \in Nat \ {0}
    PROVE  /\ \A m \in Nat : m * d \in Nat /\ (m + 1) * d = m * d + d
           /\ \A m \in Nat : (m * d) % d = 0
           /\ \A n \in Nat : n \div d \in Nat /\ n % d \in Nat /\ n = (n \div d) * d + (n % d)
<1>1. \A m \in Nat : m * d \in Nat /\ (m + 1) * d = m * d + d
  OBVIOUS
<1>2. \A m \in Nat : (m * d) % d = 0
  OBVIOUS
<1>3. \A n \in Nat : n \div d \in Nat /\ n % d \in Nat /\ n = (n \div d) * d + (n % d)
  OBVIOUS
<1> QED BY <1>1, <1>2, <1>3

(* token_parse keeps its invariant, for token strings of every length and  *)
(* groups of every size.                                                   *)
THEOREM ParseInvariant ==
    ASSUME DIGITS_PER_INT \in Nat \ {0}, MaxLen \in Nat
    PROVE  KeysSpec => [](call = "token_parse" => ParseInv)
<1>1. Parse!Init => ParseInv
  BY ParseInit
<1>2. ParseInv /\ [Parse!Next]_(Parse!vars) => ParseInv'
  <2> SUFFICES ASSUME ParseInv, [Parse!Next]_(Parse!vars) PROVE ParseInv'
    OBVIOUS
  <2>1. /\ str \in Seq(Parse!Char) /\ p \in Nat /\ Len(str) \in Nat
        /\ at \in {"sign", "first", "groups", "done"} /\ Parse!DigitCount \in Nat
    BY Digits DEF ParseInv
  <2>2. PICK len \in Nat, digits \in Nat : len = Len(str) /\ digits = Parse!DigitCount
    BY <2>1
  <2>3. ASSUME str' = str PROVE Len(str)' = len /\ Parse!DigitCount' = digits
    BY <2>2, <2>3 DEF Parse!DigitCount, Parse!At
  <2>4. CASE Parse!ParseSign
    <3>1. p = 1 /\ at' = "first" /\ str' = str
      BY <2>4 DEF ParseInv, Parse!ParseSign
    <3>2. p' \in Nat /\ p' + digits = len + 1
      <4>1. CASE Parse!At(1) = Parse!MINUS
        <5>1. p' = p + 1 /\ digits = len - 1
          BY <2>2, <2>4, <4>1, Zenon DEF Parse!ParseSign, Parse!DigitCount
        <5> QED BY <3>1, <5>1
      <4>2. CASE Parse!At(1) # Parse!MINUS
        <5>1. p' = p /\ digits = len
          BY <2>2, <2>4, <4>2, Zenon DEF Parse!ParseSign, Parse!DigitCount
        <5> QED BY <3>1, <5>1
      <4> QED BY <4>1, <4>2
    <3> QED BY <2>1, <2>3, <3>1, <3>2 DEF ParseInv
  <2>5. CASE Parse!ParseFirstGroup
    <3>1. at' = "groups" /\ str' = str /\ p' = p + Parse!FirstGroupLen /\ p + digits = len + 1
      BY <2>2, <2>5, Zenon DEF ParseInv, Parse!ParseFirstGroup
    <3>2. PICK first \in Nat : /\ first = Parse!FirstGroupLen
                               /\ digits > 0 => \E m \in Nat : digits = first + m * DIGITS_PER_INT
      <4>1. PICK q \in Nat, r \in Nat : r = digits % DIGITS_PER_INT /\ digits = q * DIGITS_PER_INT + r
        <5>1. /\ digits \div DIGITS_PER_INT \in Nat /\ digits % DIGITS_PER_INT \in Nat
              /\ digits = (digits \div DIGITS_PER_INT) * DIGITS_PER_INT + (digits % DIGITS_PER_INT)
          BY Multiples
        <5> QED BY <5>1, Zenon
      <4>2. CASE r = 0
        <5>1. Parse!FirstGroupLen = DIGITS_PER_INT
          BY <2>2, <4>1, <4>2, Zenon DEF Parse!FirstGroupLen
        <5>2. ASSUME digits > 0 PROVE q - 1 \in Nat /\ digits = DIGITS_PER_INT + (q - 1) * DIGITS_PER_INT
          <6>1. q # 0
            BY <4>1, <4>2, <5>2
          <6>2. PICK m \in Nat : m = q - 1 /\ q = m + 1
            BY <6>1
          <6>3. q * DIGITS_PER_INT = m * DIGITS_PER_INT + DIGITS_PER_INT /\ m * DIGITS_PER_INT \in Nat
            <7>1. /\ (m + 1) * DIGITS_PER_INT = m * DIGITS_PER_INT + DIGITS_PER_INT
                  /\ m * DIGITS_PER_INT \in Nat
              BY Multiples
            <7> QED BY <6>2, <7>1, Zenon
          <6> QED BY <4>1, <4>2, <6>2, <6>3
        <5> QED BY <5>1, <5>2
      <4>3. CASE r # 0
        <5>1. Parse!FirstGroupLen = r
          BY <2>2, <4>1, <4>3, Zenon DEF Parse!FirstGroupLen
        <5>2. digits = r + q * DIGITS_PER_INT
          <6>1. q * DIGITS_PER_INT \in Nat
            BY Multiples
          <6> QED BY <4>1, <6>1
        <5> QED BY <5>1, <5>2
      <4> QED BY <4>2, <4>3
    <3>3. p' \in Nat /\ (digits > 0 => \E m \in Nat : len + 1 = p' + m * DIGITS_PER_INT)
      <4>1. p' = p + first /\ p' \in Nat
        BY <2>1, <3>1, <3>2
      <4>2. ASSUME NEW m \in Nat, digits = first + m * DIGITS_PER_INT PROVE len + 1 = p' + m * DIGITS_PER_INT
        <5>1. m * DIGITS_PER_INT \in Nat
          BY Multiples
        <5> QED BY <2>1, <3>1, <4>1, <4>2, <5>1
      <4> QED BY <3>2, <4>1, <4>2
    <3> QED BY <2>1, <2>3, <3>1, <3>3 DEF ParseInv, WholeGroups
  <2>6. CASE Parse!ParseNextGroup
    <3>1. at = "groups" /\ at' = at /\ str' = str /\ p' = p + DIGITS_PER_INT /\ p <= len
      BY <2>2, <2>6, Zenon DEF Parse!ParseNextGroup
    <3>2. ASSUME digits > 0 PROVE \E m \in Nat : len + 1 = p' + m * DIGITS_PER_INT
      <4>1. PICK n \in Nat : len + 1 = p + n * DIGITS_PER_INT
        BY <2>2, <3>1, <3>2 DEF ParseInv, WholeGroups
      <4>2. n # 0
        BY <2>1, <3>1, <4>1
      <4>3. PICK m \in Nat : n = m + 1
        BY <4>2
      <4>4. PICK left \in Nat : left = m * DIGITS_PER_INT /\ n * DIGITS_PER_INT = left + DIGITS_PER_INT
        <5>1. m * DIGITS_PER_INT \in Nat /\ (m + 1) * DIGITS_PER_INT = m * DIGITS_PER_INT + DIGITS_PER_INT
          BY Multiples
        <5> QED BY <4>3, <5>1, Zenon
      <4>5. len + 1 = p' + left
        <5>1. len + 1 = p + (left + DIGITS_PER_INT)
          BY <4>1, <4>4, Zenon
        <5>2. p + (left + DIGITS_PER_INT) = (p + DIGITS_PER_INT) + left
          BY <2>1
        <5> QED BY <3>1, <5>1, <5>2, Zenon
      <4> QED BY <4>4, <4>5, Zenon
    <3>3. p' \in Nat /\ Len(str)' = len /\ Parse!DigitCount' = digits
      BY <2>1, <2>3, <3>1
    <3>4. digits > 0 => WholeGroups(p)'
      BY <3>2, <3>3, Zenon DEF WholeGroups
    <3> QED BY <2>1, <3>1, <3>3, <3>4 DEF ParseInv
  <2>7. CASE Parse!ParseReturn
    <3>1. at = "groups" /\ at' = "done" /\ str' = str /\ p' = p
      BY <2>7 DEF Parse!ParseReturn
    <3> QED BY <2>1, <2>2, <2>3, <3>1 DEF ParseInv, WholeGroups
  <2>8. CASE UNCHANGED Parse!vars
    <3>1. at' = at /\ str' = str /\ p' = p
      BY <2>8 DEF Parse!vars
    <3> QED BY <2>1, <2>2, <2>3, <3>1 DEF ParseInv, WholeGroups
  <2> QED BY <2>4, <2>5, <2>6, <2>7, <2>8 DEF Parse!Next
<1>3. KeysInit => (call = "token_parse" => ParseInv)
  BY <1>1 DEF KeysInit
<1>4. (call = "token_parse" => ParseInv) /\ [KeysNext]_keysVars => (call = "token_parse" => ParseInv)'
  <2> SUFFICES ASSUME call = "token_parse" => ParseInv, [KeysNext]_keysVars, call' = "token_parse"
               PROVE  ParseInv'
    OBVIOUS
  <2>1. call = "token_parse"
    BY DEF KeysNext, keysVars
  <2>2. [Parse!Next]_(Parse!vars)
    BY <2>1 DEF KeysNext, keysVars, parseVars, Parse!vars
  <2> QED BY <1>2, <2>1, <2>2
<1> QED BY <1>3, <1>4, PTL DEF KeysSpec

(* The groups of digits cover the string once, from the first digit to the *)
(* last, and none reaches behind it.                                       *)
THEOREM ParseTilesString ==
    ASSUME DIGITS_PER_INT \in Nat \ {0}, MaxLen \in Nat
    PROVE  KeysSpec => []GroupsTileString
<1>1. ASSUME ParseInv, at \in {"groups", "done"}, Parse!DigitCount > 0
      PROVE  p <= Len(str) + 1 /\ (Len(str) + 1 - p) % DIGITS_PER_INT = 0
  <2>1. PICK m \in Nat : Len(str) + 1 = p + m * DIGITS_PER_INT
    BY <1>1 DEF ParseInv, WholeGroups
  <2>2. PICK n \in Nat : n = m * DIGITS_PER_INT /\ n % DIGITS_PER_INT = 0
    BY Multiples, Zenon
  <2>3. p \in Nat /\ Len(str) + 1 - p = n /\ p <= Len(str) + 1
    BY <1>1, <2>1, <2>2 DEF ParseInv
  <2> QED BY <2>2, <2>3, Zenon
<1>2. ParseInv => Parse!GroupsTileString
  BY <1>1, Zenon DEF Parse!GroupsTileString
<1> QED BY <1>2, ParseInvariant, PTL DEF GroupsTileString

-----------------------------------------------------------------------------
(* token_parse.  The number a string of digits denotes, prefix by prefix.  *)
LEMMA ValueDef ==
    ASSUME NEW s \in Seq(0..9)
    PROVE  \E v \in [0..Len(s) -> Nat] :
              /\ v[0] = 0 /\ \A i \in 1..Len(s) : v[i] = v[i - 1] * 10 + s[i]
              /\ Parse!Value(s) = v[Len(s)]
<1> DEFINE n == Len(s)
           step == [i \in 1..n |-> [v \in Nat |-> v * 10 + s[i]]]
           eq(g) == [i \in 0..n |-> IF i = 0 THEN 0 ELSE g[i - 1] * 10 + s[i]]
           value == CHOOSE g : g = eq(g)
<1>1. step \in Steps(n, Nat)
  BY DEF Steps
<1>2. n \in Nat /\ 0 \in Nat
  BY DEF Steps
<1>3. ASSUME NEW f, Follows(f, n, Nat, 0, step)
      PROVE  /\ f \in [0..n -> Nat] /\ f[0] = 0
             /\ \A i \in 1..n : f[i] = f[i - 1] * 10 + s[i]
  <2>1. f \in [0..n -> Nat] /\ f[0] = 0
    <3> HIDE DEF step
    <3> QED BY <1>3 DEF Follows
  <2>2. ASSUME NEW i \in 1..n PROVE f[i] = f[i - 1] * 10 + s[i]
    <3>1. f[i - 1] \in Nat
      <4> HIDE DEF n
      <4>1. i - 1 \in 0..n
        BY <1>2
      <4> QED BY <2>1, <4>1
    <3>2. f[i] = step[i][f[i - 1]]
      <4> HIDE DEF step
      <4> QED BY <1>3 DEF Follows
    <3>3. step[i][f[i - 1]] = f[i - 1] * 10 + s[i]
      BY <3>1
    <3> HIDE DEF step
    <3> QED BY <3>2, <3>3
  <2> QED BY <2>1, <2>2
<1>4. PICK f : Follows(f, n, Nat, 0, step)
  <2> HIDE DEF step, n
  <2> QED BY <1>1, <1>2, Recursion, Zenon
<1>5. f = eq(f)
  <2> HIDE DEF step
  <2>1. /\ f \in [0..n -> Nat] /\ f[0] = 0
        /\ \A i \in 1..n : f[i] = f[i - 1] * 10 + s[i]
    BY <1>3, <1>4, Zenon
  <2> HIDE DEF n
  <2>2. \A i \in 0..n : f[i] = IF i = 0 THEN 0 ELSE f[i - 1] * 10 + s[i]
    BY <1>2, <2>1
  <2> QED BY <2>1, <2>2
<1>6. Parse!Value(s) = value[n]
  BY DEF Parse!Value
<1> HIDE DEF eq
<1>7. value = eq(value)
  BY <1>5, Zenon
<1>8. Follows(value, n, Nat, 0, step)
  <2> HIDE DEF value, n
  <2>1. value = [i \in 0..n |-> value[i]] /\ value[0] = 0
    BY <1>2, <1>7 DEF eq
  <2>2. ASSUME NEW i \in 1..n, value[i - 1] \in Nat PROVE value[i] = step[i][value[i - 1]]
    <3>1. value[i] = value[i - 1] * 10 + s[i]
      BY <1>2, <1>7 DEF eq
    <3> QED BY <2>2, <3>1
  <2> HIDE DEF step
  <2> QED BY <1>1, <1>2, <2>1, <2>2, StaysIn
<1> HIDE DEF value
<1>9. /\ value \in [0..n -> Nat] /\ value[0] = 0
      /\ \A i \in 1..n : value[i] = value[i - 1] * 10 + s[i]
  <2> HIDE DEF step, n
  <2> QED BY <1>3, <1>8, Zenon
<1> QED BY <1>6, <1>9

(* The powers of ten.                                                      *)
Power10(n) == LET power[i \in 0..n] == IF i = 0 THEN 1 ELSE 10 * power[i - 1] IN power[n]

LEMMA Power10Def ==
    ASSUME NEW e \in Nat
    PROVE  \E f \in [0..e -> Nat] :
              f[0] = 1 /\ (\A i \in 1..e : f[i] = 10 * f[i - 1]) /\ Power10(e) = f[e]
<1> DEFINE n == e
           step == [i \in 1..n |-> [v \in Nat |-> 10 * v]]
           eq(g) == [i \in 0..n |-> IF i = 0 THEN 1 ELSE 10 * g[i - 1]]
           value == CHOOSE g : g = eq(g)
<1>1. step \in Steps(n, Nat)
  BY DEF Steps
<1>2. n \in Nat /\ 1 \in Nat
  BY DEF Steps
<1>3. ASSUME NEW f, Follows(f, n, Nat, 1, step)
      PROVE  /\ f \in [0..n -> Nat] /\ f[0] = 1
             /\ \A i \in 1..n : f[i] = 10 * f[i - 1]
  <2>1. f \in [0..n -> Nat] /\ f[0] = 1
    <3> HIDE DEF step
    <3> QED BY <1>3 DEF Follows
  <2>2. ASSUME NEW i \in 1..n PROVE f[i] = 10 * f[i - 1]
    <3>1. f[i - 1] \in Nat
      <4> HIDE DEF n
      <4>1. i - 1 \in 0..n
        BY <1>2
      <4> QED BY <2>1, <4>1
    <3>2. f[i] = step[i][f[i - 1]]
      <4> HIDE DEF step
      <4> QED BY <1>3 DEF Follows
    <3>3. step[i][f[i - 1]] = 10 * f[i - 1]
      BY <3>1
    <3> HIDE DEF step
    <3> QED BY <3>2, <3>3
  <2> QED BY <2>1, <2>2
<1>4. PICK f : Follows(f, n, Nat, 1, step)
  <2> HIDE DEF step, n
  <2> QED BY <1>1, <1>2, Recursion, Zenon
<1>5. f = eq(f)
  <2> HIDE DEF step
  <2>1. /\ f \in [0..n -> Nat] /\ f[0] = 1
        /\ \A i \in 1..n : f[i] = 10 * f[i - 1]
    BY <1>3, <1>4, Zenon
  <2> HIDE DEF n
  <2>2. \A i \in 0..n : f[i] = IF i = 0 THEN 1 ELSE 10 * f[i - 1]
    BY <1>2, <2>1
  <2> QED BY <2>1, <2>2
<1>6. Power10(e) = value[n]
  BY DEF Power10
<1> HIDE DEF eq
<1>7. value = eq(value)
  BY <1>5, Zenon
<1>8. Follows(value, n, Nat, 1, step)
  <2> HIDE DEF value, n
  <2>1. value = [i \in 0..n |-> value[i]] /\ value[0] = 1
    BY <1>2, <1>7 DEF eq
  <2>2. ASSUME NEW i \in 1..n, value[i - 1] \in Nat PROVE value[i] = step[i][value[i - 1]]
    <3>1. value[i] = 10 * value[i - 1]
      BY <1>2, <1>7 DEF eq
    <3> QED BY <2>2, <3>1
  <2> HIDE DEF step
  <2> QED BY <1>1, <1>2, <2>1, <2>2, StaysIn
<1> HIDE DEF value
<1>9. /\ value \in [0..n -> Nat] /\ value[0] = 1
      /\ \A i \in 1..n : value[i] = 10 * value[i - 1]
  <2> HIDE DEF step, n
  <2> QED BY <1>3, <1>8, Zenon
<1> QED BY <1>6, <1>9

(* What atoui accumulates when it finds nothing but digits, and in any     *)
(* case a word.                                                            *)
AllDigits(line, len) == \A i \in 1..len : Parse!At(line + i - 1) \in Parse!Digits
Accumulates(a, line, len) ==
    a[0] = 0 /\ \A i \in 1..len : a[i] = (a[i - 1] * 10 + Parse!At(line + i - 1)) % UINT_MOD

LEMMA GroupDef ==
    ASSUME str \in Seq(Parse!Char), NEW line \in Nat \ {0}, NEW len \in Nat
    PROVE  /\ Parse!atoui(line, len) \in Uint
           /\ AllDigits(line, len) =>
              \E a \in [0..len -> Uint] :
                 Accumulates(a, line, len) /\ Parse!atoui(line, len) = a[len]
<1> DEFINE at_(i) == Parse!At(line + i - 1)
<1>a. ASSUME NEW v \in Uint, NEW i \in 1..len PROVE (v * 10 + at_(i)) % UINT_MOD \in Uint
  <2>1. at_(i) \in Nat
    BY DEF Parse!At, Parse!Char, Parse!Digits, Parse!MINUS, Parse!LETTER, Parse!NUL
  <2> HIDE DEF at_
  <2>2. v * 10 + at_(i) \in Nat
    BY <2>1 DEF Uint
  <2> QED BY <2>2, UintAssumption DEF Uint
<1> DEFINE n == len
           step == [i \in 1..n |-> [v \in Uint |-> (v * 10 + at_(i)) % UINT_MOD]]
           eq(g) == [i \in 0..n |-> IF i = 0 THEN 0 ELSE (g[i - 1] * 10 + at_(i)) % UINT_MOD]
           value == CHOOSE g : g = eq(g)
<1>1. step \in Steps(n, Uint)
  BY <1>a, UintAssumption DEF Steps, Uint
<1>2. n \in Nat /\ 0 \in Uint
  BY <1>a, UintAssumption DEF Steps, Uint
<1>3. ASSUME NEW f, Follows(f, n, Uint, 0, step)
      PROVE  /\ f \in [0..n -> Uint] /\ f[0] = 0
             /\ \A i \in 1..n : f[i] = (f[i - 1] * 10 + at_(i)) % UINT_MOD
  <2>1. f \in [0..n -> Uint] /\ f[0] = 0
    <3> HIDE DEF step
    <3> QED BY <1>3 DEF Follows
  <2>2. ASSUME NEW i \in 1..n PROVE f[i] = (f[i - 1] * 10 + at_(i)) % UINT_MOD
    <3>1. f[i - 1] \in Uint
      <4> HIDE DEF n
      <4>1. i - 1 \in 0..n
        BY <1>2
      <4> QED BY <2>1, <4>1
    <3>2. f[i] = step[i][f[i - 1]]
      <4> HIDE DEF step
      <4> QED BY <1>3 DEF Follows
    <3>3. step[i][f[i - 1]] = (f[i - 1] * 10 + at_(i)) % UINT_MOD
      BY <3>1
    <3> HIDE DEF step
    <3> QED BY <3>2, <3>3
  <2> QED BY <2>1, <2>2
<1>4. PICK f : Follows(f, n, Uint, 0, step)
  <2> HIDE DEF step, n
  <2> QED BY <1>1, <1>2, Recursion, Zenon
<1>5. f = eq(f)
  <2> HIDE DEF step
  <2>1. /\ f \in [0..n -> Uint] /\ f[0] = 0
        /\ \A i \in 1..n : f[i] = (f[i - 1] * 10 + at_(i)) % UINT_MOD
    BY <1>3, <1>4, Zenon
  <2> HIDE DEF n
  <2>2. \A i \in 0..n : f[i] = IF i = 0 THEN 0 ELSE (f[i - 1] * 10 + at_(i)) % UINT_MOD
    BY <1>2, <2>1
  <2> QED BY <2>1, <2>2
<1>6. Parse!atoui(line, len) =
        IF \E i \in 1..n : at_(i) \notin Parse!Digits THEN 0 ELSE value[n]
  BY DEF Parse!atoui
<1> HIDE DEF eq
<1>7. value = eq(value)
  BY <1>5, Zenon
<1>8. Follows(value, n, Uint, 0, step)
  <2> HIDE DEF value, n
  <2>1. value = [i \in 0..n |-> value[i]] /\ value[0] = 0
    BY <1>2, <1>7 DEF eq
  <2>2. ASSUME NEW i \in 1..n, value[i - 1] \in Uint PROVE value[i] = step[i][value[i - 1]]
    <3>1. value[i] = (value[i - 1] * 10 + at_(i)) % UINT_MOD
      BY <1>2, <1>7 DEF eq
    <3> QED BY <2>2, <3>1
  <2> HIDE DEF step
  <2> QED BY <1>1, <1>2, <2>1, <2>2, StaysIn
<1> HIDE DEF value
<1>9. /\ value \in [0..n -> Uint] /\ value[0] = 0
      /\ \A i \in 1..n : value[i] = (value[i - 1] * 10 + at_(i)) % UINT_MOD
  <2> HIDE DEF step, n
  <2> QED BY <1>3, <1>8, Zenon
<1>b. value[n] \in Uint
  BY <1>2, <1>9
<1>c. ASSUME AllDigits(line, len)
      PROVE  Parse!atoui(line, len) = value[n]
  BY <1>6, <1>c DEF AllDigits
<1>d. Parse!atoui(line, len) \in Uint
  BY <1>2, <1>6, <1>b
<1>e. Accumulates(value, line, len)
  BY <1>9, Zenon DEF Accumulates
<1> QED BY <1>9, <1>c, <1>d, <1>e, Zenon

(* The remainder of a number that is less than the divisor.                *)
LEMMA SmallRemainder ==
    ASSUME NEW m \in Nat, NEW b \in Nat, b < m
    PROVE  b % m = b
<1>1. PICK q \in Nat, r \in Nat : q = b \div m /\ r = b % m /\ b = q * m + r
  <2>1. m \in Nat \ {0}
    OBVIOUS
  <2>2. b \div m \in Nat /\ b % m \in Nat /\ b = (b \div m) * m + (b % m)
    BY <2>1, Multiples
  <2> QED BY <2>2
<1>2. CASE q = 0
  BY <1>1, <1>2
<1>3. CASE q # 0
  <2>1. PICK k1 \in Nat : q = k1 + 1
    BY <1>3
  <2>2. k1 * m \in Nat /\ (k1 + 1) * m = k1 * m + m
    OBVIOUS
  <2> QED BY <1>1, <2>1, <2>2
<1> QED BY <1>2, <1>3

(* A digit more makes no number smaller.                                   *)
LEMMA TenTimes ==
    ASSUME NEW a \in Nat, NEW d \in 0..9
    PROVE  a <= a * 10 + d
OBVIOUS

Grows(v, n, s) == \A i \in 1..n : s[i] \in 0..9 /\ v[i] = v[i - 1] * 10 + s[i]

LEMMA ValueGrows ==
    ASSUME NEW n \in Nat, NEW v \in [0..n -> Nat], NEW s, Grows(v, n, s), NEW j \in 0..n
    PROVE  \A i \in 0..n : j <= i => v[j] <= v[i]
<1> DEFINE S == {i \in 0..n : j <= i => v[j] <= v[i]}
<1>1. 0 \in S
  <2>1. j <= 0 => j = 0
    OBVIOUS
  <2> QED BY <2>1
<1>2. ASSUME NEW i \in 1..n, i - 1 \in S PROVE i \in S
  <2>1. PICK a \in Nat, b \in Nat, d \in 0..9 : a = v[i - 1] /\ b = v[i] /\ d = s[i] /\ b = a * 10 + d
    <3>1. i - 1 \in 0..n /\ i \in 0..n
      OBVIOUS
    <3> QED BY <3>1 DEF Grows
  <2>2. a <= b
    <3>1. a <= a * 10 + d
      BY TenTimes, Zenon
    <3> QED BY <2>1, <3>1, Zenon
  <2>3. CASE j <= i - 1
    <3>1. PICK c \in Nat : c = v[j] /\ c <= a
      BY <1>2, <2>1, <2>3
    <3>2. c <= b
      BY <2>2, <3>1
    <3>3. v[j] <= v[i]
      BY <2>1, <3>1, <3>2, Zenon
    <3>4. i \in 0..n
      OBVIOUS
    <3> QED BY <3>3, <3>4, Zenon
  <2>4. CASE ~(j <= i - 1)
    <3>1. j <= i => j = i
      BY <2>4
    <3> QED BY <2>1, <3>1
  <2> QED BY <2>3, <2>4
<1>3. \A i \in 0..n : i \in S
  <2> HIDE DEF S
  <2> QED BY <1>1, <1>2, InductionTo
<1> QED BY <1>3

(* A number without leading zero that is less than 10^d has d digits at    *)
(* most, and it is not 0.                                                  *)
LEMMA InRangeLength ==
    ASSUME NEW s \in Seq(0..9), NEW d \in Nat \ {0}, Len(s) # 0, s[1] # 0,
           NEW top \in Nat, Parse!Value(s) < top, top <= Power10(d)
    PROVE  Len(s) <= d /\ Parse!Value(s) # 0
<1>1. PICK n \in Nat \ {0} : n = Len(s)
  OBVIOUS
<1>2. PICK v \in [0..n -> Nat] : /\ v[0] = 0 /\ \A i \in 1..n : v[i] = v[i - 1] * 10 + s[i]
                                /\ Parse!Value(s) = v[n]
  BY <1>1, ValueDef
<1>3. \A i \in 1..n : s[i] \in 0..9
  BY <1>1
<1>4. \A j \in 0..n : v[j] <= v[n]
  <2>1. ASSUME NEW j \in 0..n PROVE \A i \in 0..n : j <= i => v[j] <= v[i]
    <3>1. Grows(v, n, s)
      BY <1>2, <1>3, Zenon DEF Grows
    <3> QED BY <3>1, ValueGrows
  <2>2. n \in 0..n
    OBVIOUS
  <2> QED BY <2>1, <2>2
<1>5. PICK f \in [0..d -> Nat] : f[0] = 1 /\ (\A i \in 1..d : f[i] = 10 * f[i - 1]) /\ Power10(d) = f[d]
  BY Power10Def
<1>6. v[1] >= 1
  <2>1. v[1] = v[0] * 10 + s[1]
    <3>1. 1 \in 1..n /\ 1 - 1 = 0
      OBVIOUS
    <3> QED BY <1>2, <3>1
  <2>2. s[1] \in 0..9 /\ s[1] # 0
    BY <1>3
  <2>3. PICK c \in 0..9 : c = s[1] /\ c # 0
    BY <2>2
  <2>4. v[1] = 0 * 10 + c
    BY <1>2, <2>1, <2>3, Zenon
  <2> QED BY <2>3, <2>4
<1>7. ASSUME n > d PROVE FALSE
  <2> DEFINE S == {i \in 0..d : v[i + 1] >= f[i]}
  <2>1. 0 \in S
    BY <1>5, <1>6
  <2>2. ASSUME NEW i \in 1..d, i - 1 \in S PROVE i \in S
    <3>1. i + 1 \in 1..n /\ (i + 1) - 1 = i /\ (i - 1) + 1 = i /\ i \in 0..n /\ i - 1 \in 0..d
      BY <1>7
    <3>2. v[i + 1] = v[i] * 10 + s[i + 1]
      <4>1. v[i + 1] = v[(i + 1) - 1] * 10 + s[i + 1]
        BY <1>2, <3>1, Zenon
      <4> QED BY <3>1, <4>1, Zenon
    <3>3. v[i] \in Nat /\ f[i - 1] \in Nat /\ s[i + 1] \in 0..9 /\ f[i] = 10 * f[i - 1] /\ v[i] >= f[i - 1]
      <4>1. i - 1 \in 0..d /\ v[(i - 1) + 1] >= f[i - 1]
        BY <2>2
      <4>2. v[i] >= f[i - 1]
        BY <3>1, <4>1, Zenon
      <4>3. v[i] \in Nat /\ f[i - 1] \in Nat
        BY <1>2, <1>5, <3>1, Zenon
      <4>4. s[i + 1] \in 0..9 /\ f[i] = 10 * f[i - 1]
        BY <1>3, <1>5, <3>1, Zenon
      <4> QED BY <4>2, <4>3, <4>4
    <3>4. PICK a \in Nat, b \in Nat, c \in 0..9 : a = v[i] /\ b = f[i - 1] /\ c = s[i + 1] /\ a >= b
      BY <3>3, Zenon
    <3>5. a * 10 + c >= 10 * b
      <4>1. \A x \in Nat, y \in Nat, z \in 0..9 : x >= y => x * 10 + z >= 10 * y
        OBVIOUS
      <4> QED BY <3>4, <4>1, Zenon
    <3>6. v[i + 1] = a * 10 + c /\ f[i] = 10 * b
      BY <3>2, <3>3, <3>4, Zenon
    <3>7. v[i + 1] >= f[i]
      BY <3>5, <3>6, Zenon
    <3> QED BY <3>7
  <2>3. \A i \in 0..d : i \in S
    <3> HIDE DEF S
    <3> QED BY <2>1, <2>2, InductionTo
  <2>4. d \in S
    <3> HIDE DEF S
    <3> QED BY <2>3
  <2>5. v[d + 1] >= f[d] /\ d + 1 \in 0..n
    BY <1>7, <2>4
  <2>6. v[d + 1] <= v[n] /\ v[d + 1] \in Nat /\ v[n] \in Nat /\ f[d] \in Nat
    BY <1>2, <1>4, <1>5, <2>5
  <2> QED BY <1>2, <1>5, <2>5, <2>6
<1>8. v[n] # 0
  <2>1. 1 \in 0..n
    OBVIOUS
  <2> QED BY <1>2, <1>4, <1>6, <2>1
<1> QED BY <1>1, <1>2, <1>7, <1>8

(* atoui returns a number in range as it is.                               *)
LEMMA GroupIsValue ==
    ASSUME str \in Seq(Parse!Char), str \in Seq(0..9), Parse!Value(str) < UINT_MOD
    PROVE  Parse!atoui(1, Len(str)) = Parse!Value(str)
<1>1. PICK n \in Nat : n = Len(str)
  OBVIOUS
<1>2. PICK v \in [0..n -> Nat] : /\ v[0] = 0 /\ \A i \in 1..n : v[i] = v[i - 1] * 10 + str[i]
                                /\ Parse!Value(str) = v[n]
  BY <1>1, ValueDef
<1>3. \A i \in 1..n : str[i] \in 0..9
  BY <1>1
<1>4. \A i \in 0..n : v[i] < UINT_MOD
  <2>1. ASSUME NEW j \in 0..n PROVE \A i \in 0..n : j <= i => v[j] <= v[i]
    <3>1. Grows(v, n, str)
      BY <1>2, <1>3, Zenon DEF Grows
    <3> QED BY <3>1, ValueGrows
  <2>2. n \in 0..n
    OBVIOUS
  <2>3. ASSUME NEW j \in 0..n PROVE v[j] < UINT_MOD
    <3>1. v[j] <= v[n] /\ v[j] \in Nat /\ v[n] \in Nat /\ v[n] < UINT_MOD
      BY <1>2, <2>1, <2>2
    <3> QED BY <3>1, UintAssumption
  <2> QED BY <2>3
<1>5. \A i \in 1..n : 1 + i - 1 = i /\ Parse!At(i) = str[i]
  BY <1>1 DEF Parse!At
<1>6. PICK a \in [0..n -> Uint] :
          /\ a[0] = 0 /\ \A i \in 1..n : a[i] = (a[i - 1] * 10 + str[i]) % UINT_MOD
          /\ Parse!atoui(1, n) = a[n]
  <2>1. \A i \in 1..n : Parse!At(1 + i - 1) = str[i] /\ str[i] \in Parse!Digits
    BY <1>3, <1>5 DEF Parse!Digits
  <2>2. 1 \in Nat \ {0}
    OBVIOUS
  <2>3. \A i \in 1..n : Parse!At(1 + i - 1) \in Parse!Digits
    BY <2>1, Zenon
  <2>4. PICK a \in [0..n -> Uint] :
            /\ a[0] = 0 /\ \A i \in 1..n : a[i] = (a[i - 1] * 10 + Parse!At(1 + i - 1)) % UINT_MOD
            /\ Parse!atoui(1, n) = a[n]
    <3>1. AllDigits(1, n)
      BY <2>3, Zenon DEF AllDigits
    <3>2. \E a \in [0..n -> Uint] : Accumulates(a, 1, n) /\ Parse!atoui(1, n) = a[n]
      BY <2>2, <3>1, GroupDef
    <3> QED BY <3>2, Zenon DEF Accumulates
  <2> QED BY <2>1, <2>4, Zenon
<1>7. \A i \in 0..n : a[i] = v[i]
  <2> DEFINE S == {i \in 0..n : a[i] = v[i]}
  <2>1. 0 \in S
    BY <1>2, <1>6
  <2>2. ASSUME NEW i \in 1..n, i - 1 \in S PROVE i \in S
    <3>1. i \in 0..n /\ v[i] = v[i - 1] * 10 + str[i] /\ a[i - 1] = v[i - 1]
      BY <1>2, <2>2
    <3>2. a[i] = v[i] % UINT_MOD
      BY <1>6, <3>1
    <3>3. v[i] \in Nat /\ v[i] < UINT_MOD
      BY <1>2, <1>4, <3>1
    <3>4. v[i] % UINT_MOD = v[i]
      BY <3>3, SmallRemainder, UintAssumption
    <3> QED BY <3>1, <3>2, <3>4
  <2>3. \A i \in 0..n : i \in S
    <3> HIDE DEF S
    <3> QED BY <2>1, <2>2, InductionTo
  <2> QED BY <2>3
<1> QED BY <1>1, <1>2, <1>6, <1>7

(* Tokens of one word that are not negative compare as numbers.            *)
OneWordToken(w) ==
    [signum |-> IF w > 0 THEN 1 ELSE 0, length |-> 1, mag |-> [i \in 0..3 |-> IF i = 0 THEN w ELSE 0]]

LEMMA CompareOneWord ==
    ASSUME NEW w \in Uint, NEW u \in Uint
    PROVE  token_cmp(OneWordToken(w), OneWordToken(u)) = IF w = u THEN 0 ELSE Greater(w > u)
<1> DEFINE t == OneWordToken(w)
           q == OneWordToken(u)
           diff == {i \in 0..(t.length - 1) : t.mag[i] # q.mag[i]}
           first == CHOOSE i \in diff : \A j \in diff : i <= j
<1>1. /\ t.signum = (IF w > 0 THEN 1 ELSE 0) /\ t.length = 1 /\ t.mag[0] = w
      /\ q.signum = (IF u > 0 THEN 1 ELSE 0) /\ q.length = 1 /\ q.mag[0] = u
  BY DEF OneWordToken
<1>2. token_cmp(t, q) =
        IF t.signum # q.signum THEN Greater(t.signum > q.signum)
        ELSE IF t.signum = 0 THEN 0
        ELSE IF t.length # q.length THEN Greater(t.length > q.length)
        ELSE IF diff = {} THEN 0
        ELSE Greater(t.mag[first] > q.mag[first])
  BY Zenon DEF token_cmp
<1>3. diff = IF w = u THEN {} ELSE {0}
  <2> HIDE DEF t, q
  <2>1. 0..(t.length - 1) = {0}
    BY <1>1
  <2> QED BY <1>1, <2>1
<1>4. w # u => first = 0
  <2> SUFFICES ASSUME w # u PROVE first = 0
    OBVIOUS
  <2>1. diff = {0}
    BY <1>3
  <2> HIDE DEF diff
  <2> QED BY <2>1
<1> HIDE DEF t, q, first, diff
<1>5. w \in Nat /\ u \in Nat
  BY UintAssumption DEF Uint
<1>6. CASE w = u
  <2>1. diff = {}
    BY <1>3, <1>6
  <2>2. t.signum = q.signum /\ t.length = q.length
    BY <1>1, <1>6
  <2>3. token_cmp(t, q) = 0
    BY <1>2, <2>1, <2>2, Zenon
  <2> QED BY <1>6, <2>3 DEF t, q
<1>7. CASE w # u
  <2>1. first = 0 /\ diff # {}
    BY <1>3, <1>4, <1>7
  <2>2. token_cmp(t, q) = IF t.signum # q.signum THEN Greater(t.signum > q.signum)
                          ELSE IF t.signum = 0 THEN 0 ELSE Greater(w > u)
    BY <1>1, <1>2, <2>1, Zenon
  <2>3. token_cmp(t, q) = Greater(w > u)
    BY <1>1, <1>5, <1>7, <2>2 DEF Greater
  <2> QED BY <1>7, <2>3 DEF t, q
<1> QED BY <1>6, <1>7

(* A number in range is parsed in one group: its digits are the first      *)
(* group, and the word is its value.                                       *)
ParsedInv ==
    /\ Len(str) <= MaxLen /\ p >= 1 /\ parsed \in Token
    /\ at = "sign" => parsed = token_size(token_init, 1)
    /\ Parse!InRange =>
          /\ at = "first" => /\ p = 1
                            /\ parsed = [token_size(token_init, 1) EXCEPT
                                            !.signum = IF Parse!Value(str) > 0 THEN 1 ELSE 0]
          /\ at \in {"groups", "done"} => p > Len(str) /\ parsed = OneWordToken(Parse!Value(str))

(* Words of the size the code relies on: 10^DIGITS_PER_INT exceeds a word. *)
ParseConstants ==
    /\ DIGITS_PER_INT \in Nat \ {0} /\ MaxLen \in Nat /\ RADIX_VAL \in Nat
    /\ UINT_MOD <= Power10(DIGITS_PER_INT)

LEMMA InRangeShape ==
    ASSUME ParseConstants, str \in Seq(Parse!Char), Parse!InRange
    PROVE  /\ str \in Seq(0..9) /\ Parse!Value(str) \in Uint /\ Parse!At(1) # Parse!MINUS
           /\ Parse!DigitCount = Len(str) /\ Len(str) \in 1..DIGITS_PER_INT
           /\ Parse!FirstGroupLen = Len(str)
           /\ (str = <<0>>) = (Parse!Value(str) = 0)
<1>1. PICK n \in Nat \ {0} : n = Len(str)
  BY DEF Parse!InRange
<1>2. /\ \A i \in 1..n : str[i] \in 0..9
      /\ (str[1] = 0 => n = 1) /\ Parse!Value(str) < UINT_MOD
  BY <1>1 DEF Parse!InRange, Parse!Digits
<1>3. str \in Seq(0..9)
  BY <1>1, <1>2
<1>4. PICK v \in [0..n -> Nat] : /\ v[0] = 0 /\ \A i \in 1..n : v[i] = v[i - 1] * 10 + str[i]
                                /\ Parse!Value(str) = v[n]
  BY <1>1, <1>3, ValueDef
<1>5. Parse!Value(str) \in Nat
  BY <1>4
<1>6. Parse!Value(str) \in Uint
  BY <1>2, <1>5, UintAssumption DEF Uint
<1>7. Parse!At(1) = str[1] /\ str[1] \in 0..9 /\ Parse!At(1) # Parse!MINUS
  BY <1>1, <1>2 DEF Parse!At, Parse!MINUS
<1>8. Parse!DigitCount = n
  BY <1>1, <1>7, Zenon DEF Parse!DigitCount
<1>9. ASSUME str[1] = 0
      PROVE  n \in 1..DIGITS_PER_INT /\ str = <<0>> /\ Parse!Value(str) = 0
  <2>1. n = 1 /\ 1 \in 1..n
    BY <1>2, <1>9
  <2>2. v[1] = v[0] * 10 + str[1]
    <3>1. v[1] = v[1 - 1] * 10 + str[1]
      BY <1>4, <2>1, Zenon
    <3> QED BY <3>1
  <2>3. v[1] = 0 * 10 + 0
    BY <1>4, <1>9, <2>2, Zenon
  <2>4. Parse!Value(str) = 0
    BY <1>4, <2>1, <2>3
  <2>5. str = <<0>>
    <3>1. <<0>> \in Seq(0..9) /\ Len(<<0>>) = 1 /\ <<0>>[1] = 0
      OBVIOUS
    <3>2. \A s \in Seq(0..9), t \in Seq(0..9) :
             Len(s) = 1 /\ Len(t) = 1 /\ s[1] = t[1] => s = t
      OBVIOUS
    <3> QED BY <1>1, <1>3, <1>9, <2>1, <3>1, <3>2, Zenon
  <2>6. n \in 1..DIGITS_PER_INT
    BY <2>1 DEF ParseConstants
  <2> QED BY <2>4, <2>5, <2>6
<1>10. ASSUME str[1] # 0
       PROVE  n \in 1..DIGITS_PER_INT /\ str # <<0>> /\ Parse!Value(str) # 0
  <2>1. n <= DIGITS_PER_INT /\ Parse!Value(str) # 0
    BY <1>1, <1>2, <1>3, <1>10, InRangeLength, UintAssumption DEF ParseConstants
  <2>2. str # <<0>>
    BY <1>10
  <2>3. n \in 1..DIGITS_PER_INT
    BY <2>1 DEF ParseConstants
  <2> QED BY <2>1, <2>2, <2>3
<1>11. n \in 1..DIGITS_PER_INT /\ (str = <<0>>) = (Parse!Value(str) = 0)
  BY <1>9, <1>10
<1>12. Parse!FirstGroupLen = n
  <2>1. PICK d \in Nat \ {0} : d = DIGITS_PER_INT
    BY DEF ParseConstants
  <2>2. CASE n = d
    <3>1. n % d = 0
      <4>1. (1 * d) % d = 0
        BY Multiples
      <4> QED BY <2>2, <4>1
    <3> QED BY <1>8, <2>1, <2>2, <3>1, Zenon DEF Parse!FirstGroupLen
  <2>3. CASE n # d
    <3>1. n < d
      BY <1>11, <2>1, <2>3
    <3>2. n % d = n
      BY <3>1, SmallRemainder
    <3>3. n # 0
      OBVIOUS
    <3> QED BY <1>8, <2>1, <3>2, <3>3, Zenon DEF Parse!FirstGroupLen
  <2> QED BY <2>2, <2>3
<1> QED BY <1>1, <1>3, <1>6, <1>7, <1>8, <1>11, <1>12

LEMMA ParsedInit ==
    ASSUME ParseConstants, Parse!Init
    PROVE  ParsedInv
<1>1. Len(str) <= MaxLen
  <2>1. PICK m \in 0..MaxLen : str \in [1..m -> Parse!Char]
    BY Zenon DEF Parse!Init, Parse!BoundedSeq, Parse!SeqOf
  <2>2. m \in Nat /\ m <= MaxLen
    BY DEF ParseConstants
  <2>3. Len(str) = m
    <3>1. DOMAIN str = 1..m
      BY <2>1
    <3> QED BY <2>2, <3>1
  <2> QED BY <2>2, <2>3
<1>2. p = 1 /\ at = "sign" /\ parsed = token_size(token_init, 1)
  BY Zenon DEF Parse!Init, Parse!token_size, Parse!token_init, token_size, token_init
<1>3. parsed \in Token
  BY <1>2, UintAssumption DEF token_size, token_init, Token, Uint
<1> QED BY <1>1, <1>2, <1>3 DEF ParsedInv

(* What atoui and add_next_word leave in the token are words.              *)
LEMMA WordsStayWords ==
    ASSUME ParseConstants, ParseInv, p >= 1, parsed \in Token
    PROVE  /\ \A n \in Nat : Parse!atoui(p, n) \in Uint
           /\ \A w \in Uint, m \in Uint : Parse!add_next_word(w, m) \in Uint
           /\ \A w \in Uint : [parsed EXCEPT !.mag[0] = w] \in Token
           /\ parsed.mag[0] \in Uint
           /\ Parse!FirstGroupLen \in Nat
<1>1. str \in Seq(Parse!Char) /\ p \in Nat \ {0}
  BY DEF ParseInv
<1>2. \A n \in Nat : Parse!atoui(p, n) \in Uint
  BY <1>1, GroupDef
<1>3. ASSUME NEW w \in Uint, NEW m \in Uint PROVE Parse!add_next_word(w, m) \in Uint
  <2>1. PICK x \in Nat : x = RADIX_VAL * w
    BY UintAssumption DEF ParseConstants, Uint
  <2>2. PICK y \in Nat : y = (x % UINT_MOD) + m
    BY UintAssumption DEF Uint
  <2>3. y % UINT_MOD \in Uint
    BY UintAssumption DEF Uint
  <2> QED BY <2>1, <2>2, <2>3, Zenon DEF Parse!add_next_word
<1>4. /\ \A w \in Uint : [parsed EXCEPT !.mag[0] = w] \in Token
      /\ parsed.mag[0] \in Uint
  <2>1. parsed.mag \in [0..3 -> Uint]
    BY DEF Token
  <2>2. ASSUME NEW w \in Uint PROVE [parsed.mag EXCEPT ![0] = w] \in [0..3 -> Uint]
    BY <2>1
  <2>3. ASSUME NEW w \in Uint PROVE [parsed EXCEPT !.mag[0] = w] \in Token
    BY <2>2 DEF Token
  <2> QED BY <2>1, <2>3
<1>5. Parse!FirstGroupLen \in Nat
  <2>1. Parse!DigitCount \in Nat /\ DIGITS_PER_INT \in Nat \ {0}
    BY <1>1, Digits DEF ParseConstants
  <2>2. Parse!DigitCount % DIGITS_PER_INT \in Nat
    BY <2>1, Multiples
  <2> QED BY <2>1, <2>2, Zenon DEF Parse!FirstGroupLen
<1> QED BY <1>2, <1>3, <1>4, <1>5

LEMMA ParseSignStep ==
    ASSUME ParseConstants, ParseInv, ParsedInv, Parse!ParseSign
    PROVE  ParsedInv'
<1> DEFINE neg == Parse!At(1) = Parse!MINUS
           sg == IF neg THEN NEGATIVE ELSE IF str = <<0>> THEN 0 ELSE 1
<1>1. /\ at = "sign" /\ at' = "first" /\ str' = str /\ p = 1
      /\ parsed = token_size(token_init, 1)
      /\ p' = (IF neg THEN p + 1 ELSE p) /\ parsed' = [parsed EXCEPT !.signum = sg]
  <2>1. /\ at = "sign" /\ at' = "first" /\ str' = str
        /\ p' = (IF neg THEN p + 1 ELSE p) /\ parsed' = [parsed EXCEPT !.signum = sg]
    BY Zenon DEF Parse!ParseSign, Parse!NEGATIVE, NEGATIVE
  <2> QED BY <2>1, Zenon DEF ParseInv, ParsedInv
<1>2. Len(str)' <= MaxLen /\ p' >= 1
  BY <1>1 DEF ParsedInv
<1>3. parsed' \in Token
  <2>1. sg \in {0, 1, NEGATIVE}
    OBVIOUS
  <2> HIDE DEF sg
  <2> QED BY <1>1, <2>1 DEF ParsedInv, Token
<1>4. (Parse!InRange)' = Parse!InRange /\ (Parse!Value(str))' = Parse!Value(str)
  BY <1>1 DEF Parse!InRange
<1>5. ASSUME Parse!InRange
      PROVE  /\ p' = 1
             /\ parsed' = [token_size(token_init, 1) EXCEPT
                             !.signum = IF Parse!Value(str) > 0 THEN 1 ELSE 0]
  <2>1. /\ Parse!Value(str) \in Nat /\ Parse!At(1) # Parse!MINUS
        /\ (str = <<0>>) = (Parse!Value(str) = 0)
    <3>1. /\ Parse!Value(str) \in Uint /\ Parse!At(1) # Parse!MINUS
          /\ (str = <<0>>) = (Parse!Value(str) = 0)
      BY <1>5, InRangeShape, Zenon DEF ParseInv
    <3> QED BY <3>1, UintAssumption DEF Uint
  <2>2. (IF str = <<0>> THEN 0 ELSE 1) = IF Parse!Value(str) > 0 THEN 1 ELSE 0
    BY <2>1
  <2> QED BY <1>1, <2>1, <2>2, Zenon
<1> QED BY <1>1, <1>2, <1>3, <1>4, <1>5, Zenon DEF ParsedInv

LEMMA ParseFirstStep ==
    ASSUME ParseConstants, ParseInv, ParsedInv, Parse!ParseFirstGroup
    PROVE  ParsedInv'
<1>1. /\ at = "first" /\ at' = "groups" /\ str' = str /\ p' = p + Parse!FirstGroupLen
      /\ parsed' = [parsed EXCEPT !.mag[0] = Parse!atoui(p, Parse!FirstGroupLen)]
  BY DEF Parse!ParseFirstGroup
<1>2. p >= 1 /\ p \in Nat /\ str \in Seq(Parse!Char) /\ parsed \in Token
  BY DEF ParsedInv, ParseInv
<1>3. Parse!FirstGroupLen \in Nat /\ parsed' \in Token
  <2>1. Parse!FirstGroupLen \in Nat /\ Parse!atoui(p, Parse!FirstGroupLen) \in Uint
    BY <1>2, WordsStayWords
  <2> QED BY <1>1, <1>2, <2>1, WordsStayWords
<1>4. Len(str)' <= MaxLen /\ p' >= 1
  BY <1>1, <1>2, <1>3 DEF ParsedInv
<1>5. (Parse!InRange)' = Parse!InRange /\ (Parse!Value(str))' = Parse!Value(str)
  BY <1>1 DEF Parse!InRange
<1>6. ASSUME Parse!InRange
      PROVE  p' > Len(str) /\ parsed' = OneWordToken(Parse!Value(str))
  <2>1. PICK n \in Nat, v \in Uint : n = Len(str) /\ v = Parse!Value(str)
    BY <1>2, <1>6, InRangeShape
  <2>2. str \in Seq(0..9) /\ Parse!FirstGroupLen = n
    BY <1>2, <1>6, <2>1, InRangeShape, Zenon
  <2>3. p = 1 /\ parsed = [token_size(token_init, 1) EXCEPT !.signum = IF v > 0 THEN 1 ELSE 0]
    BY <1>1, <1>6, <2>1, Zenon DEF ParsedInv
  <2>4. Parse!atoui(1, n) = v
    <3>1. v < UINT_MOD
      BY <1>6, <2>1 DEF Parse!InRange
    <3> QED BY <1>2, <2>1, <2>2, <3>1, GroupIsValue
  <2>5. parsed' = [parsed EXCEPT !.mag[0] = v] /\ p' = 1 + n
    BY <1>1, <2>2, <2>3, <2>4, Zenon
  <2>6. parsed' = OneWordToken(v)
    <3>1. parsed = [signum |-> IF v > 0 THEN 1 ELSE 0, length |-> 1, mag |-> [i \in 0..3 |-> 0]]
      BY <2>3 DEF token_size, token_init
    <3>2. [[i \in 0..3 |-> 0] EXCEPT ![0] = v] = [i \in 0..3 |-> IF i = 0 THEN v ELSE 0]
      OBVIOUS
    <3> QED BY <2>5, <3>1, <3>2 DEF OneWordToken
  <2> QED BY <2>1, <2>5, <2>6
<1> QED BY <1>1, <1>3, <1>4, <1>5, <1>6 DEF ParsedInv

LEMMA ParseNextStep ==
    ASSUME ParseConstants, ParseInv, ParsedInv, Parse!ParseNextGroup
    PROVE  ParsedInv'
<1>1. /\ at = "groups" /\ at' = at /\ p <= Len(str) /\ str' = str /\ p' = p + DIGITS_PER_INT
      /\ parsed' = [parsed EXCEPT !.mag[0] =
                      Parse!add_next_word(parsed.mag[0], Parse!atoui(p, DIGITS_PER_INT))]
  BY DEF Parse!ParseNextGroup
<1>2. p >= 1 /\ p \in Nat /\ Len(str) \in Nat /\ parsed \in Token /\ DIGITS_PER_INT \in Nat
  BY DEF ParsedInv, ParseInv, ParseConstants
<1>3. parsed' \in Token
  <2>1. Parse!atoui(p, DIGITS_PER_INT) \in Uint /\ parsed.mag[0] \in Uint
    BY <1>2, WordsStayWords
  <2>2. Parse!add_next_word(parsed.mag[0], Parse!atoui(p, DIGITS_PER_INT)) \in Uint
    BY <1>2, <2>1, WordsStayWords
  <2> QED BY <1>1, <1>2, <2>2, WordsStayWords
<1>4. Len(str)' <= MaxLen /\ p' >= 1
  BY <1>1, <1>2 DEF ParsedInv
<1>5. ~Parse!InRange
  BY <1>1, <1>2 DEF ParsedInv
<1>6. ~(Parse!InRange)'
  BY <1>1, <1>5 DEF Parse!InRange
<1> QED BY <1>1, <1>3, <1>4, <1>6 DEF ParsedInv

(* token_parse keeps to the types of the token and reads a number in range *)
(* as what it is, whatever the size of a word.                             *)
THEOREM ParsedInvariant ==
    ASSUME ParseConstants
    PROVE  KeysSpec => [](call = "token_parse" => ParseInv /\ ParsedInv)
<1>1. KeysSpec => [](call = "token_parse" => ParseInv)
  BY ParseInvariant DEF ParseConstants
<1>2. KeysInit => (call = "token_parse" => ParsedInv)
  BY ParsedInit DEF KeysInit
<1>3. ParseInv /\ ParsedInv /\ [Parse!Next]_(Parse!vars) => ParsedInv'
  <2> SUFFICES ASSUME ParseInv, ParsedInv, [Parse!Next]_(Parse!vars) PROVE ParsedInv'
    OBVIOUS
  <2>1. CASE Parse!ParseReturn
    BY <2>1 DEF ParsedInv, Parse!ParseReturn, Parse!InRange
  <2>2. CASE UNCHANGED Parse!vars
    BY <2>2 DEF ParsedInv, Parse!vars, Parse!InRange
  <2> QED BY <2>1, <2>2, ParseSignStep, ParseFirstStep, ParseNextStep DEF Parse!Next
<1>4. /\ call = "token_parse" => ParseInv
      /\ call = "token_parse" => ParsedInv
      /\ [KeysNext]_keysVars
      => (call = "token_parse" => ParsedInv)'
  <2> SUFFICES ASSUME call = "token_parse" => ParseInv, call = "token_parse" => ParsedInv,
                      [KeysNext]_keysVars, call' = "token_parse"
               PROVE  ParsedInv'
    OBVIOUS
  <2>1. call = "token_parse"
    BY DEF KeysNext, keysVars
  <2>2. [Parse!Next]_(Parse!vars)
    BY <2>1 DEF KeysNext, keysVars, parseVars, Parse!vars
  <2> QED BY <1>3, <2>1, <2>2
<1> QED BY <1>1, <1>2, <1>4, PTL DEF KeysSpec

(* The parser's state has its types: the token stays four words of the     *)
(* machine's size.                                                         *)
THEOREM ParseTypeCorrect ==
    ASSUME ParseConstants
    PROVE  KeysSpec => []ParseTypeOK
<1>1. ParseInv /\ ParsedInv => Parse!TypeOK
  BY DEF ParseInv, ParsedInv, Parse!TypeOK, Token, Parse!Token, Uint, Parse!Uint, NEGATIVE, Parse!NEGATIVE
<1> QED BY <1>1, ParsedInvariant, PTL DEF ParseTypeOK

(* A node token in range compares with the hash of every key as their      *)
(* numbers do, so the ring is in numerical order.                          *)
THEOREM ParseOrderIsNumeric ==
    ASSUME ParseConstants
    PROVE  KeysSpec => []RingOrderIsNumeric
<1>1. ASSUME ParseInv, ParsedInv, at = "done", Parse!InRange, NEW u \in Uint
      PROVE  token_cmp(parsed, token_set_int(token_init, u)) =
                IF Parse!Value(str) = u THEN 0 ELSE Greater(Parse!Value(str) > u)
  <2>1. parsed = OneWordToken(Parse!Value(str)) /\ Parse!Value(str) \in Uint
    BY <1>1, InRangeShape DEF ParseInv, ParsedInv
  <2>2. token_set_int(token_init, u) = OneWordToken(u)
    <3>1. [[i \in 0..3 |-> 0] EXCEPT ![0] = u] = [i \in 0..3 |-> IF i = 0 THEN u ELSE 0]
      OBVIOUS
    <3> QED BY <3>1 DEF token_set_int, token_init, OneWordToken
  <2> QED BY <2>1, <2>2, CompareOneWord
<1>2. ParseInv /\ ParsedInv => Parse!RingOrderIsNumeric
  <2> SUFFICES ASSUME ParseInv, ParsedInv, at = "done", Parse!InRange, NEW u \in Uint
               PROVE  Parse!token_cmp(parsed, Parse!token_set_int(Parse!token_init, u)) =
                         IF Parse!Value(str) = u THEN 0 ELSE Parse!Greater(Parse!Value(str) > u)
    BY Zenon DEF Parse!RingOrderIsNumeric, Uint, Parse!Uint
  <2>1. Parse!token_set_int(Parse!token_init, u) = token_set_int(token_init, u)
    BY Zenon DEF Parse!token_set_int, Parse!token_init, token_set_int, token_init
  <2>2. \A t, q : Parse!token_cmp(t, q) = token_cmp(t, q)
    BY Zenon DEF Parse!token_cmp, token_cmp, Parse!Greater, Greater
  <2>3. \A b : Parse!Greater(b) = Greater(b)
    BY Zenon DEF Parse!Greater, Greater
  <2> QED BY <1>1, <2>1, <2>2, <2>3, Zenon
<1> QED BY <1>2, ParsedInvariant, PTL DEF RingOrderIsNumeric
=============================================================================
