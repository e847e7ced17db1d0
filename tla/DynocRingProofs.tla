--------------------------- MODULE DynocRingProofs ---------------------------
(***************************************************************************)
(* select_continuum returns the owner of a token, for every word width,    *)
(* every number of nodes and every set of node tokens.                     *)
(***************************************************************************)
EXTENDS DynocRing, TLAPS

(* One-word tokens: all that a running client compares.                    *)
OneWord == {t \in Token : t.length = 1}

(* token_cmp on one-word tokens, without the search for the first          *)
(* differing word: the loop of token_cmp looks at mag[0] only.             *)
LEMMA CmpOneWord ==
    ASSUME NEW a \in OneWord, NEW b \in OneWord
    PROVE  token_cmp(a, b) =
              IF a.signum # b.signum THEN Greater(a.signum > b.signum)
              ELSE IF a.signum = 0 \/ a.mag[0] = b.mag[0] THEN 0
              ELSE Greater(a.mag[0] > b.mag[0])
<1> DEFINE diff == {i \in 0..(a.length - 1) : a.mag[i] # b.mag[i]}
           first == CHOOSE i \in diff : \A j \in diff : i <= j
<1>1. a.length = 1 /\ b.length = 1
  BY DEF OneWord
<1>2. diff = IF a.mag[0] = b.mag[0] THEN {} ELSE {0}
  <2>1. \A i : i \in 0..(a.length - 1) <=> i = 0
    BY <1>1
  <2> QED BY <2>1
<1>3. a.mag[0] # b.mag[0] => first = 0
  <2> SUFFICES ASSUME a.mag[0] # b.mag[0] PROVE first = 0
    OBVIOUS
  <2>1. diff = {0}
    BY <1>2
  <2>2. \E i \in diff : \A j \in diff : i <= j
    BY <2>1
  <2>3. first \in diff
    BY <2>2
  <2> QED BY <2>1, <2>3
<1>4. token_cmp(a, b) =
        IF a.signum # b.signum THEN Greater(a.signum > b.signum)
        ELSE IF a.signum = 0 THEN 0
        ELSE IF a.length # b.length THEN Greater(a.length > b.length)
        ELSE IF diff = {} THEN 0
        ELSE Greater(a.mag[first] > b.mag[first])
  BY DEF token_cmp
<1> HIDE DEF diff, first
<1> QED BY <1>1, <1>2, <1>3, <1>4

LEMMA OneWordFields ==
    ASSUME NEW a \in OneWord
    PROVE  a.signum \in Int /\ a.mag[0] \in Int /\ a.length = 1
<1>1. UINT_MOD \in Nat
  BY UintAssumption
<1> QED BY <1>1 DEF OneWord, Token, Uint, NEGATIVE

(* token_cmp on one-word tokens is the comparison of a total preorder.     *)
LEMMA CmpRange ==
    ASSUME NEW a \in OneWord, NEW b \in OneWord
    PROVE  token_cmp(a, b) \in {-1, 0, 1}
BY CmpOneWord DEF Greater

LEMMA CmpSelf ==
    ASSUME NEW a \in OneWord
    PROVE  token_cmp(a, a) = 0
BY CmpOneWord

LEMMA CmpAntisymmetric ==
    ASSUME NEW a \in OneWord, NEW b \in OneWord
    PROVE  token_cmp(b, a) = 0 - token_cmp(a, b)
BY CmpOneWord, OneWordFields DEF Greater

LEMMA CmpTransitive ==
    ASSUME NEW a \in OneWord, NEW b \in OneWord, NEW c \in OneWord,
           token_cmp(a, b) <= 0, token_cmp(b, c) <= 0
    PROVE  token_cmp(a, c) <= 0
<1>1. token_cmp(a, b) = IF a.signum # b.signum THEN Greater(a.signum > b.signum)
              ELSE IF a.signum = 0 \/ a.mag[0] = b.mag[0] THEN 0
              ELSE Greater(a.mag[0] > b.mag[0])
  BY CmpOneWord
<1>2. token_cmp(b, c) = IF b.signum # c.signum THEN Greater(b.signum > c.signum)
              ELSE IF b.signum = 0 \/ b.mag[0] = c.mag[0] THEN 0
              ELSE Greater(b.mag[0] > c.mag[0])
  BY CmpOneWord
<1>3. token_cmp(a, c) = IF a.signum # c.signum THEN Greater(a.signum > c.signum)
              ELSE IF a.signum = 0 \/ a.mag[0] = c.mag[0] THEN 0
              ELSE Greater(a.mag[0] > c.mag[0])
  BY CmpOneWord
<1>4. /\ a.signum \in Int /\ b.signum \in Int /\ c.signum \in Int
      /\ a.mag[0] \in Int /\ b.mag[0] \in Int /\ c.mag[0] \in Int
  BY OneWordFields
<1> QED BY <1>1, <1>2, <1>3, <1>4 DEF Greater

(* a <= b and b < c imply a < c.                                           *)
LEMMA CmpStrict ==
    ASSUME NEW a \in OneWord, NEW b \in OneWord, NEW c \in OneWord,
           token_cmp(a, b) <= 0, token_cmp(b, c) < 0
    PROVE  token_cmp(a, c) < 0
<1>1. SUFFICES ASSUME ~(token_cmp(a, c) < 0) PROVE FALSE
  OBVIOUS
<1>2. token_cmp(c, a) <= 0
  BY <1>1, CmpAntisymmetric, CmpRange
<1>3. token_cmp(c, b) <= 0
  BY <1>2, CmpTransitive
<1>4. token_cmp(b, c) >= 0
  BY <1>3, CmpAntisymmetric, CmpRange
<1> QED BY <1>4, CmpRange

-----------------------------------------------------------------------------
(* After dynoc_start the ring is sorted and numbered by position.          *)
RingSorted ==
    pc # "setup" =>
        /\ ncontinuum > 0
        /\ \A i \in Positions : continuum[i].index = i
        /\ \A i, j \in Positions :
              i < j => token_cmp(continuum[i].token, continuum[j].token) <= 0

TokenSet == pc \in {"ends", "loop", "done"} => token.length = 1

FullWindow == pc = "ends" => left = 0 /\ right = ncontinuum - 1

(* The loop invariant of select_continuum: everything before the window is *)
(* smaller than the token, the right end of the window is not.             *)
Window ==
    pc = "loop" =>
        /\ left <= right /\ right < ncontinuum
        /\ token_cmp(continuum[right].token, token) >= 0
        /\ \A i \in Positions : i < left => token_cmp(continuum[i].token, token) < 0

IInv == TypeOK /\ RingSorted /\ TokenSet /\ FullWindow /\ Window /\ SelectsSuccessor

LEMMA NodeTokenOneWord == NodeToken \subseteq OneWord
BY DEF NodeToken, OneWord

(* Entries of the ring and the key's token are one-word tokens.            *)
LEMMA RingOneWord ==
    ASSUME TypeOK, NEW i \in Positions
    PROVE  continuum[i].token \in OneWord
BY NodeTokenOneWord DEF TypeOK, Continuum

LEMMA KeyOneWord ==
    ASSUME TypeOK, TokenSet, pc \in {"ends", "loop", "done"}
    PROVE  token \in OneWord
BY DEF TypeOK, TokenSet, OneWord

LEMMA MiddleInWindow ==
    ASSUME left \in Nat, right \in Nat, left < right
    PROVE  Middle \in Nat /\ left <= Middle /\ Middle < right
BY DEF Middle

(* Whatever token_parse left behind, the key's token is a one-word token.  *)
LEMMA SetIntType ==
    ASSUME NEW t \in Token, NEW s \in {0, 1, NEGATIVE}, NEW w \in Uint, NEW h \in Uint
    PROVE  /\ token_set_int(token_size(Parsed(t, s, w), 1), h) \in Token
           /\ token_set_int(token_size(Parsed(t, s, w), 1), h).length = 1
<1>1. Parsed(t, s, w).mag \in [0..3 -> Uint]
  BY DEF Token, Parsed
<1>2. token_size(Parsed(t, s, w), 1).mag = Parsed(t, s, w).mag
  BY DEF Token, Parsed, token_size
<1> QED BY <1>1, <1>2 DEF token_set_int, Token

LEMMA InitIInv == Init => IInv
<1> SUFFICES ASSUME Init PROVE IInv
  OBVIOUS
<1>1. token_init \in Token
  BY UintAssumption DEF token_init, Token, Uint
<1>2. Positions = {}
  BY DEF Init, Positions
<1>3. TypeOK
  BY <1>1, <1>2, NodeCountAssumption DEF Init, TypeOK
<1> QED BY <1>3 DEF Init, IInv, RingSorted, TokenSet, FullWindow, Window, SelectsSuccessor

(* What a return from select_continuum must establish.                     *)
LEMMA ReturnPreserves ==
    ASSUME IInv, NEW r \in Positions, Return(r), pc \in {"ends", "loop"},
           r \in Candidates,
           \A i \in Candidates :
              token_cmp(continuum[r].token, continuum[i].token) <= 0
    PROVE  IInv'
<1> USE DEF IInv
<1>1. continuum[r].index = r
  BY DEF RingSorted
<1>2. index' = r
  BY <1>1 DEF Return
<1>3. UNCHANGED <<continuum, ncontinuum, token, left, right>> /\ pc' = "done"
  BY DEF Return, ringVars
<1>4. TypeOK'
  BY <1>2, <1>3 DEF TypeOK, Positions
<1>5. RingSorted' /\ TokenSet' /\ FullWindow' /\ Window'
  BY <1>3 DEF RingSorted, TokenSet, FullWindow, Window, Positions
<1>6. Candidates' = Candidates
  BY <1>3 DEF Candidates, AtOrAfter, Positions
<1>7. SelectsSuccessor'
  BY <1>2, <1>3, <1>6 DEF SelectsSuccessor
<1> QED BY <1>4, <1>5, <1>7

LEMMA StepIInv == IInv /\ [Next]_vars => IInv'
<1> SUFFICES ASSUME IInv, [Next]_vars PROVE IInv'
  OBVIOUS
<1> USE DEF IInv
<1>0. ncontinuum \in Nat /\ left \in Nat /\ right \in Nat
  BY NodeCountAssumption DEF TypeOK
<1>1. ASSUME NEW t \in NodeToken, dynoc_add_node(t) PROVE IInv'
  <2>1. ncontinuum' \in 0..node_count
    BY <1>1, <1>0, NodeCountAssumption DEF dynoc_add_node, TypeOK
  <2>2. Positions' = 0..ncontinuum
    BY <1>1, <1>0 DEF dynoc_add_node, Positions
  <2>3. continuum' \in [Positions' -> Continuum]
    <3>1. ASSUME NEW i \in 0..ncontinuum, i < ncontinuum
          PROVE  continuum[i] \in Continuum
      BY <3>1, <1>0 DEF TypeOK, Positions
    <3>2. [token |-> t, index |-> ncontinuum] \in Continuum
      BY <1>0 DEF Continuum
    <3> QED BY <1>1, <2>2, <3>1, <3>2 DEF dynoc_add_node
  <2>4. TypeOK'
    BY <1>1, <2>1, <2>3 DEF dynoc_add_node, TypeOK
  <2> QED BY <1>1, <2>4 DEF dynoc_add_node, RingSorted, TokenSet, FullWindow, Window, SelectsSuccessor
<1>2. CASE redis_connection_pool_init
  <2>1. PICK perm \in [Positions -> Positions] :
           /\ SortedBy(perm)
           /\ continuum' = [i \in Positions |->
                               [token |-> continuum[perm[i]].token, index |-> i]]
    BY <1>2 DEF redis_connection_pool_init
  <2>2. /\ pc' = "idle" /\ ncontinuum > 0
        /\ UNCHANGED <<ncontinuum, token, left, right, index>>
    BY <1>2 DEF redis_connection_pool_init
  <2>3. Positions' = Positions /\ Positions \subseteq Nat
    BY <2>2, <1>0 DEF Positions
  <2>4. continuum' \in [Positions' -> Continuum]
    BY <2>1, <2>3 DEF TypeOK, Continuum
  <2>5. TypeOK'
    BY <2>2, <2>4 DEF TypeOK
  <2>6. RingSorted'
    BY <2>1, <2>2, <2>3 DEF RingSorted, SortedBy
  <2> QED BY <2>2, <2>5, <2>6 DEF TokenSet, FullWindow, Window, SelectsSuccessor
<1>3. ASSUME NEW h \in Uint, select_connection(h) PROVE IInv'
  <2>1. token' \in Token /\ token'.length = 1
    <3>1. PICK s \in {0, 1, NEGATIVE}, w \in Uint :
             token' = token_set_int(token_size(Parsed(token, s, w), 1), h)
      BY <1>3 DEF select_connection
    <3>2. token \in Token
      BY DEF TypeOK
    <3> QED BY <3>1, <3>2, SetIntType
  <2>2. /\ left' = 0 /\ right' = ncontinuum - 1 /\ pc' = "ends" /\ pc # "setup"
        /\ UNCHANGED <<continuum, ncontinuum, index>>
    BY <1>3 DEF select_connection, ringVars
  <2>3. ncontinuum > 0
    BY <2>2 DEF RingSorted
  <2>4. TypeOK'
    BY <2>1, <2>2, <2>3, NodeCountAssumption DEF TypeOK, Positions
  <2>5. RingSorted'
    BY <2>2 DEF RingSorted, Positions
  <2> QED BY <2>1, <2>2, <2>4, <2>5 DEF TokenSet, FullWindow, Window, SelectsSuccessor
<1>4. CASE ReturnFirst
  <2>1. pc = "ends" /\ OffTheEnds /\ Return(left)
    BY <1>4 DEF ReturnFirst
  <2>2. left = 0 /\ right = ncontinuum - 1 /\ ncontinuum > 0
    BY <2>1 DEF FullWindow, RingSorted
  <2>3. left \in Positions /\ right \in Positions
    BY <2>2, <1>0 DEF Positions
  <2>4. \A i \in Positions : continuum[i].token \in OneWord
    BY RingOneWord
  <2>5. token \in OneWord
    BY <2>1, KeyOneWord
  <2>6. \A i \in Positions : token_cmp(continuum[left].token, continuum[i].token) <= 0
    BY <2>1, <2>2, <2>3, <2>4, <1>0, CmpSelf DEF RingSorted, Positions
  <2>7. left \in Candidates
    <3>1. CASE token_cmp(continuum[left].token, token) >= 0
      BY <3>1, <2>3 DEF Candidates, AtOrAfter
    <3>2. CASE token_cmp(continuum[right].token, token) < 0
      <4>1. \A i \in Positions : token_cmp(continuum[i].token, continuum[right].token) <= 0
        BY <2>1, <2>2, <2>3, <2>4, <1>0, CmpSelf DEF RingSorted, Positions
      <4>2. \A i \in Positions : token_cmp(continuum[i].token, token) < 0
        BY <4>1, <3>2, <2>3, <2>4, <2>5, CmpStrict
      <4>3. AtOrAfter = {}
        BY <4>2, <2>4, <2>5, CmpRange DEF AtOrAfter
      <4> QED BY <4>3, <2>3 DEF Candidates
    <3> QED BY <3>1, <3>2, <2>1 DEF OffTheEnds
  <2> QED BY <2>1, <2>3, <2>6, <2>7, ReturnPreserves DEF Candidates, AtOrAfter
<1>5. CASE EnterLoop
  <2>1. /\ pc = "ends" /\ ~OffTheEnds /\ pc' = "loop"
        /\ UNCHANGED <<continuum, ncontinuum, token, left, right, index>>
    BY <1>5 DEF EnterLoop, ringVars
  <2>2. left = 0 /\ right = ncontinuum - 1 /\ ncontinuum > 0
    BY <2>1 DEF FullWindow, RingSorted
  <2>3. right \in Positions
    BY <2>2, <1>0 DEF Positions
  <2>4. token_cmp(continuum[right].token, token) >= 0
    BY <2>1, <2>3, RingOneWord, KeyOneWord, CmpRange DEF OffTheEnds
  <2>5. TypeOK' /\ RingSorted' /\ TokenSet'
    BY <2>1 DEF TypeOK, RingSorted, TokenSet, Positions
  <2>6. Window'
    BY <2>1, <2>2, <2>4, <1>0 DEF Window, Positions
  <2> QED BY <2>1, <2>5, <2>6 DEF FullWindow, SelectsSuccessor
<1>6. ASSUME pc = "loop", left < right
      PROVE  /\ Middle \in Positions /\ left <= Middle /\ Middle < right
             /\ token \in OneWord
             /\ \A i \in Positions : continuum[i].token \in OneWord
  <2>1. Middle \in Nat /\ left <= Middle /\ Middle < right
    BY <1>6, <1>0, MiddleInWindow
  <2>2. Middle \in Positions
    BY <2>1, <1>0, <1>6 DEF Window, Positions
  <2> QED BY <2>1, <2>2, <1>6, RingOneWord, KeyOneWord
<1>7. CASE ReturnMiddle
  <2>1. pc = "loop" /\ left < right /\ CmpMiddle = 0 /\ Return(Middle)
    BY <1>7 DEF ReturnMiddle
  <2>2. Middle \in AtOrAfter
    BY <2>1, <1>6 DEF CmpMiddle, AtOrAfter
  <2>3. Candidates = AtOrAfter
    BY <2>2 DEF Candidates
  <2>4. ASSUME NEW i \in AtOrAfter
        PROVE  token_cmp(continuum[Middle].token, continuum[i].token) <= 0
    <3>1. i \in Positions /\ token_cmp(continuum[i].token, token) >= 0
      BY DEF AtOrAfter
    <3>2. token_cmp(token, continuum[i].token) <= 0
      BY <3>1, <2>1, <1>6, CmpAntisymmetric, CmpRange
    <3> QED BY <3>1, <3>2, <2>1, <1>6, CmpTransitive DEF CmpMiddle
  <2> QED BY <2>1, <2>2, <2>3, <2>4, <1>6, ReturnPreserves
<1>8. CASE GoRight
  <2>1. /\ pc = "loop" /\ left < right /\ CmpMiddle < 0 /\ left' = Middle + 1
        /\ UNCHANGED <<continuum, ncontinuum, token, right, index, pc>>
    BY <1>8 DEF GoRight, ringVars
  <2>2. /\ Middle \in Positions /\ Middle \in Nat /\ Middle < right
        /\ left' \in Nat /\ left' <= right
    BY <2>1, <1>6, <1>0 DEF Positions
  <2>3. ASSUME NEW i \in Positions, i < left'
        PROVE  token_cmp(continuum[i].token, token) < 0
    <3>1. i <= Middle
      BY <2>1, <2>2, <2>3, <1>0 DEF Positions
    <3>2. token_cmp(continuum[i].token, continuum[Middle].token) <= 0
      BY <3>1, <2>1, <2>2, <1>6, CmpSelf DEF RingSorted, Positions
    <3> QED BY <3>2, <2>1, <1>6, CmpStrict DEF CmpMiddle
  <2>4. TypeOK'
    BY <2>1, <2>2, <1>0, NodeCountAssumption DEF TypeOK, Positions
  <2>5. RingSorted' /\ TokenSet'
    BY <2>1 DEF RingSorted, TokenSet, Positions
  <2>6. Window'
    BY <2>1, <2>2, <2>3 DEF Window, Positions
  <2> QED BY <2>1, <2>4, <2>5, <2>6 DEF FullWindow, SelectsSuccessor
<1>9. CASE GoLeft
  <2>1. /\ pc = "loop" /\ left < right /\ CmpMiddle > 0 /\ right' = Middle
        /\ UNCHANGED <<continuum, ncontinuum, token, left, index, pc>>
    BY <1>9 DEF GoLeft, ringVars
  <2>2. /\ Middle \in Positions /\ Middle \in Nat /\ left <= Middle /\ Middle < ncontinuum
    BY <2>1, <1>6, <1>0 DEF Positions
  <2>3. token_cmp(continuum[Middle].token, token) >= 0
    BY <2>1, <1>6, CmpRange DEF CmpMiddle
  <2>4. TypeOK'
    BY <2>1, <2>2, <1>0, NodeCountAssumption DEF TypeOK, Positions
  <2>5. RingSorted' /\ TokenSet'
    BY <2>1 DEF RingSorted, TokenSet, Positions
  <2>6. Window'
    BY <2>1, <2>2, <2>3 DEF Window, Positions
  <2> QED BY <2>1, <2>4, <2>5, <2>6 DEF FullWindow, SelectsSuccessor
<1>10. CASE ReturnRight
  <2>1. pc = "loop" /\ left >= right /\ Return(right)
    BY <1>10 DEF ReturnRight
  <2>2. left = right /\ right \in Positions
    BY <2>1, <1>0 DEF Window, Positions
  <2>3. right \in AtOrAfter
    BY <2>1, <2>2 DEF Window, AtOrAfter
  <2>4. Candidates = AtOrAfter
    BY <2>3 DEF Candidates
  <2>5. ASSUME NEW i \in AtOrAfter
        PROVE  token_cmp(continuum[right].token, continuum[i].token) <= 0
    <3>1. i \in Positions /\ token_cmp(continuum[i].token, token) >= 0
      BY DEF AtOrAfter
    <3>2. token_cmp(continuum[i].token, token) \in Int
      BY <3>1, <2>1, RingOneWord, KeyOneWord, CmpRange
    <3>3. i >= right
      BY <3>1, <3>2, <2>1, <2>2, <1>0 DEF Window, Positions
    <3> QED BY <3>1, <3>3, <2>1, <2>2, <1>0, CmpSelf, RingOneWord DEF RingSorted, Positions
  <2> QED BY <2>1, <2>2, <2>3, <2>4, <2>5, ReturnPreserves
<1>11. CASE UNCHANGED vars
  BY <1>11 DEF vars, TypeOK, RingSorted, TokenSet, FullWindow, Window, SelectsSuccessor,
     Candidates, AtOrAfter, Positions
<1> QED BY <1>1, <1>2, <1>3, <1>4, <1>5, <1>7, <1>8, <1>9, <1>10, <1>11 DEF Next, Search

(* Token awareness of a lookup: for every ring and every hash value,       *)
(* select_continuum returns the pool index of the first node clockwise     *)
(* from the key's token.                                                   *)
THEOREM LookupCorrect == Spec => []SelectsSuccessor
<1>1. IInv => SelectsSuccessor
  BY DEF IInv
<1> QED BY <1>1, InitIInv, StepIInv, PTL DEF Spec

(* The window of the search never leaves the array: every entry that       *)
(* select_continuum reads is one that dynoc_add_node filled in.            *)
THEOREM RingTyped == Spec => []TypeOK
<1>1. IInv => TypeOK
  BY DEF IInv
<1> QED BY <1>1, InitIInv, StepIInv, PTL DEF Spec

(* The binary search ends: for every ring, each turn of its loop leaves at *)
(* most half of the window.                                                *)
THEOREM SearchEnds == Spec => WindowHalves
<1>1. ASSUME TypeOK, Next, pc = "loop", pc' = "loop"
      PROVE  2 * (right' - left') <= right - left
  <2>1. left \in Nat /\ right \in Nat
    BY <1>1, NodeCountAssumption DEF TypeOK
  <2>2. CASE GoRight
    BY <2>1, <2>2 DEF GoRight, Middle
  <2>3. CASE GoLeft
    BY <2>1, <2>3 DEF GoLeft, Middle
  <2> QED BY <1>1, <2>2, <2>3 DEF Next, Search, dynoc_add_node, redis_connection_pool_init,
             select_connection, ReturnFirst, EnterLoop, ReturnMiddle, ReturnRight, Return
<1>2. TypeOK /\ [Next]_vars =>
         [pc = "loop" /\ pc' = "loop" => 2 * (right' - left') <= right - left]_vars
  BY <1>1
<1> QED BY <1>2, RingTyped, PTL DEF Spec, WindowHalves
==============================================================================
