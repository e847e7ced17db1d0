-------------------------- MODULE DynocHashProofs --------------------------
(***************************************************************************)
(* The hash functions that fold a key byte by byte or word by word, for    *)
(* keys of any length: the types of their state, that the signedness of    *)
(* char does not matter, that table lookup is polynomial division, and     *)
(* that truncating early is truncating late.                               *)
(***************************************************************************)
EXTENDS DynocKeysProofs

(* Bytes, and words of n bytes.                                            *)
Octet == 0..255
WordOf(n) == [1..n -> Octet]

-----------------------------------------------------------------------------
(* The operators on words, without the copy that TLC needs.                *)
LEMMA EvaluatedSame ==
    ASSUME NEW n \in Nat, NEW f, f = [i \in 1..n |-> f[i]]
    PROVE  Hashes!Evaluated(f) = f
<1> DEFINE S == {f[i] : i \in 1..n}
<1>1. f \in [1..n -> S]
  OBVIOUS
<1> HIDE DEF S
<1>2. f \in Seq(S) /\ Len(f) = n
  <2>1. DOMAIN f = 1..n
    BY <1>1
  <2>2. f \in Seq(S)
    BY <1>1
  <2> QED BY <2>1, <2>2
<1>3. f \o <<>> = f
  BY <1>2
<1> QED BY <1>3 DEF Hashes!Evaluated

LEMMA WordLen ==
    ASSUME NEW n \in Nat, NEW S, NEW w \in [1..n -> S]
    PROVE  Len(w) = n
<1>1. DOMAIN w = 1..n
  OBVIOUS
<1> QED BY <1>1

(* A byte as its bits, least significant first.                            *)
Bits == [1..8 -> 0..1]
Val(b) == b[1] + 2 * b[2] + 4 * b[3] + 8 * b[4] + 16 * b[5] + 32 * b[6] + 64 * b[7] + 128 * b[8]
XorBits(b, c) == [i \in 1..8 |-> (b[i] + c[i]) % 2]

(* The bits above the first k, which division by a power of two leaves.    *)
LEMMA ValDiv ==
    ASSUME NEW b \in Bits
    PROVE  /\ Val(b) \in Octet
           /\ Val(b) \div 1 = b[1] + 2 * b[2] + 4 * b[3] + 8 * b[4] + 16 * b[5] + 32 * b[6] + 64 * b[7] + 128 * b[8]
           /\ Val(b) \div 2 = b[2] + 2 * b[3] + 4 * b[4] + 8 * b[5] + 16 * b[6] + 32 * b[7] + 64 * b[8]
           /\ Val(b) \div 4 = b[3] + 2 * b[4] + 4 * b[5] + 8 * b[6] + 16 * b[7] + 32 * b[8]
           /\ Val(b) \div 8 = b[4] + 2 * b[5] + 4 * b[6] + 8 * b[7] + 16 * b[8]
           /\ Val(b) \div 16 = b[5] + 2 * b[6] + 4 * b[7] + 8 * b[8]
           /\ Val(b) \div 32 = b[6] + 2 * b[7] + 4 * b[8]
           /\ Val(b) \div 64 = b[7] + 2 * b[8]
           /\ Val(b) \div 128 = b[8]
<1>1. PICK b1, b2, b3, b4, b5, b6, b7, b8 \in 0..1 :
        /\ b1 = b[1] /\ b2 = b[2] /\ b3 = b[3] /\ b4 = b[4]
        /\ b5 = b[5] /\ b6 = b[6] /\ b7 = b[7] /\ b8 = b[8]
  BY DEF Bits
<1>2. PICK a \in Nat : a = b1 + 2 * b2 + 4 * b3 + 8 * b4 + 16 * b5 + 32 * b6 + 64 * b7 + 128 * b8
  OBVIOUS
<1>3. Val(b) = a
  BY <1>1, <1>2 DEF Val
<1>4. /\ a \in 0..255
      /\ a \div 1 = b1 + 2 * b2 + 4 * b3 + 8 * b4 + 16 * b5 + 32 * b6 + 64 * b7 + 128 * b8
      /\ a \div 2 = b2 + 2 * b3 + 4 * b4 + 8 * b5 + 16 * b6 + 32 * b7 + 64 * b8
      /\ a \div 4 = b3 + 2 * b4 + 4 * b5 + 8 * b6 + 16 * b7 + 32 * b8
      /\ a \div 8 = b4 + 2 * b5 + 4 * b6 + 8 * b7 + 16 * b8
      /\ a \div 16 = b5 + 2 * b6 + 4 * b7 + 8 * b8
      /\ a \div 32 = b6 + 2 * b7 + 4 * b8
      /\ a \div 64 = b7 + 2 * b8
      /\ a \div 128 = b8
  BY <1>2
<1>5. Val(b) \in Octet
  BY <1>3, <1>4, Zenon DEF Octet
<1>6. Val(b) \div 1 = b[1] + 2 * b[2] + 4 * b[3] + 8 * b[4] + 16 * b[5] + 32 * b[6] + 64 * b[7] + 128 * b[8]
  <2>1. Val(b) \div 1 = Val(b)
    BY <1>5 DEF Octet
  <2> QED BY <2>1, Zenon DEF Val
<1>7. Val(b) \div 2 = b[2] + 2 * b[3] + 4 * b[4] + 8 * b[5] + 16 * b[6] + 32 * b[7] + 64 * b[8]
  BY <1>1, <1>3, <1>4, Zenon
<1>8. Val(b) \div 4 = b[3] + 2 * b[4] + 4 * b[5] + 8 * b[6] + 16 * b[7] + 32 * b[8]
  BY <1>1, <1>3, <1>4, Zenon
<1>9. Val(b) \div 8 = b[4] + 2 * b[5] + 4 * b[6] + 8 * b[7] + 16 * b[8]
  BY <1>1, <1>3, <1>4, Zenon
<1>10. Val(b) \div 16 = b[5] + 2 * b[6] + 4 * b[7] + 8 * b[8]
  BY <1>1, <1>3, <1>4, Zenon
<1>11. Val(b) \div 32 = b[6] + 2 * b[7] + 4 * b[8]
  BY <1>1, <1>3, <1>4, Zenon
<1>12. Val(b) \div 64 = b[7] + 2 * b[8]
  BY <1>1, <1>3, <1>4, Zenon
<1>13. Val(b) \div 128 = b[8]
  BY <1>1, <1>3, <1>4, Zenon
<1> QED BY <1>5, <1>6, <1>7, <1>8, <1>9, <1>10, <1>11, <1>12, <1>13, Zenon

LEMMA ByteIsVal ==
    ASSUME NEW a \in Octet
    PROVE  \E b \in Bits : a = Val(b)
<1>1. PICK a2 \in Nat, b1 \in 0..1 : a = 2 * a2 + b1 /\ a2 <= 127
  <2>1. a = 2 * (a \div 2) + (a % 2) /\ a \div 2 \in Nat /\ a % 2 \in 0..1 /\ a \div 2 <= 127
    BY DEF Octet
  <2> QED BY <2>1, Zenon
<1>2. PICK a3 \in Nat, b2 \in 0..1 : a2 = 2 * a3 + b2 /\ a3 <= 63
  <2>1. a2 = 2 * (a2 \div 2) + (a2 % 2) /\ a2 \div 2 \in Nat /\ a2 % 2 \in 0..1 /\ a2 \div 2 <= 63
    BY <1>1
  <2> QED BY <2>1, Zenon
<1>3. PICK a4 \in Nat, b3 \in 0..1 : a3 = 2 * a4 + b3 /\ a4 <= 31
  <2>1. a3 = 2 * (a3 \div 2) + (a3 % 2) /\ a3 \div 2 \in Nat /\ a3 % 2 \in 0..1 /\ a3 \div 2 <= 31
    BY <1>2
  <2> QED BY <2>1, Zenon
<1>4. PICK a5 \in Nat, b4 \in 0..1 : a4 = 2 * a5 + b4 /\ a5 <= 15
  <2>1. a4 = 2 * (a4 \div 2) + (a4 % 2) /\ a4 \div 2 \in Nat /\ a4 % 2 \in 0..1 /\ a4 \div 2 <= 15
    BY <1>3
  <2> QED BY <2>1, Zenon
<1>5. PICK a6 \in Nat, b5 \in 0..1 : a5 = 2 * a6 + b5 /\ a6 <= 7
  <2>1. a5 = 2 * (a5 \div 2) + (a5 % 2) /\ a5 \div 2 \in Nat /\ a5 % 2 \in 0..1 /\ a5 \div 2 <= 7
    BY <1>4
  <2> QED BY <2>1, Zenon
<1>6. PICK a7 \in Nat, b6 \in 0..1 : a6 = 2 * a7 + b6 /\ a7 <= 3
  <2>1. a6 = 2 * (a6 \div 2) + (a6 % 2) /\ a6 \div 2 \in Nat /\ a6 % 2 \in 0..1 /\ a6 \div 2 <= 3
    BY <1>5
  <2> QED BY <2>1, Zenon
<1>7. PICK a8 \in Nat, b7 \in 0..1 : a7 = 2 * a8 + b7 /\ a8 <= 1
  <2>1. a7 = 2 * (a7 \div 2) + (a7 % 2) /\ a7 \div 2 \in Nat /\ a7 % 2 \in 0..1 /\ a7 \div 2 <= 1
    BY <1>6
  <2> QED BY <2>1, Zenon
<1>8. a8 \in 0..1
  BY <1>7
<1>9. a = b1 + 2 * b2 + 4 * b3 + 8 * b4 + 16 * b5 + 32 * b6 + 64 * b7 + 128 * a8
  BY <1>1, <1>2, <1>3, <1>4, <1>5, <1>6, <1>7
<1> DEFINE b == <<b1, b2, b3, b4, b5, b6, b7, a8>>
<1>10. b \in Bits
  BY <1>8 DEF Bits
<1>11. a = Val(b)
  BY <1>9 DEF Val
<1> QED BY <1>10, <1>11

LEMMA XorBitsType ==
    ASSUME NEW b \in Bits, NEW c \in Bits
    PROVE  XorBits(b, c) \in Bits
<1>1. \A i, j \in 0..1 : (i + j) % 2 \in 0..1
  OBVIOUS
<1>2. \A i \in 1..8 : (b[i] + c[i]) % 2 \in 0..1
  BY <1>1 DEF Bits
<1> QED BY <1>2 DEF Bits, XorBits

LEMMA XorVal ==
    ASSUME NEW b \in Bits, NEW c \in Bits
    PROVE  Hashes!XorByte(Val(b), Val(c)) = Val(XorBits(b, c))
<1> DEFINE a == Val(b)
           d == Val(c)
<1>1. PICK b1, b2, b3, b4, b5, b6, b7, b8 \in 0..1 :
        /\ b1 = b[1] /\ b2 = b[2] /\ b3 = b[3] /\ b4 = b[4]
        /\ b5 = b[5] /\ b6 = b[6] /\ b7 = b[7] /\ b8 = b[8]
  BY DEF Bits
<1>2. PICK c1, c2, c3, c4, c5, c6, c7, c8 \in 0..1 :
        /\ c1 = c[1] /\ c2 = c[2] /\ c3 = c[3] /\ c4 = c[4]
        /\ c5 = c[5] /\ c6 = c[6] /\ c7 = c[7] /\ c8 = c[8]
  BY DEF Bits
<1>3. ((a \div 1) + (d \div 1)) % 2 = (b1 + c1) % 2
  <2>1. a \div 1 = b1 + 2 * b2 + 4 * b3 + 8 * b4 + 16 * b5 + 32 * b6 + 64 * b7 + 128 * b8
    BY <1>1, ValDiv, Zenon
  <2>2. d \div 1 = c1 + 2 * c2 + 4 * c3 + 8 * c4 + 16 * c5 + 32 * c6 + 64 * c7 + 128 * c8
    BY <1>2, ValDiv, Zenon
  <2> HIDE DEF a, d
  <2> QED BY <2>1, <2>2
<1>4. ((a \div 2) + (d \div 2)) % 2 = (b2 + c2) % 2
  <2>1. a \div 2 = b2 + 2 * b3 + 4 * b4 + 8 * b5 + 16 * b6 + 32 * b7 + 64 * b8
    BY <1>1, ValDiv, Zenon
  <2>2. d \div 2 = c2 + 2 * c3 + 4 * c4 + 8 * c5 + 16 * c6 + 32 * c7 + 64 * c8
    BY <1>2, ValDiv, Zenon
  <2> HIDE DEF a, d
  <2> QED BY <2>1, <2>2
<1>5. ((a \div 4) + (d \div 4)) % 2 = (b3 + c3) % 2
  <2>1. a \div 4 = b3 + 2 * b4 + 4 * b5 + 8 * b6 + 16 * b7 + 32 * b8
    BY <1>1, ValDiv, Zenon
  <2>2. d \div 4 = c3 + 2 * c4 + 4 * c5 + 8 * c6 + 16 * c7 + 32 * c8
    BY <1>2, ValDiv, Zenon
  <2> HIDE DEF a, d
  <2> QED BY <2>1, <2>2
<1>6. ((a \div 8) + (d \div 8)) % 2 = (b4 + c4) % 2
  <2>1. a \div 8 = b4 + 2 * b5 + 4 * b6 + 8 * b7 + 16 * b8
    BY <1>1, ValDiv, Zenon
  <2>2. d \div 8 = c4 + 2 * c5 + 4 * c6 + 8 * c7 + 16 * c8
    BY <1>2, ValDiv, Zenon
  <2> HIDE DEF a, d
  <2> QED BY <2>1, <2>2
<1>7. ((a \div 16) + (d \div 16)) % 2 = (b5 + c5) % 2
  <2>1. a \div 16 = b5 + 2 * b6 + 4 * b7 + 8 * b8
    BY <1>1, ValDiv, Zenon
  <2>2. d \div 16 = c5 + 2 * c6 + 4 * c7 + 8 * c8
    BY <1>2, ValDiv, Zenon
  <2> HIDE DEF a, d
  <2> QED BY <2>1, <2>2
<1>8. ((a \div 32) + (d \div 32)) % 2 = (b6 + c6) % 2
  <2>1. a \div 32 = b6 + 2 * b7 + 4 * b8
    BY <1>1, ValDiv, Zenon
  <2>2. d \div 32 = c6 + 2 * c7 + 4 * c8
    BY <1>2, ValDiv, Zenon
  <2> HIDE DEF a, d
  <2> QED BY <2>1, <2>2
<1>9. ((a \div 64) + (d \div 64)) % 2 = (b7 + c7) % 2
  <2>1. a \div 64 = b7 + 2 * b8
    BY <1>1, ValDiv, Zenon
  <2>2. d \div 64 = c7 + 2 * c8
    BY <1>2, ValDiv, Zenon
  <2> HIDE DEF a, d
  <2> QED BY <2>1, <2>2
<1>10. ((a \div 128) + (d \div 128)) % 2 = (b8 + c8) % 2
  <2>1. a \div 128 = b8
    BY <1>1, ValDiv, Zenon
  <2>2. d \div 128 = c8
    BY <1>2, ValDiv, Zenon
  <2> HIDE DEF a, d
  <2> QED BY <2>1, <2>2
<1> HIDE DEF a, d
<1>11. Hashes!XorByte(a, d) =
        1 * (((a \div 1) + (d \div 1)) % 2) + 2 * (((a \div 2) + (d \div 2)) % 2)
        + 4 * (((a \div 4) + (d \div 4)) % 2) + 8 * (((a \div 8) + (d \div 8)) % 2)
        + 16 * (((a \div 16) + (d \div 16)) % 2) + 32 * (((a \div 32) + (d \div 32)) % 2)
        + 64 * (((a \div 64) + (d \div 64)) % 2) + 128 * (((a \div 128) + (d \div 128)) % 2)
  BY Zenon DEF Hashes!XorByte
<1>12. Hashes!XorByte(a, d) =
        1 * ((b1 + c1) % 2) + 2 * ((b2 + c2) % 2) + 4 * ((b3 + c3) % 2) + 8 * ((b4 + c4) % 2)
        + 16 * ((b5 + c5) % 2) + 32 * ((b6 + c6) % 2) + 64 * ((b7 + c7) % 2) + 128 * ((b8 + c8) % 2)
  BY <1>3, <1>4, <1>5, <1>6, <1>7, <1>8, <1>9, <1>10, <1>11, Zenon
<1>13. 1 * ((b1 + c1) % 2) = (b1 + c1) % 2
  <2>1. (b1 + c1) % 2 \in Nat
    OBVIOUS
  <2> QED BY <2>1
<1>14. /\ XorBits(b, c)[1] = (b1 + c1) % 2 /\ XorBits(b, c)[2] = (b2 + c2) % 2 /\ XorBits(b, c)[3] = (b3 + c3) % 2 /\ XorBits(b, c)[4] = (b4 + c4) % 2
       /\ XorBits(b, c)[5] = (b5 + c5) % 2 /\ XorBits(b, c)[6] = (b6 + c6) % 2 /\ XorBits(b, c)[7] = (b7 + c7) % 2 /\ XorBits(b, c)[8] = (b8 + c8) % 2
  <2>1. \A i \in 1..8 : XorBits(b, c)[i] = (b[i] + c[i]) % 2
    BY DEF XorBits
  <2>2. \A i \in {1, 2, 3, 4, 5, 6, 7, 8} : XorBits(b, c)[i] = (b[i] + c[i]) % 2
    BY <2>1
  <2> QED BY <1>1, <1>2, <2>2, Zenon
<1>15. Hashes!XorByte(a, d) = Val(XorBits(b, c))
  BY <1>12, <1>13, <1>14, Zenon DEF Val
<1> QED BY <1>15 DEF a, d

LEMMA XorByteType ==
    ASSUME NEW a \in Octet, NEW b \in Octet
    PROVE  Hashes!XorByte(a, b) \in Octet
<1>1. PICK u \in Bits : a = Val(u)
  BY ByteIsVal
<1>2. PICK v \in Bits : b = Val(v)
  BY ByteIsVal
<1>3. Val(XorBits(u, v)) \in Octet
  BY XorBitsType, ValDiv
<1> QED BY <1>1, <1>2, <1>3, XorVal, Zenon

(* Exclusive or: commutative, associative, with 0 as neutral element.      *)
LEMMA XorCommutes ==
    ASSUME NEW a \in Octet, NEW b \in Octet
    PROVE  Hashes!XorByte(a, b) = Hashes!XorByte(b, a)
<1>1. PICK u \in Bits : a = Val(u)
  BY ByteIsVal
<1>2. PICK v \in Bits : b = Val(v)
  BY ByteIsVal
<1>3. XorBits(u, v) = XorBits(v, u)
  <2>1. \A i, j \in 0..1 : (i + j) % 2 = (j + i) % 2
    OBVIOUS
  <2>2. \A i \in 1..8 : (u[i] + v[i]) % 2 = (v[i] + u[i]) % 2
    BY <2>1 DEF Bits
  <2> QED BY <2>2 DEF XorBits
<1> QED BY <1>1, <1>2, <1>3, XorVal, Zenon

LEMMA XorZero ==
    ASSUME NEW a \in Octet
    PROVE  Hashes!XorByte(a, 0) = a
<1>1. PICK u \in Bits : a = Val(u)
  BY ByteIsVal
<1> DEFINE z == [i \in 1..8 |-> 0]
<1>2. z \in Bits /\ 0 = Val(z)
  BY DEF Bits, Val
<1>3. XorBits(u, z) = u
  <2>1. \A i \in 0..1 : (i + 0) % 2 = i
    OBVIOUS
  <2>2. \A i \in 1..8 : (u[i] + z[i]) % 2 = u[i]
    BY <2>1 DEF Bits
  <2>3. u = [i \in 1..8 |-> u[i]]
    BY DEF Bits
  <2> HIDE DEF z
  <2> QED BY <2>2, <2>3 DEF XorBits
<1> HIDE DEF z
<1> QED BY <1>1, <1>2, <1>3, XorVal, Zenon

LEMMA XorAssociates ==
    ASSUME NEW a \in Octet, NEW b \in Octet, NEW c \in Octet
    PROVE  Hashes!XorByte(Hashes!XorByte(a, b), c) = Hashes!XorByte(a, Hashes!XorByte(b, c))
<1>1. PICK u \in Bits : a = Val(u)
  BY ByteIsVal
<1>2. PICK v \in Bits : b = Val(v)
  BY ByteIsVal
<1>3. PICK w \in Bits : c = Val(w)
  BY ByteIsVal
<1>4. XorBits(XorBits(u, v), w) = XorBits(u, XorBits(v, w))
  <2>1. \A i, j, l \in 0..1 : (((i + j) % 2) + l) % 2 = (i + ((j + l) % 2)) % 2
    OBVIOUS
  <2>2. \A i \in 1..8 : (((u[i] + v[i]) % 2) + w[i]) % 2 = (u[i] + ((v[i] + w[i]) % 2)) % 2
    BY <2>1 DEF Bits
  <2> QED BY <2>2 DEF XorBits
<1>5. XorBits(u, v) \in Bits /\ XorBits(v, w) \in Bits
  BY XorBitsType
<1>6. /\ Hashes!XorByte(a, b) = Val(XorBits(u, v)) /\ Hashes!XorByte(b, c) = Val(XorBits(v, w))
      /\ Hashes!XorByte(Val(XorBits(u, v)), Val(w)) = Val(XorBits(XorBits(u, v), w))
      /\ Hashes!XorByte(Val(u), Val(XorBits(v, w))) = Val(XorBits(u, XorBits(v, w)))
  BY <1>1, <1>2, <1>3, <1>5, XorVal
<1> QED BY <1>1, <1>3, <1>4, <1>6, Zenon

LEMMA XorWordIs ==
    ASSUME NEW n \in Nat, NEW x \in WordOf(n), NEW y \in WordOf(n)
    PROVE  /\ Hashes!XorWord(x, y) = [i \in 1..n |-> Hashes!XorByte(x[i], y[i])]
           /\ Hashes!XorWord(x, y) \in WordOf(n)
<1> DEFINE f == [i \in 1..n |-> Hashes!XorByte(x[i], y[i])]
<1>1. f \in WordOf(n)
  BY XorByteType DEF WordOf
<1>2. Len(x) = n
  BY WordLen DEF WordOf
<1>3. Hashes!XorWord(x, y) = Hashes!Evaluated(f)
  BY <1>2, Zenon DEF Hashes!XorWord
<1>4. f = [i \in 1..n |-> f[i]]
  OBVIOUS
<1> HIDE DEF f
<1>5. Hashes!Evaluated(f) = f
  BY <1>4, EvaluatedSame
<1> QED BY <1>1, <1>3, <1>5 DEF f

LEMMA ComplementIs ==
    ASSUME NEW n \in Nat, NEW x \in WordOf(n)
    PROVE  /\ Hashes!Complement(x) = [i \in 1..n |-> 255 - x[i]]
           /\ Hashes!Complement(x) \in WordOf(n)
<1> DEFINE f == [i \in 1..n |-> 255 - x[i]]
<1>1. f \in WordOf(n)
  <2>1. \A i \in 1..n : x[i] \in 0..255
    BY DEF WordOf, Octet
  <2>2. \A a \in 0..255 : 255 - a \in 0..255
    OBVIOUS
  <2>3. \A i \in 1..n : 255 - x[i] \in Octet
    BY <2>1, <2>2, Zenon DEF Octet
  <2> QED BY <2>3 DEF WordOf
<1>2. Len(x) = n
  BY WordLen DEF WordOf
<1>3. Hashes!Complement(x) = Hashes!Evaluated(f)
  BY <1>2, Zenon DEF Hashes!Complement
<1>4. f = [i \in 1..n |-> f[i]]
  OBVIOUS
<1> HIDE DEF f
<1>5. Hashes!Evaluated(f) = f
  BY <1>4, EvaluatedSame
<1> QED BY <1>1, <1>3, <1>5 DEF f

LEMMA ByteIs ==
    ASSUME NEW n \in Nat, NEW x \in WordOf(n), NEW i \in Int
    PROVE  /\ Hashes!Byte(x, i) = IF i \in 1..n THEN x[i] ELSE 0
           /\ Hashes!Byte(x, i) \in Octet
<1>1. DOMAIN x = 1..n /\ \A j \in 1..n : x[j] \in Octet
  BY DEF WordOf
<1>2. 0 \in Octet
  BY DEF Octet
<1> QED BY <1>1, <1>2, Zenon DEF Hashes!Byte

LEMMA CastIs ==
    ASSUME NEW n \in Nat, NEW x \in WordOf(n), NEW m \in Nat
    PROVE  /\ Hashes!Cast(x, m) = [i \in 1..m |-> Hashes!Byte(x, i)]
           /\ Hashes!Cast(x, m) \in WordOf(m)
<1> DEFINE f == [i \in 1..m |-> Hashes!Byte(x, i)]
<1>1. f \in WordOf(m)
  <2>1. \A i \in 1..m : Hashes!Byte(x, i) \in Octet
    BY ByteIs
  <2> QED BY <2>1 DEF WordOf
<1>2. Hashes!Cast(x, m) = Hashes!Evaluated(f)
  BY Zenon DEF Hashes!Cast
<1>3. f = [i \in 1..m |-> f[i]]
  OBVIOUS
<1> HIDE DEF f
<1>4. Hashes!Evaluated(f) = f
  BY <1>3, EvaluatedSame
<1> QED BY <1>1, <1>2, <1>4 DEF f

LEMMA CharIs ==
    ASSUME NEW n \in Nat, NEW b \in Octet, NEW signed \in BOOLEAN
    PROVE  /\ Hashes!Char(b, signed, n) =
                [i \in 1..n |-> IF i = 1 THEN b ELSE IF signed /\ b >= 128 THEN 255 ELSE 0]
           /\ Hashes!Char(b, signed, n) \in WordOf(n)
<1> DEFINE f == [i \in 1..n |-> IF i = 1 THEN b ELSE IF signed /\ b >= 128 THEN 255 ELSE 0]
<1>1. f \in WordOf(n)
  BY DEF WordOf, Octet
<1>2. Hashes!Char(b, signed, n) = Hashes!Evaluated(f)
  BY Zenon DEF Hashes!Char
<1>3. f = [i \in 1..n |-> f[i]]
  OBVIOUS
<1> HIDE DEF f
<1>4. Hashes!Evaluated(f) = f
  BY <1>3, EvaluatedSame
<1> QED BY <1>1, <1>2, <1>4 DEF f

(* Shifts by less than a byte: what a byte receives of itself and of its   *)
(* neighbour fits in a byte.                                               *)
UpShare(a, b, r)   == ((a * Hashes!Power2[r + 1]) % 256) + (b \div Hashes!Power2[9 - r])
DownShare(a, b, r) == (a \div Hashes!Power2[r + 1]) + ((b * Hashes!Power2[9 - r]) % 256)

LEMMA ShiftedByte ==
    ASSUME NEW a \in Octet, NEW b \in Octet, NEW r \in 0..7
    PROVE  UpShare(a, b, r) \in Octet /\ DownShare(a, b, r) \in Octet
<1>1. /\ Hashes!Power2[1] = 1 /\ Hashes!Power2[2] = 2 /\ Hashes!Power2[3] = 4
      /\ Hashes!Power2[4] = 8 /\ Hashes!Power2[5] = 16 /\ Hashes!Power2[6] = 32
      /\ Hashes!Power2[7] = 64 /\ Hashes!Power2[8] = 128 /\ Hashes!Power2[9] = 256
  BY DEF Hashes!Power2
<1>2. \A e \in {0, 1, 2, 3, 4, 5, 6, 7} : \E m, d \in Nat :
        /\ m = Hashes!Power2[e + 1] /\ d = Hashes!Power2[9 - e]
        /\ \/ (m = 1 /\ d = 256) \/ (m = 2 /\ d = 128) \/ (m = 4 /\ d = 64) \/ (m = 8 /\ d = 32)
           \/ (m = 16 /\ d = 16) \/ (m = 32 /\ d = 8) \/ (m = 64 /\ d = 4) \/ (m = 128 /\ d = 2)
  BY <1>1
<1>2a. r \in {0, 1, 2, 3, 4, 5, 6, 7}
  OBVIOUS
<1>3. PICK m, d \in Nat :
        /\ m = Hashes!Power2[r + 1] /\ d = Hashes!Power2[9 - r]
        /\ \/ (m = 1 /\ d = 256) \/ (m = 2 /\ d = 128) \/ (m = 4 /\ d = 64) \/ (m = 8 /\ d = 32)
           \/ (m = 16 /\ d = 16) \/ (m = 32 /\ d = 8) \/ (m = 64 /\ d = 4) \/ (m = 128 /\ d = 2)
  BY <1>2, <1>2a
<1>4. ((a * m) % 256) + (b \div d) \in 0..255 /\ (a \div m) + ((b * d) % 256) \in 0..255
  <2>0. a \in 0..255 /\ b \in 0..255
    BY DEF Octet
  <2>1. CASE m = 1 /\ d = 256
    <3>1. ((a * 1) % 256) + (b \div 256) \in 0..255 /\ (a \div 1) + ((b * 256) % 256) \in 0..255
      BY <2>0
    <3> QED BY <2>1, <3>1
  <2>2. CASE m = 2 /\ d = 128
    <3>1. ((a * 2) % 256) + (b \div 128) \in 0..255 /\ (a \div 2) + ((b * 128) % 256) \in 0..255
      BY <2>0
    <3> QED BY <2>2, <3>1
  <2>3. CASE m = 4 /\ d = 64
    <3>1. ((a * 4) % 256) + (b \div 64) \in 0..255 /\ (a \div 4) + ((b * 64) % 256) \in 0..255
      BY <2>0
    <3> QED BY <2>3, <3>1
  <2>4. CASE m = 8 /\ d = 32
    <3>1. ((a * 8) % 256) + (b \div 32) \in 0..255 /\ (a \div 8) + ((b * 32) % 256) \in 0..255
      BY <2>0
    <3> QED BY <2>4, <3>1
  <2>5. CASE m = 16 /\ d = 16
    <3>1. ((a * 16) % 256) + (b \div 16) \in 0..255 /\ (a \div 16) + ((b * 16) % 256) \in 0..255
      BY <2>0
    <3> QED BY <2>5, <3>1
  <2>6. CASE m = 32 /\ d = 8
    <3>1. ((a * 32) % 256) + (b \div 8) \in 0..255 /\ (a \div 32) + ((b * 8) % 256) \in 0..255
      BY <2>0
    <3> QED BY <2>6, <3>1
  <2>7. CASE m = 64 /\ d = 4
    <3>1. ((a * 64) % 256) + (b \div 4) \in 0..255 /\ (a \div 64) + ((b * 4) % 256) \in 0..255
      BY <2>0
    <3> QED BY <2>7, <3>1
  <2>8. CASE m = 128 /\ d = 2
    <3>1. ((a * 128) % 256) + (b \div 2) \in 0..255 /\ (a \div 128) + ((b * 2) % 256) \in 0..255
      BY <2>0
    <3> QED BY <2>8, <3>1
  <2> QED BY <1>3, <2>1, <2>2, <2>3, <2>4, <2>5, <2>6, <2>7, <2>8
<1> QED BY <1>3, <1>4 DEF Octet, UpShare, DownShare

ShlByte(x, e, i) ==
    ((Hashes!Byte(x, i - (e \div 8)) * Hashes!Power2[(e % 8) + 1]) % 256)
    + (Hashes!Byte(x, i - (e \div 8) - 1) \div Hashes!Power2[9 - (e % 8)])

LEMMA ShlIs ==
    ASSUME NEW n \in Nat, NEW x \in WordOf(n), NEW e \in Nat
    PROVE  /\ Hashes!Shl(x, e) \in WordOf(n)
           /\ \A i \in 1..n : Hashes!Shl(x, e)[i] = ShlByte(x, e, i)
<1> DEFINE f == [i \in 1..n |-> ShlByte(x, e, i)]
<1>1. f \in WordOf(n)
  <2>1. PICK q \in Int, r \in 0..7 : q = e \div 8 /\ r = e % 8
    OBVIOUS
  <2>2. ASSUME NEW i \in 1..n
        PROVE  ((Hashes!Byte(x, i - q) * Hashes!Power2[r + 1]) % 256) + (Hashes!Byte(x, i - q - 1) \div Hashes!Power2[9 - r]) \in Octet
    <3>1. i - q \in Int /\ i - q - 1 \in Int
      OBVIOUS
    <3>2. Hashes!Byte(x, i - q) \in Octet /\ Hashes!Byte(x, i - q - 1) \in Octet
      BY <3>1, ByteIs
    <3>3. UpShare(Hashes!Byte(x, i - q), Hashes!Byte(x, i - q - 1), r) \in Octet
      BY <3>2, ShiftedByte
    <3> QED BY <3>3, Zenon DEF UpShare
  <2>3. \A i \in 1..n : ShlByte(x, e, i) \in Octet
    BY <2>1, <2>2, Zenon DEF ShlByte
  <2> QED BY <2>3 DEF WordOf
<1>2. Len(x) = n
  BY WordLen DEF WordOf
<1>3. Hashes!Shl(x, e) = Hashes!Evaluated(f)
  BY <1>2, Zenon DEF Hashes!Shl, ShlByte
<1>4. f = [i \in 1..n |-> f[i]] /\ \A i \in 1..n : f[i] = ShlByte(x, e, i)
  OBVIOUS
<1> HIDE DEF f
<1>5. Hashes!Evaluated(f) = f
  BY <1>4, EvaluatedSame
<1> QED BY <1>1, <1>3, <1>4, <1>5, Zenon

ShrByte(x, e, i) ==
    (Hashes!Byte(x, i + (e \div 8)) \div Hashes!Power2[(e % 8) + 1])
    + ((Hashes!Byte(x, i + (e \div 8) + 1) * Hashes!Power2[9 - (e % 8)]) % 256)

LEMMA ShrIs ==
    ASSUME NEW n \in Nat, NEW x \in WordOf(n), NEW e \in Nat
    PROVE  /\ Hashes!Shr(x, e) \in WordOf(n)
           /\ \A i \in 1..n : Hashes!Shr(x, e)[i] = ShrByte(x, e, i)
<1> DEFINE f == [i \in 1..n |-> ShrByte(x, e, i)]
<1>1. f \in WordOf(n)
  <2>1. PICK q \in Int, r \in 0..7 : q = e \div 8 /\ r = e % 8
    OBVIOUS
  <2>2. ASSUME NEW i \in 1..n
        PROVE  (Hashes!Byte(x, i + q) \div Hashes!Power2[r + 1]) + ((Hashes!Byte(x, i + q + 1) * Hashes!Power2[9 - r]) % 256) \in Octet
    <3>1. i + q \in Int /\ i + q + 1 \in Int
      OBVIOUS
    <3>2. Hashes!Byte(x, i + q) \in Octet /\ Hashes!Byte(x, i + q + 1) \in Octet
      BY <3>1, ByteIs
    <3>3. DownShare(Hashes!Byte(x, i + q), Hashes!Byte(x, i + q + 1), r) \in Octet
      BY <3>2, ShiftedByte
    <3> QED BY <3>3, Zenon DEF DownShare
  <2>3. \A i \in 1..n : ShrByte(x, e, i) \in Octet
    BY <2>1, <2>2, Zenon DEF ShrByte
  <2> QED BY <2>3 DEF WordOf
<1>2. Len(x) = n
  BY WordLen DEF WordOf
<1>3. Hashes!Shr(x, e) = Hashes!Evaluated(f)
  BY <1>2, Zenon DEF Hashes!Shr, ShrByte
<1>4. f = [i \in 1..n |-> f[i]] /\ \A i \in 1..n : f[i] = ShrByte(x, e, i)
  OBVIOUS
<1> HIDE DEF f
<1>5. Hashes!Evaluated(f) = f
  BY <1>4, EvaluatedSame
<1> QED BY <1>1, <1>3, <1>4, <1>5, Zenon

(* The sums of the columns become bytes: each passes on its carry.         *)
LEMMA WordBytes ==
    ASSUME NEW m \in Nat, NEW w \in WordOf(m)
    PROVE  \A i \in 1..m : w[i] \in Octet /\ w[i] \in Nat
<1>1. \A i \in 1..m : w[i] \in Octet
  BY DEF WordOf
<1>2. \A a \in Octet : a \in Nat
  BY DEF Octet
<1> QED BY <1>1, <1>2, Zenon

LEMMA CarriedDef ==
    ASSUME NEW m \in Nat, NEW col \in [1..m -> Nat]
    PROVE  \E carry \in [0..m -> Nat] :
              /\ carry[0] = 0 /\ \A i \in 1..m : carry[i] = (carry[i - 1] + col[i]) \div 256
              /\ Hashes!Carried(col, m) = Hashes!Evaluated([i \in 1..m |-> (carry[i - 1] + col[i]) % 256])
<1> DEFINE n == m
           step == [i \in 1..n |-> [v \in Nat |-> (v + col[i]) \div 256]]
           eq(g) == [i \in 0..n |-> IF i = 0 THEN 0 ELSE (g[i - 1] + col[i]) \div 256]
           value == CHOOSE g : g = eq(g)
<1>1. step \in Steps(n, Nat)
  BY DEF Steps
<1>2. n \in Nat /\ 0 \in Nat
  BY DEF Steps
<1>3. ASSUME NEW f, Follows(f, n, Nat, 0, step)
      PROVE  /\ f \in [0..n -> Nat] /\ f[0] = 0
             /\ \A i \in 1..n : f[i] = (f[i - 1] + col[i]) \div 256
  <2>1. f \in [0..n -> Nat] /\ f[0] = 0
    <3> HIDE DEF step
    <3> QED BY <1>3 DEF Follows
  <2>2. ASSUME NEW i \in 1..n PROVE f[i] = (f[i - 1] + col[i]) \div 256
    <3>1. f[i - 1] \in Nat
      <4> HIDE DEF n
      <4>1. i - 1 \in 0..n
        BY <1>2
      <4> QED BY <2>1, <4>1
    <3>2. f[i] = step[i][f[i - 1]]
      <4> HIDE DEF step
      <4> QED BY <1>3 DEF Follows
    <3>3. step[i][f[i - 1]] = (f[i - 1] + col[i]) \div 256
      BY <3>1
    <3> HIDE DEF step
    <3> QED BY <3>2, <3>3
  <2> QED BY <2>1, <2>2
<1>4. PICK f : Follows(f, n, Nat, 0, step)
  <2> HIDE DEF step, n
  <2> QED BY <1>1, <1>2, Recursion, Zenon
<1>5. f = eq(f)
  <2> HIDE DEF step
  <2>1. /\ f \in [0..n -> Nat] /\ f[0] = 0
        /\ \A i \in 1..n : f[i] = (f[i - 1] + col[i]) \div 256
    BY <1>3, <1>4, Zenon
  <2> HIDE DEF n
  <2>2. \A i \in 0..n : f[i] = IF i = 0 THEN 0 ELSE (f[i - 1] + col[i]) \div 256
    BY <1>2, <2>1
  <2> QED BY <2>1, <2>2
<1>6. Hashes!Carried(col, m) = Hashes!Evaluated([i \in 1..m |-> (value[i - 1] + col[i]) % 256])
  BY Zenon DEF Hashes!Carried
<1> HIDE DEF eq
<1>7. value = eq(value)
  BY <1>5, Zenon
<1>8. Follows(value, n, Nat, 0, step)
  <2> HIDE DEF value, n
  <2>1. value = [i \in 0..n |-> value[i]] /\ value[0] = 0
    BY <1>2, <1>7 DEF eq
  <2>2. ASSUME NEW i \in 1..n, value[i - 1] \in Nat PROVE value[i] = step[i][value[i - 1]]
    <3>1. value[i] = (value[i - 1] + col[i]) \div 256
      BY <1>2, <1>7 DEF eq
    <3> QED BY <2>2, <3>1
  <2> HIDE DEF step
  <2> QED BY <1>1, <1>2, <2>1, <2>2, StaysIn
<1> HIDE DEF value
<1>9. /\ value \in [0..n -> Nat] /\ value[0] = 0
      /\ \A i \in 1..n : value[i] = (value[i - 1] + col[i]) \div 256
  <2> HIDE DEF step, n
  <2> QED BY <1>3, <1>8, Zenon
<1> HIDE DEF step
<1> QED BY <1>6, <1>9, Zenon

LEMMA CarriedIs ==
    ASSUME NEW m \in Nat, NEW col \in [1..m -> Nat]
    PROVE  \E carry \in [0..m -> Nat] :
              /\ carry[0] = 0 /\ \A i \in 1..m : carry[i] = (carry[i - 1] + col[i]) \div 256
              /\ Hashes!Carried(col, m) = [i \in 1..m |-> (carry[i - 1] + col[i]) % 256]
              /\ Hashes!Carried(col, m) \in WordOf(m)
<1>1. PICK carry \in [0..m -> Nat] :
        /\ carry[0] = 0 /\ \A i \in 1..m : carry[i] = (carry[i - 1] + col[i]) \div 256
        /\ Hashes!Carried(col, m) = Hashes!Evaluated([i \in 1..m |-> (carry[i - 1] + col[i]) % 256])
  BY CarriedDef
<1> DEFINE f == [i \in 1..m |-> (carry[i - 1] + col[i]) % 256]
<1>2. f \in WordOf(m)
  <2>1. \A a, b \in Nat : (a + b) % 256 \in 0..255
    OBVIOUS
  <2>2. ASSUME NEW i \in 1..m PROVE carry[i - 1] \in Nat /\ col[i] \in Nat
    <3>1. i - 1 \in 0..m
      OBVIOUS
    <3> QED BY <3>1
  <2>3. \A i \in 1..m : (carry[i - 1] + col[i]) % 256 \in Octet
    BY <2>1, <2>2, Zenon DEF Octet
  <2> QED BY <2>3 DEF WordOf
<1>3. f = [i \in 1..m |-> f[i]]
  OBVIOUS
<1>4. Hashes!Evaluated(f) = f
  <2> HIDE DEF f
  <2> QED BY <1>3, EvaluatedSame
<1> QED BY <1>1, <1>2, <1>4, Zenon

LEMMA ColumnDef ==
    ASSUME NEW m \in Nat, NEW x \in WordOf(m), NEW y \in WordOf(m), NEW e \in 0..m
    PROVE  \E sum \in [0..e -> Nat] :
              /\ sum[0] = 0 /\ \A i \in 1..e : sum[i] = sum[i - 1] + x[i] * y[e + 1 - i]
              /\ Hashes!Column(x, y, e) = sum[e]
<1> DEFINE product == [i \in 1..e |-> x[i] * y[e + 1 - i]]
<1>0. product \in [1..e -> Nat]
  <2>1. ASSUME NEW i \in 1..e PROVE x[i] * y[e + 1 - i] \in Nat
    <3>1. i \in 1..m /\ e + 1 - i \in 1..m
      OBVIOUS
    <3>2. x[i] \in Nat /\ y[e + 1 - i] \in Nat
      BY <3>1, WordBytes, Zenon
    <3>3. \A a, b \in Nat : a * b \in Nat
      OBVIOUS
    <3> QED BY <3>2, <3>3, Zenon
  <2> QED BY <2>1
<1>p. \A i \in 1..e : product[i] = x[i] * y[e + 1 - i]
  OBVIOUS
<1>q. Hashes!Column(x, y, e) =
        LET sum[i \in 0..e] == IF i = 0 THEN 0 ELSE sum[i - 1] + x[i] * y[e + 1 - i] IN sum[e]
  BY Zenon DEF Hashes!Column
<1>r. \A g : [i \in 0..e |-> IF i = 0 THEN 0 ELSE g[i - 1] + x[i] * y[e + 1 - i]] =
              [i \in 0..e |-> IF i = 0 THEN 0 ELSE g[i - 1] + product[i]]
  BY <1>p
<1>s. Hashes!Column(x, y, e) =
        LET sum[i \in 0..e] == IF i = 0 THEN 0 ELSE sum[i - 1] + product[i] IN sum[e]
  <2> HIDE DEF product
  <2> QED BY <1>q, <1>r, Zenon
<1> HIDE DEF product
<1> DEFINE n == e
           step == [i \in 1..n |-> [v \in Nat |-> v + product[i]]]
           eq(g) == [i \in 0..n |-> IF i = 0 THEN 0 ELSE g[i - 1] + product[i]]
           value == CHOOSE g : g = eq(g)
<1>1. step \in Steps(n, Nat)
  BY <1>0 DEF Steps
<1>2. n \in Nat /\ 0 \in Nat
  BY <1>0 DEF Steps
<1>3. ASSUME NEW f, Follows(f, n, Nat, 0, step)
      PROVE  /\ f \in [0..n -> Nat] /\ f[0] = 0
             /\ \A i \in 1..n : f[i] = f[i - 1] + product[i]
  <2>1. f \in [0..n -> Nat] /\ f[0] = 0
    <3> HIDE DEF step
    <3> QED BY <1>3 DEF Follows
  <2>2. ASSUME NEW i \in 1..n PROVE f[i] = f[i - 1] + product[i]
    <3>1. f[i - 1] \in Nat
      <4> HIDE DEF n
      <4>1. i - 1 \in 0..n
        BY <1>2
      <4> QED BY <2>1, <4>1
    <3>2. f[i] = step[i][f[i - 1]]
      <4> HIDE DEF step
      <4> QED BY <1>3 DEF Follows
    <3>3. step[i][f[i - 1]] = f[i - 1] + product[i]
      BY <3>1
    <3> HIDE DEF step
    <3> QED BY <3>2, <3>3
  <2> QED BY <2>1, <2>2
<1>4. PICK f : Follows(f, n, Nat, 0, step)
  <2> HIDE DEF step, n
  <2> QED BY <1>1, <1>2, Recursion, Zenon
<1>5. f = eq(f)
  <2> HIDE DEF step
  <2>1. /\ f \in [0..n -> Nat] /\ f[0] = 0
        /\ \A i \in 1..n : f[i] = f[i - 1] + product[i]
    BY <1>3, <1>4, Zenon
  <2> HIDE DEF n
  <2>2. \A i \in 0..n : f[i] = IF i = 0 THEN 0 ELSE f[i - 1] + product[i]
    BY <1>2, <2>1
  <2> QED BY <2>1, <2>2
<1>6. Hashes!Column(x, y, e) = value[e]
  BY <1>s, Zenon
<1> HIDE DEF eq
<1>7. value = eq(value)
  BY <1>5, Zenon
<1>8. Follows(value, n, Nat, 0, step)
  <2> HIDE DEF value, n
  <2>1. value = [i \in 0..n |-> value[i]] /\ value[0] = 0
    BY <1>2, <1>7 DEF eq
  <2>2. ASSUME NEW i \in 1..n, value[i - 1] \in Nat PROVE value[i] = step[i][value[i - 1]]
    <3>1. value[i] = value[i - 1] + product[i]
      BY <1>2, <1>7 DEF eq
    <3> QED BY <2>2, <3>1
  <2> HIDE DEF step
  <2> QED BY <1>1, <1>2, <2>1, <2>2, StaysIn
<1> HIDE DEF value
<1>9. /\ value \in [0..n -> Nat] /\ value[0] = 0
      /\ \A i \in 1..n : value[i] = value[i - 1] + product[i]
  <2> HIDE DEF step, n
  <2> QED BY <1>3, <1>8, Zenon
<1> HIDE DEF step
<1> QED BY <1>p, <1>6, <1>9, Zenon

LEMMA AddIs ==
    ASSUME NEW m \in Nat, NEW x \in WordOf(m), NEW y \in WordOf(m)
    PROVE  Hashes!Add(x, y) \in WordOf(m)
<1> DEFINE col == [i \in 1..m |-> x[i] + y[i]]
<1>1. col \in [1..m -> Nat] /\ col = [i \in 1..m |-> col[i]]
  <2>1. \A i \in 1..m : x[i] \in Nat /\ y[i] \in Nat
    BY WordBytes
  <2>2. \A a, b \in Nat : a + b \in Nat
    OBVIOUS
  <2>3. \A i \in 1..m : x[i] + y[i] \in Nat
    BY <2>1, <2>2, Zenon
  <2> QED BY <2>3
<1>2. Len(x) = m
  BY WordLen DEF WordOf
<1>3. Hashes!Add(x, y) = Hashes!Carried(Hashes!Evaluated(col), m)
  BY <1>2, Zenon DEF Hashes!Add
<1> HIDE DEF col
<1>4. Hashes!Evaluated(col) = col
  BY <1>1, EvaluatedSame
<1>5. Hashes!Carried(col, m) \in WordOf(m)
  BY <1>1, CarriedIs
<1> QED BY <1>3, <1>4, <1>5

LEMMA MulIs ==
    ASSUME NEW m \in Nat, NEW x \in WordOf(m), NEW y \in WordOf(m)
    PROVE  LET col == [i \in 1..m |-> Hashes!Column(x, y, i)] IN
           /\ col \in [1..m -> Nat]
           /\ Hashes!Mul(x, y) = Hashes!Carried(col, m)
           /\ Hashes!Mul(x, y) \in WordOf(m)
<1> DEFINE col == [i \in 1..m |-> Hashes!Column(x, y, i)]
<1>1. col \in [1..m -> Nat]
  <2>1. ASSUME NEW i \in 1..m PROVE Hashes!Column(x, y, i) \in Nat
    <3>1. i \in 0..m /\ i \in 0..i
      OBVIOUS
    <3>2. PICK sum \in [0..i -> Nat] : Hashes!Column(x, y, i) = sum[i]
      BY <3>1, ColumnDef, Zenon
    <3> QED BY <3>1, <3>2
  <2> QED BY <2>1
<1>2. Len(x) = m
  BY WordLen DEF WordOf
<1>3. Hashes!Mul(x, y) = Hashes!Carried(Hashes!Evaluated(col), m)
  BY <1>2, Zenon DEF Hashes!Mul
<1>x. col = [i \in 1..m |-> col[i]]
  OBVIOUS
<1> HIDE DEF col
<1>4. Hashes!Evaluated(col) = col
  BY <1>x, EvaluatedSame
<1>5. Hashes!Carried(col, m) \in WordOf(m)
  BY <1>1, CarriedIs
<1>6. col \in [1..m -> Nat] /\ Hashes!Mul(x, y) = Hashes!Carried(col, m) /\ Hashes!Mul(x, y) \in WordOf(m)
  BY <1>1, <1>3, <1>4, <1>5
<1> QED BY <1>6 DEF col

-----------------------------------------------------------------------------
(* Words that are written out.                                             *)
LEMMA TwoBytes ==
    ASSUME NEW a \in Octet, NEW b \in Octet
    PROVE  <<a, b>> \in WordOf(2)
BY DEF WordOf

LEMMA FourBytes ==
    ASSUME NEW a \in Octet, NEW b \in Octet, NEW c \in Octet, NEW d \in Octet
    PROVE  <<a, b, c, d>> \in WordOf(4)
BY DEF WordOf

LEMMA WordsWritten ==
    /\ Hashes!FNV_64_INIT \in WordOf(8) /\ Hashes!FNV_64_PRIME \in WordOf(8)
    /\ Hashes!FNV_32_INIT \in WordOf(4) /\ Hashes!FNV_32_PRIME \in WordOf(4)
    /\ Hashes!murmur_m \in WordOf(4) /\ Hashes!deadbeef \in WordOf(4)
    /\ \A m \in Nat : Hashes!Zero(m) \in WordOf(m)
<1>1. Hashes!FNV_64_INIT \in WordOf(8) /\ Hashes!FNV_64_PRIME \in WordOf(8)
  BY DEF WordOf, Octet, Hashes!FNV_64_INIT, Hashes!FNV_64_PRIME
<1>2. Hashes!FNV_32_INIT \in WordOf(4) /\ Hashes!FNV_32_PRIME \in WordOf(4)
  BY DEF WordOf, Octet, Hashes!FNV_32_INIT, Hashes!FNV_32_PRIME
<1>3. Hashes!murmur_m \in WordOf(4) /\ Hashes!deadbeef \in WordOf(4)
  BY DEF WordOf, Octet, Hashes!murmur_m, Hashes!deadbeef
<1>4. \A m \in Nat : Hashes!Zero(m) \in WordOf(m)
  BY DEF WordOf, Octet, Hashes!Zero
<1> QED BY <1>1, <1>2, <1>3, <1>4

LEMMA ConcatBytes ==
    ASSUME NEW s \in Seq(Int), NEW t \in Seq(Int)
    PROVE  /\ s \o t \in Seq(Int) /\ Len(s \o t) = Len(s) + Len(t)
           /\ \A i \in 1..Len(s) : (s \o t)[i] = s[i]
           /\ \A i \in 1..Len(t) : (s \o t)[Len(s) + i] = t[i]
OBVIOUS

LEMMA SameBytes ==
    ASSUME NEW s \in Seq(Int), NEW t \in Seq(Int), Len(s) = Len(t),
           \A i \in 1..Len(s) : s[i] = t[i]
    PROVE  s = t
OBVIOUS

(* Two bytes above: zeros.                                                 *)
LEMMA WidenedIs ==
    ASSUME NEW w \in WordOf(2)
    PROVE  w \o <<0, 0>> = <<w[1], w[2], 0, 0>> /\ w \o <<0, 0>> \in WordOf(4)
<1>1. w = <<w[1], w[2]>>
  <2> DEFINE t == <<w[1], w[2]>>
  <2>1. w = [i \in 1..2 |-> w[i]]
    BY DEF WordOf
  <2>2. t = [i \in 1..2 |-> t[i]]
    OBVIOUS
  <2>3. \A i \in 1..2 : w[i] = t[i]
    OBVIOUS
  <2> HIDE DEF t
  <2>4. [i \in 1..2 |-> w[i]] = [i \in 1..2 |-> t[i]]
    BY <2>3
  <2>5. w = t
    BY <2>1, <2>2, <2>4, Zenon
  <2> QED BY <2>5 DEF t
<1>2. <<w[1], w[2]>> \o <<0, 0>> = <<w[1], w[2], 0, 0>>
  <2>1. w[1] \in Int /\ w[2] \in Int
    BY DEF WordOf, Octet
  <2> DEFINE a == <<w[1], w[2]>>
             b == <<0, 0>>
             t == <<w[1], w[2], 0, 0>>
  <2>2. a \in Seq(Int) /\ b \in Seq(Int) /\ Len(a) = 2 /\ Len(b) = 2
    BY <2>1
  <2>3. t \in Seq(Int) /\ Len(t) = 4
    BY <2>1
  <2>4. t[1] = a[1] /\ t[2] = a[2] /\ t[3] = b[1] /\ t[4] = b[2]
    OBVIOUS
  <2> HIDE DEF a, b, t
  <2>5. /\ a \o b \in Seq(Int) /\ Len(a \o b) = Len(a) + Len(b)
        /\ \A i \in 1..Len(a) : (a \o b)[i] = a[i]
        /\ \A i \in 1..Len(b) : (a \o b)[Len(a) + i] = b[i]
    BY <2>2, ConcatBytes, Zenon
  <2>6. \A i \in 1..4 : (a \o b)[i] = t[i]
    <3>1. (a \o b)[1] = a[1] /\ (a \o b)[2] = a[2]
      BY <2>2, <2>5
    <3>2. 1 \in 1..Len(b) /\ 2 \in 1..Len(b) /\ Len(a) + 1 = 3 /\ Len(a) + 2 = 4
      BY <2>2
    <3>3. (a \o b)[3] = b[1] /\ (a \o b)[4] = b[2]
      BY <2>5, <3>2, Zenon
    <3>4. \A i \in 1..4 : i = 1 \/ i = 2 \/ i = 3 \/ i = 4
      OBVIOUS
    <3> QED BY <2>4, <3>1, <3>3, <3>4, Zenon
  <2>7. a \o b = t
    <3>1. Len(a \o b) = Len(t) /\ Len(a \o b) = 4
      BY <2>2, <2>3, <2>5
    <3>2. \A i \in 1..Len(a \o b) : (a \o b)[i] = t[i]
      BY <2>6, <3>1, Zenon
    <3>3. a \o b \in Seq(Int) /\ t \in Seq(Int)
      BY <2>3, <2>5
    <3> QED BY <2>3, <3>1, <3>2, <3>3, SameBytes
  <2> QED BY <2>7 DEF a, b, t
<1>2a. w \o <<0, 0>> = <<w[1], w[2], 0, 0>>
  BY <1>1, <1>2, Zenon
<1>3. w[1] \in Octet /\ w[2] \in Octet /\ 0 \in Octet
  BY DEF WordOf, Octet
<1> QED BY <1>2a, <1>3, FourBytes

-----------------------------------------------------------------------------
(* The tables: eight steps of the division for each byte.                  *)
Polynomial16 == <<\h21, \h10>>
Polynomial32 == <<\h20, \h83, \hB8, \hED>>
Divided16(r) ==
    IF r[2] >= 128
    THEN Hashes!XorWord(Hashes!Cast(Hashes!Shl(r, 1), 2) \o <<0, 0>>, <<\h21, \h10, 0, 0>>)
    ELSE Hashes!Cast(Hashes!Shl(r, 1), 2) \o <<0, 0>>
Divided32(r) ==
    IF r[1] % 2 = 1 THEN Hashes!XorWord(Hashes!Shr(r, 1), Polynomial32) ELSE Hashes!Shr(r, 1)

LEMMA DividedType ==
    ASSUME NEW r \in WordOf(4)
    PROVE  Divided16(r) \in WordOf(4) /\ Divided32(r) \in WordOf(4)
<1>1. Polynomial32 \in WordOf(4) /\ <<\h21, \h10, 0, 0>> \in WordOf(4)
  BY DEF WordOf, Octet, Polynomial32
<1>2. Hashes!Shl(r, 1) \in WordOf(4) /\ Hashes!Shr(r, 1) \in WordOf(4)
  BY ShlIs, ShrIs
<1>3. Hashes!Cast(Hashes!Shl(r, 1), 2) \in WordOf(2)
  BY <1>2, CastIs
<1>4. Hashes!Cast(Hashes!Shl(r, 1), 2) \o <<0, 0>> \in WordOf(4)
  BY <1>3, WidenedIs
<1>5. /\ Hashes!XorWord(Hashes!Cast(Hashes!Shl(r, 1), 2) \o <<0, 0>>, <<\h21, \h10, 0, 0>>) \in WordOf(4)
      /\ Hashes!XorWord(Hashes!Shr(r, 1), Polynomial32) \in WordOf(4)
  BY <1>1, <1>2, <1>4, XorWordIs
<1> QED BY <1>2, <1>4, <1>5, Zenon DEF Divided16, Divided32

LEMMA Table16Def ==
    ASSUME NEW b \in Octet
    PROVE  \E r \in [0..8 -> WordOf(4)] :
              /\ r[0] = <<0, b, 0, 0>> /\ \A i \in 1..8 : r[i] = Divided16(r[i - 1])
              /\ Hashes!crc16tab[b] = r[8]
<1>0. <<0, b, 0, 0>> \in WordOf(4)
  <2>1. 0 \in Octet
    BY DEF Octet
  <2> QED BY <2>1, FourBytes
<1> DEFINE n == 8
           step == [i \in 1..n |-> [v \in WordOf(4) |-> Divided16(v)]]
           eq(g) == [i \in 0..n |-> IF i = 0 THEN <<0, b, 0, 0>> ELSE Divided16(g[i - 1])]
           value == CHOOSE g : g = eq(g)
<1>1. step \in Steps(n, WordOf(4))
  BY <1>0, DividedType DEF Steps
<1>2. n \in Nat /\ <<0, b, 0, 0>> \in WordOf(4)
  BY <1>0, DividedType DEF Steps
<1>3. ASSUME NEW f, Follows(f, n, WordOf(4), <<0, b, 0, 0>>, step)
      PROVE  /\ f \in [0..n -> WordOf(4)] /\ f[0] = <<0, b, 0, 0>>
             /\ \A i \in 1..n : f[i] = Divided16(f[i - 1])
  <2>1. f \in [0..n -> WordOf(4)] /\ f[0] = <<0, b, 0, 0>>
    <3> HIDE DEF step
    <3> QED BY <1>3 DEF Follows
  <2>2. ASSUME NEW i \in 1..n PROVE f[i] = Divided16(f[i - 1])
    <3>1. f[i - 1] \in WordOf(4)
      <4> HIDE DEF n
      <4>1. i - 1 \in 0..n
        BY <1>2
      <4> QED BY <2>1, <4>1
    <3>2. f[i] = step[i][f[i - 1]]
      <4> HIDE DEF step
      <4> QED BY <1>3 DEF Follows
    <3>3. step[i][f[i - 1]] = Divided16(f[i - 1])
      BY <3>1
    <3> HIDE DEF step
    <3> QED BY <3>2, <3>3
  <2> QED BY <2>1, <2>2
<1>4. PICK f : Follows(f, n, WordOf(4), <<0, b, 0, 0>>, step)
  <2> HIDE DEF step, n
  <2> QED BY <1>1, <1>2, Recursion, Zenon
<1>5. f = eq(f)
  <2> HIDE DEF step
  <2>1. /\ f \in [0..n -> WordOf(4)] /\ f[0] = <<0, b, 0, 0>>
        /\ \A i \in 1..n : f[i] = Divided16(f[i - 1])
    BY <1>3, <1>4, Zenon
  <2> HIDE DEF n
  <2>2. \A i \in 0..n : f[i] = IF i = 0 THEN <<0, b, 0, 0>> ELSE Divided16(f[i - 1])
    BY <1>2, <2>1
  <2> QED BY <2>1, <2>2
<1>6. Hashes!crc16tab[b] = value[8]
  BY DEF Hashes!crc16tab, Divided16, Octet
<1> HIDE DEF eq
<1>7. value = eq(value)
  BY <1>5, Zenon
<1>8. Follows(value, n, WordOf(4), <<0, b, 0, 0>>, step)
  <2> HIDE DEF value, n
  <2>1. value = [i \in 0..n |-> value[i]] /\ value[0] = <<0, b, 0, 0>>
    BY <1>2, <1>7 DEF eq
  <2>2. ASSUME NEW i \in 1..n, value[i - 1] \in WordOf(4) PROVE value[i] = step[i][value[i - 1]]
    <3>0. i \in 0..n /\ i # 0
      BY <1>2
    <3>1. value[i] = Divided16(value[i - 1])
      BY <1>7, <3>0, Zenon DEF eq
    <3> QED BY <2>2, <3>1
  <2> HIDE DEF step
  <2> QED BY <1>1, <1>2, <2>1, <2>2, StaysIn
<1> HIDE DEF value
<1>9. /\ value \in [0..n -> WordOf(4)] /\ value[0] = <<0, b, 0, 0>>
      /\ \A i \in 1..n : value[i] = Divided16(value[i - 1])
  <2> HIDE DEF step, n
  <2> QED BY <1>3, <1>8, Zenon
<1> QED BY <1>6, <1>9, Zenon

LEMMA Table32Def ==
    ASSUME NEW b \in Octet
    PROVE  \E r \in [0..8 -> WordOf(4)] :
              /\ r[0] = <<b, 0, 0, 0>> /\ \A i \in 1..8 : r[i] = Divided32(r[i - 1])
              /\ Hashes!crc32tab[b] = r[8]
<1>0. <<b, 0, 0, 0>> \in WordOf(4)
  <2>1. 0 \in Octet
    BY DEF Octet
  <2> QED BY <2>1, FourBytes
<1> DEFINE n == 8
           step == [i \in 1..n |-> [v \in WordOf(4) |-> Divided32(v)]]
           eq(g) == [i \in 0..n |-> IF i = 0 THEN <<b, 0, 0, 0>> ELSE Divided32(g[i - 1])]
           value == CHOOSE g : g = eq(g)
<1>1. step \in Steps(n, WordOf(4))
  BY <1>0, DividedType DEF Steps
<1>2. n \in Nat /\ <<b, 0, 0, 0>> \in WordOf(4)
  BY <1>0, DividedType DEF Steps
<1>3. ASSUME NEW f, Follows(f, n, WordOf(4), <<b, 0, 0, 0>>, step)
      PROVE  /\ f \in [0..n -> WordOf(4)] /\ f[0] = <<b, 0, 0, 0>>
             /\ \A i \in 1..n : f[i] = Divided32(f[i - 1])
  <2>1. f \in [0..n -> WordOf(4)] /\ f[0] = <<b, 0, 0, 0>>
    <3> HIDE DEF step
    <3> QED BY <1>3 DEF Follows
  <2>2. ASSUME NEW i \in 1..n PROVE f[i] = Divided32(f[i - 1])
    <3>1. f[i - 1] \in WordOf(4)
      <4> HIDE DEF n
      <4>1. i - 1 \in 0..n
        BY <1>2
      <4> QED BY <2>1, <4>1
    <3>2. f[i] = step[i][f[i - 1]]
      <4> HIDE DEF step
      <4> QED BY <1>3 DEF Follows
    <3>3. step[i][f[i - 1]] = Divided32(f[i - 1])
      BY <3>1
    <3> HIDE DEF step
    <3> QED BY <3>2, <3>3
  <2> QED BY <2>1, <2>2
<1>4. PICK f : Follows(f, n, WordOf(4), <<b, 0, 0, 0>>, step)
  <2> HIDE DEF step, n
  <2> QED BY <1>1, <1>2, Recursion, Zenon
<1>5. f = eq(f)
  <2> HIDE DEF step
  <2>1. /\ f \in [0..n -> WordOf(4)] /\ f[0] = <<b, 0, 0, 0>>
        /\ \A i \in 1..n : f[i] = Divided32(f[i - 1])
    BY <1>3, <1>4, Zenon
  <2> HIDE DEF n
  <2>2. \A i \in 0..n : f[i] = IF i = 0 THEN <<b, 0, 0, 0>> ELSE Divided32(f[i - 1])
    BY <1>2, <2>1
  <2> QED BY <2>1, <2>2
<1>6. Hashes!crc32tab[b] = value[8]
  BY DEF Hashes!crc32tab, Divided32, Polynomial32, Octet
<1> HIDE DEF eq
<1>7. value = eq(value)
  BY <1>5, Zenon
<1>8. Follows(value, n, WordOf(4), <<b, 0, 0, 0>>, step)
  <2> HIDE DEF value, n
  <2>1. value = [i \in 0..n |-> value[i]] /\ value[0] = <<b, 0, 0, 0>>
    BY <1>2, <1>7 DEF eq
  <2>2. ASSUME NEW i \in 1..n, value[i - 1] \in WordOf(4) PROVE value[i] = step[i][value[i - 1]]
    <3>0. i \in 0..n /\ i # 0
      BY <1>2
    <3>1. value[i] = Divided32(value[i - 1])
      BY <1>7, <3>0, Zenon DEF eq
    <3> QED BY <2>2, <3>1
  <2> HIDE DEF step
  <2> QED BY <1>1, <1>2, <2>1, <2>2, StaysIn
<1> HIDE DEF value
<1>9. /\ value \in [0..n -> WordOf(4)] /\ value[0] = <<b, 0, 0, 0>>
      /\ \A i \in 1..n : value[i] = Divided32(value[i - 1])
  <2> HIDE DEF step, n
  <2> QED BY <1>3, <1>8, Zenon
<1> QED BY <1>6, <1>9, Zenon

LEMMA TablesType ==
    ASSUME NEW b \in Octet
    PROVE  Hashes!crc16tab[b] \in WordOf(4) /\ Hashes!crc32tab[b] \in WordOf(4)
<1>1. 8 \in 0..8
  OBVIOUS
<1>2. Hashes!crc16tab[b] \in WordOf(4)
  BY <1>1, Table16Def
<1>3. Hashes!crc32tab[b] \in WordOf(4)
  BY <1>1, Table32Def
<1> QED BY <1>2, <1>3

-----------------------------------------------------------------------------
(* Sums and differences with a shifted copy.                               *)
LEMMA ShiftsType ==
    ASSUME NEW m \in Nat, NEW v \in WordOf(m), NEW e \in Nat
    PROVE  /\ Hashes!AddShl(v, e) \in WordOf(m) /\ Hashes!AddShr(v, e) \in WordOf(m)
           /\ Hashes!XorShl(v, e) \in WordOf(m) /\ Hashes!XorShr(v, e) \in WordOf(m)
<1>1. Hashes!Shl(v, e) \in WordOf(m) /\ Hashes!Shr(v, e) \in WordOf(m)
  BY ShlIs, ShrIs
<1>2. Hashes!Add(v, Hashes!Shl(v, e)) \in WordOf(m) /\ Hashes!Add(v, Hashes!Shr(v, e)) \in WordOf(m)
  BY <1>1, AddIs
<1>3. /\ Hashes!XorWord(v, Hashes!Shl(v, e)) \in WordOf(m)
      /\ Hashes!XorWord(v, Hashes!Shr(v, e)) \in WordOf(m)
  BY <1>1, XorWordIs
<1> QED BY <1>2, <1>3, Zenon
        DEF Hashes!AddShl, Hashes!AddShr, Hashes!XorShl, Hashes!XorShr

(* The state of the hash functions.  The keys are strings of bytes, of any *)
(* length and in any number.                                               *)
HashAlgs == Hashes!ByteAlgs \cup Hashes!WordAlgs \cup {"murmur3"}
HashConstants == Algs \subseteq HashAlgs /\ Workloads \subseteq Seq(Seq(Octet)) \ {<<>>}

Width == IF alg = "fnv1_64" /\ at = "loop" THEN 8 ELSE 4

HashInv ==
    /\ alg \in HashAlgs /\ key \in Seq(Octet) /\ consumed \in 0..Len(key)
    /\ at \in {"loop", "done"} /\ (at = "done" => consumed = Len(key))
    /\ hash \in [BOOLEAN -> WordOf(Width)]
    /\ requests \in Seq(Seq(Octet)) /\ requests # <<>> /\ next \in 1..(Len(requests) + 1)

LEMMA KeyBytes ==
    ASSUME key \in Seq(Octet), NEW a \in Nat
    PROVE  /\ a + 1 <= Len(key) => key[a + 1] \in Octet
           /\ a + 2 <= Len(key) => key[a + 2] \in Octet
           /\ a + 3 <= Len(key) => key[a + 3] \in Octet
           /\ a + 4 <= Len(key) => key[a + 4] \in Octet
OBVIOUS

LEMMA KeyWords ==
    ASSUME key \in Seq(Octet), NEW a \in Nat
    PROVE  /\ a + 2 <= Len(key) => Hashes!get16bits(a) \in WordOf(4)
           /\ a + 4 <= Len(key) => /\ Hashes!get32bits(a) \in WordOf(4)
                                   /\ Hashes!get16bits(a + 2) \in WordOf(4)
<1>0. 0 \in Octet /\ Len(key) \in Nat
  BY DEF Octet
<1>1. ASSUME a + 2 <= Len(key) PROVE Hashes!get16bits(a) \in WordOf(4)
  <2>1. key[a + 1] \in Octet /\ key[a + 2] \in Octet
    BY <1>0, <1>1, KeyBytes
  <2> QED BY <1>0, <2>1, FourBytes DEF Hashes!get16bits
<1>2. ASSUME a + 4 <= Len(key)
      PROVE  Hashes!get32bits(a) \in WordOf(4) /\ Hashes!get16bits(a + 2) \in WordOf(4)
  <2>1. key[a + 1] \in Octet /\ key[a + 2] \in Octet /\ key[a + 3] \in Octet /\ key[a + 4] \in Octet
    BY <1>0, <1>2, KeyBytes
  <2>2. a + 2 + 1 = a + 3 /\ a + 2 + 2 = a + 4
    OBVIOUS
  <2>3. Hashes!get32bits(a) \in WordOf(4)
    BY <2>1, FourBytes DEF Hashes!get32bits
  <2>4. <<key[a + 3], key[a + 4], 0, 0>> \in WordOf(4)
    BY <1>0, <2>1, FourBytes
  <2>5. Hashes!get16bits(a + 2) = <<key[a + 3], key[a + 4], 0, 0>>
    BY <2>2, Zenon DEF Hashes!get16bits
  <2> QED BY <2>3, <2>4, <2>5
<1> QED BY <1>1, <1>2

(* One turn of a loop that folds bytes.                                    *)
LEMMA ByteTurnType ==
    ASSUME NEW v \in WordOf(4), NEW c \in WordOf(4), NEW m \in WordOf(4)
    PROVE  /\ Hashes!one_at_a_time(v, c) \in WordOf(4)
           /\ Hashes!crc16(v, c) \in WordOf(4) /\ Hashes!crc32(v, c) \in WordOf(4)
           /\ Hashes!fnv1(v, c, m) \in WordOf(4) /\ Hashes!fnv1a(v, c, m) \in WordOf(4)
<1>1. Hashes!one_at_a_time(v, c) \in WordOf(4)
  <2>1. Hashes!Add(v, c) \in WordOf(4)
    BY AddIs
  <2>2. Hashes!AddShl(Hashes!Add(v, c), 10) \in WordOf(4)
    BY <2>1, ShiftsType
  <2>3. Hashes!XorShr(Hashes!AddShl(Hashes!Add(v, c), 10), 6) \in WordOf(4)
    BY <2>2, ShiftsType
  <2> QED BY <2>3 DEF Hashes!one_at_a_time
<1>2. Hashes!crc16(v, c) \in WordOf(4) /\ Hashes!crc32(v, c) \in WordOf(4)
  <2>1. v[1] \in Octet /\ v[2] \in Octet /\ c[1] \in Octet
    BY DEF WordOf
  <2>2. Hashes!XorByte(v[2], c[1]) \in Octet /\ Hashes!XorByte(v[1], c[1]) \in Octet
    BY <2>1, XorByteType
  <2>3. /\ Hashes!crc16tab[Hashes!XorByte(v[2], c[1])] \in WordOf(4)
        /\ Hashes!crc32tab[Hashes!XorByte(v[1], c[1])] \in WordOf(4)
    BY <2>2, TablesType
  <2>4. Hashes!Shl(v, 8) \in WordOf(4) /\ Hashes!Shr(v, 8) \in WordOf(4)
    BY ShlIs, ShrIs
  <2>5. /\ Hashes!XorWord(Hashes!Shl(v, 8), Hashes!crc16tab[Hashes!XorByte(v[2], c[1])]) \in WordOf(4)
        /\ Hashes!XorWord(Hashes!Shr(v, 8), Hashes!crc32tab[Hashes!XorByte(v[1], c[1])]) \in WordOf(4)
    BY <2>3, <2>4, XorWordIs
  <2> QED BY <2>5, Zenon DEF Hashes!crc16, Hashes!crc32
<1>3. Hashes!fnv1(v, c, m) \in WordOf(4) /\ Hashes!fnv1a(v, c, m) \in WordOf(4)
  <2>1. Hashes!Mul(v, m) \in WordOf(4) /\ Hashes!XorWord(v, c) \in WordOf(4)
    BY MulIs, XorWordIs
  <2>2. Hashes!XorWord(Hashes!Mul(v, m), c) \in WordOf(4) /\ Hashes!Mul(Hashes!XorWord(v, c), m) \in WordOf(4)
    BY <2>1, MulIs, XorWordIs
  <2> QED BY <2>2, Zenon DEF Hashes!fnv1, Hashes!fnv1a
<1> QED BY <1>1, <1>2, <1>3

(* One turn of a loop that folds words.                                    *)
LEMMA WordTurnType ==
    ASSUME key \in Seq(Octet), NEW a \in Nat, a + 4 <= Len(key), NEW v \in WordOf(4)
    PROVE  Hashes!hsieh(v, a) \in WordOf(4) /\ Hashes!murmur(v, a) \in WordOf(4)
<1>1. /\ Hashes!get16bits(a) \in WordOf(4) /\ Hashes!get16bits(a + 2) \in WordOf(4)
      /\ Hashes!get32bits(a) \in WordOf(4) /\ Hashes!murmur_m \in WordOf(4)
  <2>1. a + 2 <= Len(key)
    OBVIOUS
  <2> QED BY <2>1, KeyWords, WordsWritten
<1>2. Hashes!hsieh(v, a) \in WordOf(4)
  <2> DEFINE sum == Hashes!Add(v, Hashes!get16bits(a))
             shifted == Hashes!Shl(Hashes!get16bits(a + 2), 11)
             tmp == Hashes!XorWord(shifted, sum)
             mixed == Hashes!XorWord(Hashes!Shl(sum, 16), tmp)
  <2>1. sum \in WordOf(4)
    BY <1>1, AddIs
  <2>2. shifted \in WordOf(4)
    BY <1>1, ShlIs
  <2>3. tmp \in WordOf(4)
    BY <2>1, <2>2, XorWordIs
  <2>4. Hashes!Shl(sum, 16) \in WordOf(4)
    BY <2>1, ShlIs
  <2>5. mixed \in WordOf(4)
    BY <2>3, <2>4, XorWordIs
  <2>6. Hashes!hsieh(v, a) = Hashes!AddShr(mixed, 11)
    BY Zenon DEF Hashes!hsieh
  <2> HIDE DEF mixed
  <2> QED BY <2>5, <2>6, ShiftsType
<1>3. Hashes!murmur(v, a) \in WordOf(4)
  <2> DEFINE u == Hashes!Mul(Hashes!get32bits(a), Hashes!murmur_m)
             w == Hashes!XorShr(u, 24)
             z == Hashes!Mul(w, Hashes!murmur_m)
  <2>1. u \in WordOf(4)
    BY <1>1, MulIs
  <2>2. w \in WordOf(4)
    <3> HIDE DEF u
    <3> QED BY <2>1, ShiftsType
  <2>3. z \in WordOf(4) /\ Hashes!Mul(v, Hashes!murmur_m) \in WordOf(4)
    <3> HIDE DEF w
    <3> QED BY <1>1, <2>2, MulIs
  <2>4. Hashes!murmur(v, a) = Hashes!XorWord(Hashes!Mul(v, Hashes!murmur_m), z)
    BY Zenon DEF Hashes!murmur
  <2> HIDE DEF z
  <2> QED BY <2>3, <2>4, XorWordIs
<1> QED BY <1>2, <1>3

(* One turn of the loop keeps the width of the hash.                       *)
LEMMA MixedType ==
    ASSUME HashInv, at = "loop", alg # "murmur3", consumed + Hashes!Stride <= Len(key),
           NEW v \in WordOf(Width), NEW signed \in BOOLEAN
    PROVE  Hashes!Mixed(v, signed) \in WordOf(Width)
<1> DEFINE c == Hashes!Char(key[consumed + 1], signed, Len(v))
<1>1. key \in Seq(Octet) /\ consumed \in Nat /\ Len(key) \in Nat /\ alg \in HashAlgs
  BY DEF HashInv
<1>2. Hashes!Stride \in {1, 4} /\ (alg \in Hashes!WordAlgs => Hashes!Stride = 4)
  BY DEF Hashes!Stride, Hashes!WordAlgs, Hashes!ByteAlgs
<1>3. key[consumed + 1] \in Octet
  BY <1>1, <1>2, KeyBytes
<1>4. Width \in {4, 8}
  BY DEF Width
<1>5. Len(v) = Width
  BY <1>4, WordLen DEF WordOf
<1>6. c \in WordOf(Width)
  BY <1>3, <1>4, <1>5, CharIs
<1> HIDE DEF c
<1>7. CASE alg = "fnv1_64"
  <2>1. Width = 8
    BY <1>7 DEF Width
  <2>2. Hashes!Mul(v, Hashes!FNV_64_PRIME) \in WordOf(8)
    BY <2>1, WordsWritten, MulIs
  <2>3. Hashes!XorWord(Hashes!Mul(v, Hashes!FNV_64_PRIME), c) \in WordOf(8)
    BY <1>6, <2>1, <2>2, XorWordIs
  <2>4. Hashes!Mixed(v, signed) = Hashes!fnv1(v, c, Hashes!FNV_64_PRIME)
    BY <1>7 DEF Hashes!Mixed, c
  <2> QED BY <2>1, <2>3, <2>4, Zenon DEF Hashes!fnv1
<1>8. CASE alg # "fnv1_64"
  <2>1. Width = 4
    BY <1>8 DEF Width
  <2>2. /\ Hashes!FNV_32_PRIME \in WordOf(4) /\ Hashes!Cast(Hashes!FNV_64_PRIME, 4) \in WordOf(4)
    BY WordsWritten, CastIs
  <2>3. CASE alg \in Hashes!ByteAlgs
    <3>1. /\ Hashes!one_at_a_time(v, c) \in WordOf(4)
          /\ Hashes!crc16(v, c) \in WordOf(4) /\ Hashes!crc32(v, c) \in WordOf(4)
          /\ Hashes!fnv1a(v, c, Hashes!Cast(Hashes!FNV_64_PRIME, 4)) \in WordOf(4)
          /\ Hashes!fnv1(v, c, Hashes!FNV_32_PRIME) \in WordOf(4)
          /\ Hashes!fnv1a(v, c, Hashes!FNV_32_PRIME) \in WordOf(4)
      BY <1>6, <2>1, <2>2, ByteTurnType
    <3>2. alg \in {"one_at_a_time", "crc16", "crc32", "crc32a", "fnv1a_64", "fnv1_32", "fnv1a_32"}
      BY <1>8, <2>3 DEF Hashes!ByteAlgs
    <3>3. Hashes!Mixed(v, signed) \in
            {Hashes!one_at_a_time(v, c), Hashes!crc16(v, c), Hashes!crc32(v, c),
             Hashes!fnv1a(v, c, Hashes!Cast(Hashes!FNV_64_PRIME, 4)),
             Hashes!fnv1(v, c, Hashes!FNV_32_PRIME), Hashes!fnv1a(v, c, Hashes!FNV_32_PRIME)}
      BY <3>2 DEF Hashes!Mixed, c
    <3> QED BY <2>1, <3>1, <3>3, Zenon
  <2>4. CASE alg \in Hashes!WordAlgs
    <3>1. consumed + 4 <= Len(key)
      BY <1>2, <2>4
    <3>2. Hashes!hsieh(v, consumed) \in WordOf(4) /\ Hashes!murmur(v, consumed) \in WordOf(4)
      BY <1>1, <2>1, <3>1, WordTurnType
    <3>3. Hashes!Mixed(v, signed) \in {Hashes!hsieh(v, consumed), Hashes!murmur(v, consumed)}
      BY <2>4 DEF Hashes!Mixed, Hashes!WordAlgs
    <3> QED BY <2>1, <3>2, <3>3, Zenon
  <2> QED BY <1>1, <2>3, <2>4 DEF HashAlgs
<1> QED BY <1>7, <1>8

(* What is left of the key behind the last whole word.                     *)
LEMMA HsiehTailType ==
    ASSUME key \in Seq(Octet), consumed \in 0..Len(key),
           NEW v \in WordOf(4), NEW signed \in BOOLEAN
    PROVE  Hashes!hsieh_tail(v, signed) \in WordOf(4)
<1>0. consumed \in Nat /\ Len(key) \in Nat /\ 0 \in Octet
  BY DEF Octet
<1>1. CASE Len(key) - consumed = 3
  <2> DEFINE w == Hashes!XorShl(Hashes!Add(v, Hashes!get16bits(consumed)), 16)
             c == Hashes!Char(key[consumed + 3], signed, 4)
             mixed == Hashes!XorWord(w, Hashes!Shl(c, 18))
  <2>1. Hashes!get16bits(consumed) \in WordOf(4)
    BY <1>0, <1>1, KeyWords
  <2>2. Hashes!Add(v, Hashes!get16bits(consumed)) \in WordOf(4)
    BY <2>1, AddIs
  <2>3. w \in WordOf(4)
    BY <2>2, ShiftsType
  <2>4. key[consumed + 3] \in Octet
    BY <1>0, <1>1, KeyBytes
  <2>5. c \in WordOf(4)
    BY <2>4, CharIs
  <2>6. Hashes!Shl(c, 18) \in WordOf(4)
    <3> HIDE DEF c
    <3> QED BY <2>5, ShlIs
  <2>7. mixed \in WordOf(4)
    <3> HIDE DEF w, c
    <3> QED BY <2>3, <2>6, XorWordIs
  <2>8. Hashes!hsieh_tail(v, signed) = Hashes!AddShr(mixed, 11)
    BY <1>1 DEF Hashes!hsieh_tail
  <2> HIDE DEF mixed
  <2> QED BY <2>7, <2>8, ShiftsType
<1>2. CASE Len(key) - consumed = 2
  <2>1. Hashes!get16bits(consumed) \in WordOf(4)
    BY <1>0, <1>2, KeyWords
  <2>2. Hashes!Add(v, Hashes!get16bits(consumed)) \in WordOf(4)
    BY <2>1, AddIs
  <2>3. Hashes!XorShl(Hashes!Add(v, Hashes!get16bits(consumed)), 11) \in WordOf(4)
    BY <2>2, ShiftsType
  <2>4. Hashes!AddShr(Hashes!XorShl(Hashes!Add(v, Hashes!get16bits(consumed)), 11), 17) \in WordOf(4)
    BY <2>3, ShiftsType
  <2>5. Hashes!hsieh_tail(v, signed) = Hashes!AddShr(Hashes!XorShl(Hashes!Add(v, Hashes!get16bits(consumed)), 11), 17)
    BY <1>2 DEF Hashes!hsieh_tail
  <2> QED BY <2>4, <2>5
<1>3. CASE Len(key) - consumed = 1
  <2> DEFINE last == <<key[consumed + 1], 0, 0, 0>>
  <2>1. key[consumed + 1] \in Octet
    BY <1>0, <1>3, KeyBytes
  <2>2. last \in WordOf(4)
    BY <1>0, <2>1, FourBytes
  <2> HIDE DEF last
  <2>3. Hashes!Add(v, last) \in WordOf(4)
    BY <2>2, AddIs
  <2>4. Hashes!XorShl(Hashes!Add(v, last), 10) \in WordOf(4)
    BY <2>3, ShiftsType
  <2>5. Hashes!AddShr(Hashes!XorShl(Hashes!Add(v, last), 10), 1) \in WordOf(4)
    BY <2>4, ShiftsType
  <2>6. Hashes!hsieh_tail(v, signed) = Hashes!AddShr(Hashes!XorShl(Hashes!Add(v, last), 10), 1)
    BY <1>3 DEF Hashes!hsieh_tail, last
  <2> QED BY <2>5, <2>6
<1>4. CASE Len(key) - consumed \notin {1, 2, 3}
  BY <1>4 DEF Hashes!hsieh_tail
<1> QED BY <1>1, <1>2, <1>3, <1>4

LEMMA MurmurTailType ==
    ASSUME key \in Seq(Octet), consumed \in 0..Len(key),
           NEW v \in WordOf(4), NEW signed \in BOOLEAN
    PROVE  Hashes!murmur_tail(v, signed) \in WordOf(4)
<1> DEFINE last == [i \in 1..4 |-> IF consumed + i <= Len(key) THEN key[consumed + i] ELSE 0]
<1>1. last \in WordOf(4)
  <2>1. \A i \in 1..4 : (IF consumed + i <= Len(key) THEN key[consumed + i] ELSE 0) \in Octet
    <3>1. 0 \in Octet
      BY DEF Octet
    <3> QED BY <3>1
  <2> QED BY <2>1 DEF WordOf
<1>2. Hashes!murmur_tail(v, signed) =
        IF consumed < Len(key) THEN Hashes!Mul(Hashes!XorWord(v, last), Hashes!murmur_m) ELSE v
  BY Zenon DEF Hashes!murmur_tail
<1> HIDE DEF last
<1>3. Hashes!Mul(Hashes!XorWord(v, last), Hashes!murmur_m) \in WordOf(4)
  <2>1. Hashes!XorWord(v, last) \in WordOf(4)
    BY <1>1, XorWordIs
  <2> QED BY <2>1, WordsWritten, MulIs
<1> QED BY <1>2, <1>3

(* What is returned has 32 bits.                                           *)
LEMMA FinishedType ==
    ASSUME HashInv, at = "loop", NEW v \in WordOf(Width), NEW signed \in BOOLEAN
    PROVE  Hashes!Finished(v, signed) \in WordOf(4)
<1>1. CASE alg = "fnv1_64"
  <2>1. Hashes!Finished(v, signed) = Hashes!Cast(v, 4)
    BY <1>1 DEF Hashes!Finished
  <2>2. Width = 8
    BY <1>1 DEF Width
  <2>3. Hashes!Cast(v, 4) \in WordOf(4)
    BY <2>2, CastIs
  <2> QED BY <2>1, <2>3
<1>2. CASE alg # "fnv1_64"
  <2>0. v \in WordOf(4)
    BY <1>2 DEF Width
  <2>1. CASE alg = "one_at_a_time"
    <3>1. Hashes!AddShl(v, 3) \in WordOf(4)
      BY <2>0, ShiftsType
    <3>2. Hashes!XorShr(Hashes!AddShl(v, 3), 11) \in WordOf(4)
      BY <3>1, ShiftsType
    <3>3. Hashes!AddShl(Hashes!XorShr(Hashes!AddShl(v, 3), 11), 15) \in WordOf(4)
      BY <3>2, ShiftsType
    <3>4. Hashes!Finished(v, signed) = Hashes!AddShl(Hashes!XorShr(Hashes!AddShl(v, 3), 11), 15)
      BY <2>1 DEF Hashes!Finished
    <3> QED BY <3>3, <3>4
  <2>2. CASE alg \in {"crc32", "crc32a"}
    <3>1. Hashes!Complement(v) \in WordOf(4)
      BY <2>0, ComplementIs
    <3> DEFINE w == Hashes!Complement(v)
    <3>2. <<w[3], w[4] % 128, 0, 0>> \in WordOf(4)
      <4> HIDE DEF w
      <4>1. w[3] \in Octet /\ w[4] \in Octet /\ 0 \in Octet
        BY <3>1 DEF WordOf, Octet, w
      <4>2. \A a \in Octet : a % 128 \in Octet
        BY DEF Octet
      <4> QED BY <4>1, <4>2, FourBytes
    <3>3. Hashes!Finished(v, signed) \in {w, <<w[3], w[4] % 128, 0, 0>>}
      BY <2>2 DEF Hashes!Finished
    <3> QED BY <3>1, <3>2, <3>3
  <2>3. CASE alg = "hsieh"
    <3> DEFINE f1 == Hashes!hsieh_tail(v, signed)
               f2 == Hashes!XorShl(f1, 3)
               f3 == Hashes!AddShr(f2, 5)
               f4 == Hashes!XorShl(f3, 4)
               f5 == Hashes!AddShr(f4, 17)
               f6 == Hashes!XorShl(f5, 25)
               f7 == Hashes!AddShr(f6, 6)
    <3>1. f1 \in WordOf(4)
      BY <2>0, HsiehTailType DEF HashInv
    <3>2. f2 \in WordOf(4)
      <4> HIDE DEF f1
      <4> QED BY <3>1, ShiftsType
    <3>3. f3 \in WordOf(4)
      <4> HIDE DEF f2
      <4> QED BY <3>2, ShiftsType
    <3>4. f4 \in WordOf(4)
      <4> HIDE DEF f3
      <4> QED BY <3>3, ShiftsType
    <3>5. f5 \in WordOf(4)
      <4> HIDE DEF f4
      <4> QED BY <3>4, ShiftsType
    <3>6. f6 \in WordOf(4)
      <4> HIDE DEF f5
      <4> QED BY <3>5, ShiftsType
    <3>7. f7 \in WordOf(4)
      <4> HIDE DEF f6
      <4> QED BY <3>6, ShiftsType
    <3>8. Hashes!Zero(4) \in WordOf(4)
      BY WordsWritten
    <3>9. Hashes!Finished(v, signed) \in {f7, Hashes!Zero(4)}
      BY <2>3 DEF Hashes!Finished
    <3> QED BY <3>7, <3>8, <3>9, Zenon
  <2>4. CASE alg = "murmur"
    <3> DEFINE f1 == Hashes!murmur_tail(v, signed)
               f2 == Hashes!XorShr(f1, 13)
               f3 == Hashes!Mul(f2, Hashes!murmur_m)
    <3>1. f1 \in WordOf(4)
      BY <2>0, MurmurTailType DEF HashInv
    <3>2. f2 \in WordOf(4)
      <4> HIDE DEF f1
      <4> QED BY <3>1, ShiftsType
    <3>3. f3 \in WordOf(4)
      <4> HIDE DEF f2
      <4> QED BY <3>2, WordsWritten, MulIs
    <3>4. Hashes!XorShr(f3, 15) \in WordOf(4)
      <4> HIDE DEF f3
      <4> QED BY <3>3, ShiftsType
    <3>5. Hashes!Finished(v, signed) = Hashes!XorShr(f3, 15)
      BY <2>4 DEF Hashes!Finished
    <3> QED BY <3>4, <3>5
  <2>5. CASE alg \notin {"one_at_a_time", "crc32", "crc32a", "hsieh", "murmur"}
    <3>1. Hashes!Finished(v, signed) = v
      BY <1>2, <2>5 DEF Hashes!Finished
    <3> QED BY <2>0, <3>1
  <2> QED BY <2>1, <2>2, <2>3, <2>4, <2>5
<1> QED BY <1>1, <1>2

(* Where it starts.                                                        *)
LEMMA SeedType ==
    ASSUME NEW a \in HashAlgs, NEW n \in Nat
    PROVE  Hashes!Seed(a, n) \in WordOf(IF a = "fnv1_64" THEN 8 ELSE 4)
<1>1. Hashes!Length32(n) \in WordOf(4)
  <2>1. n % 256 \in Octet /\ (n \div 256) % 256 \in Octet /\ (n \div 65536) % 256 \in Octet
        /\ (n \div 16777216) % 256 \in Octet
    BY DEF Octet
  <2> QED BY <2>1, FourBytes DEF Hashes!Length32
<1>2. Hashes!XorWord(Hashes!Mul(Hashes!deadbeef, Hashes!Length32(n)), Hashes!Length32(n)) \in WordOf(4)
  <2>1. Hashes!Mul(Hashes!deadbeef, Hashes!Length32(n)) \in WordOf(4)
    BY <1>1, WordsWritten, MulIs
  <2> QED BY <1>1, <2>1, XorWordIs
<1>3. Hashes!Complement(Hashes!Zero(4)) \in WordOf(4)
  BY WordsWritten, ComplementIs
<1>4. Hashes!Cast(Hashes!FNV_64_INIT, 4) \in WordOf(4)
  BY WordsWritten, CastIs
<1>5. Hashes!Zero(4) \in WordOf(4)
  BY WordsWritten
<1>6. CASE a = "fnv1_64"
  <2>1. Hashes!Seed(a, n) = Hashes!FNV_64_INIT
    BY <1>6 DEF Hashes!Seed
  <2> QED BY <1>6, <2>1, WordsWritten
<1>7. CASE a # "fnv1_64"
  <2>1. Hashes!Seed(a, n) \in
          {Hashes!Complement(Hashes!Zero(4)), Hashes!Cast(Hashes!FNV_64_INIT, 4), Hashes!FNV_32_INIT,
           Hashes!XorWord(Hashes!Mul(Hashes!deadbeef, Hashes!Length32(n)), Hashes!Length32(n)),
           Hashes!Zero(4)}
    BY <1>7 DEF Hashes!Seed
  <2>2. Hashes!Seed(a, n) \in WordOf(4)
    BY <1>2, <1>3, <1>4, <1>5, <2>1, WordsWritten, Zenon
  <2> QED BY <1>7, <2>2
<1> QED BY <1>6, <1>7

-----------------------------------------------------------------------------
(* The invariant of the hash functions: it holds when a key is started,    *)
(* and every turn of a loop, every return and every request keep it.       *)
LEMMA StartState ==
    ASSUME NEW a \in HashAlgs, NEW s \in Seq(Octet)
    PROVE  [signed \in BOOLEAN |-> Hashes!Seed(a, Len(s))]
                \in [BOOLEAN -> WordOf(IF a = "fnv1_64" THEN 8 ELSE 4)]
<1>1. Len(s) \in Nat
  OBVIOUS
<1>2. Hashes!Seed(a, Len(s)) \in WordOf(IF a = "fnv1_64" THEN 8 ELSE 4)
  BY <1>1, SeedType
<1> QED BY <1>2

LEMMA HashInit ==
    ASSUME HashConstants, Hashes!Init
    PROVE  HashInv
<1>1. /\ requests \in Workloads /\ next = 1 /\ consumed = 0 /\ at = "loop"
      /\ alg \in Algs /\ key = requests[1]
      /\ hash = [signed \in BOOLEAN |-> Hashes!Seed(alg, Len(key))]
  BY DEF Hashes!Init, Hashes!Start
<1>2. requests \in Seq(Seq(Octet)) /\ requests # <<>> /\ alg \in HashAlgs
  BY <1>1 DEF HashConstants
<1>3. Len(requests) \in Nat /\ Len(requests) >= 1 /\ requests[1] \in Seq(Octet)
  BY <1>2
<1>4. Width = IF alg = "fnv1_64" THEN 8 ELSE 4
  BY <1>1 DEF Width
<1>5. hash \in [BOOLEAN -> WordOf(Width)]
  BY <1>1, <1>2, <1>3, <1>4, StartState, Zenon
<1>6. consumed \in 0..Len(key) /\ next \in 1..(Len(requests) + 1)
  <2>1. Len(key) \in Nat
    BY <1>1, <1>3
  <2> QED BY <1>1, <1>3, <2>1
<1> QED BY <1>1, <1>2, <1>3, <1>5, <1>6 DEF HashInv

LEMMA TurnKeepsInv ==
    ASSUME HashInv, Hashes!Turn, UNCHANGED <<requests, next, owners>>
    PROVE  HashInv'
<1>1. /\ at = "loop" /\ alg # "murmur3" /\ consumed + Hashes!Stride <= Len(key)
      /\ hash' = [signed \in BOOLEAN |-> Hashes!Mixed(hash[signed], signed)]
      /\ consumed' = consumed + Hashes!Stride /\ alg' = alg /\ key' = key /\ at' = at
  BY DEF Hashes!Turn
<1>2. Width' = Width
  BY <1>1 DEF Width
<1>3. \A signed \in BOOLEAN : hash[signed] \in WordOf(Width)
  BY DEF HashInv
<1>4. \A signed \in BOOLEAN : Hashes!Mixed(hash[signed], signed) \in WordOf(Width)
  BY <1>1, <1>3, MixedType
<1>5. hash' \in [BOOLEAN -> WordOf(Width)']
  BY <1>1, <1>2, <1>4, Zenon DEF WordOf, Octet
<1>6. consumed' \in 0..Len(key)
  <2>1. Hashes!Stride \in {1, 4}
    BY DEF Hashes!Stride
  <2> QED BY <1>1, <2>1 DEF HashInv
<1> QED BY <1>1, <1>2, <1>5, <1>6 DEF HashInv, WordOf

LEMMA ReturnKeepsInv ==
    ASSUME HashInv, Hashes!Return, UNCHANGED <<requests, next, owners>>
    PROVE  HashInv'
<1>1. /\ at = "loop" /\ hash' = [signed \in BOOLEAN |-> Hashes!Finished(hash[signed], signed)]
      /\ consumed' = Len(key) /\ alg' = alg /\ key' = key /\ at' = "done"
  BY DEF Hashes!Return
<1>2. Width' = 4
  BY <1>1 DEF Width
<1>3. \A signed \in BOOLEAN : hash[signed] \in WordOf(Width)
  BY DEF HashInv
<1>4. \A signed \in BOOLEAN : Hashes!Finished(hash[signed], signed) \in WordOf(4)
  BY <1>1, <1>3, FinishedType
<1>5. hash' \in [BOOLEAN -> WordOf(4)]
  BY <1>1, <1>4, Zenon
<1> QED BY <1>1, <1>2, <1>5 DEF HashInv, WordOf

LEMMA RequestKeepsInv ==
    ASSUME HashInv, Hashes!Request
    PROVE  HashInv'
<1>1. at = "done" /\ next <= Len(requests) /\ next' = next + 1 /\ alg' = alg /\ requests' = requests
  BY DEF Hashes!Request
<1>2. requests \in Seq(Seq(Octet)) /\ next \in 1..Len(requests) /\ Len(requests) \in Nat
  BY <1>1 DEF HashInv
<1>3. next' \in 1..(Len(requests) + 1)
  BY <1>1, <1>2
<1>4. CASE next < Len(requests)
  <2>1. /\ key' = requests[next + 1] /\ consumed' = 0 /\ at' = "loop"
        /\ hash' = [signed \in BOOLEAN |-> Hashes!Seed(alg, Len(key'))]
    BY <1>4 DEF Hashes!Request
  <2>2. key' \in Seq(Octet) /\ Len(key') \in Nat
    BY <1>2, <1>4, <2>1
  <2>3. alg \in HashAlgs
    BY DEF HashInv
  <2>4. Width' = IF alg = "fnv1_64" THEN 8 ELSE 4
    BY <1>1, <2>1 DEF Width
  <2>5. hash' \in [BOOLEAN -> WordOf(IF alg = "fnv1_64" THEN 8 ELSE 4)]
    BY <2>1, <2>2, <2>3, StartState
  <2>6. consumed' \in 0..Len(key')
    BY <2>1, <2>2
  <2> QED BY <1>1, <1>3, <2>1, <2>2, <2>4, <2>5, <2>6 DEF HashInv, WordOf
<1>5. CASE ~(next < Len(requests))
  <2>1. UNCHANGED <<key, consumed, hash, at>>
    BY <1>5 DEF Hashes!Request
  <2>2. Width' = Width
    BY <1>1, <2>1 DEF Width
  <2> QED BY <1>1, <1>3, <2>1, <2>2 DEF HashInv, WordOf
<1> QED BY <1>4, <1>5

LEMMA HashStep ==
    ASSUME HashInv, [Hashes!Next]_(Hashes!vars)
    PROVE  HashInv'
<1>1. CASE Hashes!Hash
  <2>1. UNCHANGED <<requests, next, owners>>
    BY <1>1 DEF Hashes!Hash
  <2>2. Hashes!Turn \/ Hashes!Return
    BY <1>1 DEF Hashes!Hash, Hashes!HashNext
  <2> QED BY <2>1, <2>2, TurnKeepsInv, ReturnKeepsInv
<1>2. CASE UNCHANGED Hashes!vars
  <2>1. UNCHANGED <<alg, key, consumed, hash, at, requests, next>>
    BY <1>2 DEF Hashes!vars, Hashes!hashVars
  <2>2. Width' = Width
    BY <2>1 DEF Width
  <2> QED BY <2>1, <2>2 DEF HashInv, WordOf
<1> QED BY <1>1, <1>2, RequestKeepsInv DEF Hashes!Next

(* A step of DynocKeys while a hash function runs is one of its steps.     *)
LEMMA HashRuns ==
    ASSUME [KeysNext]_keysVars, call' = "hash_func"
    PROVE  call = "hash_func" /\ [Hashes!Next]_(Hashes!vars)
<1>1. call = "hash_func"
  BY DEF KeysNext, keysVars
<1>2. CASE KeysNext
  BY <1>1, <1>2 DEF KeysNext
<1>3. CASE UNCHANGED keysVars
  BY <1>3 DEF keysVars, hashVars, Hashes!vars, Hashes!hashVars
<1> QED BY <1>1, <1>2, <1>3

LEMMA HashStarts ==
    ASSUME KeysInit, call = "hash_func"
    PROVE  Hashes!Init
BY DEF KeysInit

(* Whatever the key, the hash functions keep to their types.               *)
THEOREM HashInvariant ==
    ASSUME HashConstants
    PROVE  KeysSpec => [](call = "hash_func" => HashInv)
<1>1. KeysInit => (call = "hash_func" => HashInv)
  BY HashStarts, HashInit
<1>2. (call = "hash_func" => HashInv) /\ [KeysNext]_keysVars => (call = "hash_func" => HashInv)'
  <2> SUFFICES ASSUME call = "hash_func" => HashInv, [KeysNext]_keysVars, call' = "hash_func"
               PROVE  HashInv'
    OBVIOUS
  <2> QED BY HashRuns, HashStep
<1> QED BY <1>1, <1>2, PTL DEF KeysSpec

(* The hash of a key is 32 bits wide, 64 inside hash_fnv1_64, for every    *)
(* key and every function, and no function consumes more than the key.     *)
THEOREM HashTypeCorrect ==
    ASSUME HashConstants
    PROVE  KeysSpec => []HashTypeOK
<1>1. HashInv => Hashes!HashTypeOK
  <2> SUFFICES ASSUME HashInv PROVE Hashes!HashTypeOK
    OBVIOUS
  <2>1. ASSUME NEW signed \in BOOLEAN
        PROVE  DOMAIN hash[signed] = 1..Width /\ \A i \in 1..Width : hash[signed][i] \in 0..255
    <3>1. hash[signed] \in WordOf(Width)
      BY Zenon DEF HashInv
    <3>2. Octet = 0..255 /\ Width \in Nat
      BY DEF Octet, Width
    <3> QED BY <3>1, <3>2, Zenon DEF WordOf
  <2>2. \A signed \in BOOLEAN : /\ DOMAIN hash[signed] = 1..Width
                                /\ \A i \in DOMAIN hash[signed] : hash[signed][i] \in 0..255
    <3> SUFFICES ASSUME NEW signed \in BOOLEAN
                 PROVE  /\ DOMAIN hash[signed] = 1..Width
                        /\ \A i \in DOMAIN hash[signed] : hash[signed][i] \in 0..255
      OBVIOUS
    <3>1. DOMAIN hash[signed] = 1..Width /\ \A i \in 1..Width : hash[signed][i] \in 0..255
      BY <2>1, Zenon
    <3> QED BY <3>1, Zenon
  <2>3. consumed \in 0..Len(key) /\ at \in {"loop", "done"}
    BY DEF HashInv
  <2> QED BY <2>2, <2>3, Zenon DEF Hashes!HashTypeOK, Width
<1> QED BY <1>1, HashInvariant, PTL DEF HashTypeOK

(* Type correctness of all functions between a key and its place on the    *)
(* ring, for inputs of every length.                                       *)
THEOREM KeysTypeCorrect ==
    ASSUME HashConstants, ParseConstants, MaxLength \in Nat, MaxSize \in Nat,
           MaxUpdates \in Nat \ {0}
    PROVE  KeysSpec => []KeysTypeOK
<1>1. /\ KeysSpec => []ParseTypeOK
      /\ KeysSpec => []JenkinsTypeOK
      /\ KeysSpec => []Md5TypeOK
      /\ KeysSpec => []HashTypeOK
  BY ParseTypeCorrect, JenkinsTypeCorrect, Md5TypeCorrect, HashTypeCorrect
<1> QED BY <1>1, PTL DEF KeysTypeOK

-----------------------------------------------------------------------------
(* Builds where char is signed and builds where it is not.                 *)
PortableKey ==
    \/ alg \in {"crc16", "crc32", "crc32a", "murmur", "murmur3"}
    \/ \A i \in DOMAIN key : key[i] < 128
PortableInv == PortableKey => hash[TRUE] = hash[FALSE]

CharRow(b, signed, n) == [i \in 1..n |-> IF i = 1 THEN b ELSE IF signed /\ b >= 128 THEN 255 ELSE 0]

LEMMA CharIsRow ==
    ASSUME NEW n \in Nat, NEW b \in Octet, NEW signed \in BOOLEAN
    PROVE  Hashes!Char(b, signed, n) = CharRow(b, signed, n)
<1>1. Hashes!Char(b, signed, n) = Hashes!Evaluated(CharRow(b, signed, n))
  BY Zenon DEF Hashes!Char, CharRow
<1>2. CharRow(b, signed, n) = [i \in 1..n |-> CharRow(b, signed, n)[i]]
  BY DEF CharRow
<1> QED BY <1>1, <1>2, EvaluatedSame

LEMMA CharPortable ==
    ASSUME NEW b \in Octet, NEW n \in Nat
    PROVE  /\ b < 128 => Hashes!Char(b, TRUE, n) = Hashes!Char(b, FALSE, n)
           /\ n >= 1 => Hashes!Char(b, TRUE, n)[1] = Hashes!Char(b, FALSE, n)[1]
<1>1. ASSUME b < 128 PROVE Hashes!Char(b, TRUE, n) = Hashes!Char(b, FALSE, n)
  <2>1. ~(b >= 128)
    BY <1>1 DEF Octet
  <2>2. ASSUME NEW signed \in BOOLEAN
        PROVE  Hashes!Char(b, signed, n) = [i \in 1..n |-> IF i = 1 THEN b ELSE 0]
    <3>1. Hashes!Char(b, signed, n) = CharRow(b, signed, n)
      BY CharIsRow
    <3>2. (IF signed /\ b >= 128 THEN 255 ELSE 0) = 0
      BY <2>1, Zenon
    <3>3. [i \in 1..n |-> IF i = 1 THEN b ELSE IF signed /\ b >= 128 THEN 255 ELSE 0]
              = [i \in 1..n |-> IF i = 1 THEN b ELSE 0]
      BY <3>2, Zenon
    <3> QED BY <3>1, <3>3, Zenon DEF CharRow
  <2>3. TRUE \in BOOLEAN /\ FALSE \in BOOLEAN
    OBVIOUS
  <2> QED BY <2>2, <2>3, Zenon
<1>2. ASSUME n >= 1 PROVE Hashes!Char(b, TRUE, n)[1] = Hashes!Char(b, FALSE, n)[1]
  <2>1. 1 \in 1..n
    BY <1>2
  <2>2. Hashes!Char(b, TRUE, n)[1] = b /\ Hashes!Char(b, FALSE, n)[1] = b
    BY <2>1, CharIs
  <2> QED BY <2>2
<1> QED BY <1>1, <1>2

LEMMA MixedPortable ==
    ASSUME HashInv, at = "loop", alg # "murmur3", consumed + Hashes!Stride <= Len(key),
           PortableKey, NEW v \in WordOf(Width)
    PROVE  Hashes!Mixed(v, TRUE) = Hashes!Mixed(v, FALSE)
<1> DEFINE c(signed) == Hashes!Char(key[consumed + 1], signed, Len(v))
<1>1. key \in Seq(Octet) /\ consumed \in Nat /\ Len(key) \in Nat /\ alg \in HashAlgs
  BY DEF HashInv
<1>2. Hashes!Stride \in {1, 4}
  BY DEF Hashes!Stride
<1>3. key[consumed + 1] \in Octet /\ consumed + 1 \in DOMAIN key
  BY <1>1, <1>2
<1>4. Len(v) = Width /\ Width \in Nat /\ Width >= 1
  <2>1. Width \in {4, 8}
    BY DEF Width
  <2> QED BY <2>1, WordLen DEF WordOf
<1>5. CASE alg \in {"crc16", "crc32", "crc32a", "murmur"}
  <2>1. c(TRUE)[1] = c(FALSE)[1]
    BY <1>3, <1>4, CharPortable
  <2> HIDE DEF c
  <2>2. /\ Hashes!crc16(v, c(TRUE)) = Hashes!crc16(v, c(FALSE))
        /\ Hashes!crc32(v, c(TRUE)) = Hashes!crc32(v, c(FALSE))
    BY <2>1, Zenon DEF Hashes!crc16, Hashes!crc32
  <2>3. CASE alg = "crc16"
    <3>1. Hashes!Mixed(v, TRUE) = Hashes!crc16(v, c(TRUE)) /\ Hashes!Mixed(v, FALSE) = Hashes!crc16(v, c(FALSE))
      BY <2>3 DEF Hashes!Mixed, c
    <3> QED BY <2>2, <3>1
  <2>4. CASE alg \in {"crc32", "crc32a"}
    <3>1. Hashes!Mixed(v, TRUE) = Hashes!crc32(v, c(TRUE)) /\ Hashes!Mixed(v, FALSE) = Hashes!crc32(v, c(FALSE))
      BY <2>4 DEF Hashes!Mixed, c
    <3> QED BY <2>2, <3>1
  <2>5. CASE alg = "murmur"
    <3>1. /\ Hashes!Mixed(v, TRUE) = Hashes!murmur(v, consumed)
          /\ Hashes!Mixed(v, FALSE) = Hashes!murmur(v, consumed)
      BY <2>5 DEF Hashes!Mixed
    <3> QED BY <3>1
  <2> QED BY <1>5, <2>3, <2>4, <2>5
<1>6. CASE \A i \in DOMAIN key : key[i] < 128
  <2>1. key[consumed + 1] < 128
    BY <1>3, <1>6
  <2>2. c(TRUE) = c(FALSE)
    BY <1>3, <1>4, <2>1, CharPortable
  <2> QED BY <2>2, Zenon DEF Hashes!Mixed
<1> QED BY <1>5, <1>6 DEF PortableKey

LEMMA FinishedPortable ==
    ASSUME HashInv, at = "loop", PortableKey, NEW v \in WordOf(Width)
    PROVE  Hashes!Finished(v, TRUE) = Hashes!Finished(v, FALSE)
<1>1. key \in Seq(Octet) /\ consumed \in Nat /\ Len(key) \in Nat /\ consumed <= Len(key)
  BY DEF HashInv
<1>2. Hashes!murmur_tail(v, TRUE) = Hashes!murmur_tail(v, FALSE)
  BY Zenon DEF Hashes!murmur_tail
<1>3. ASSUME \A i \in DOMAIN key : key[i] < 128
      PROVE  Hashes!hsieh_tail(v, TRUE) = Hashes!hsieh_tail(v, FALSE)
  <2>1. CASE Len(key) - consumed = 3
    <3>1. consumed + 3 \in DOMAIN key /\ key[consumed + 3] \in Octet
      BY <1>1, <2>1
    <3>2. key[consumed + 3] < 128
      BY <1>3, <3>1
    <3>3. Hashes!Char(key[consumed + 3], TRUE, 4) = Hashes!Char(key[consumed + 3], FALSE, 4)
      BY <3>1, <3>2, CharPortable
    <3> QED BY <3>3, Zenon DEF Hashes!hsieh_tail
  <2>2. CASE Len(key) - consumed # 3
    BY <2>2 DEF Hashes!hsieh_tail
  <2> QED BY <2>1, <2>2
<1>4. CASE alg = "hsieh"
  <2>1. Hashes!hsieh_tail(v, TRUE) = Hashes!hsieh_tail(v, FALSE)
    BY <1>3, <1>4 DEF PortableKey
  <2> DEFINE F(w) == IF key = <<>> THEN Hashes!Zero(4)
                     ELSE Hashes!AddShr(Hashes!XorShl(Hashes!AddShr(Hashes!XorShl(
                            Hashes!AddShr(Hashes!XorShl(w, 3), 5), 4), 17), 25), 6)
  <2>2. /\ Hashes!Finished(v, TRUE) = F(Hashes!hsieh_tail(v, TRUE))
        /\ Hashes!Finished(v, FALSE) = F(Hashes!hsieh_tail(v, FALSE))
    BY <1>4 DEF Hashes!Finished
  <2> HIDE DEF F
  <2> QED BY <2>1, <2>2
<1>5. CASE alg = "murmur"
  <2> DEFINE F(w) == Hashes!XorShr(Hashes!Mul(Hashes!XorShr(w, 13), Hashes!murmur_m), 15)
  <2>1. /\ Hashes!Finished(v, TRUE) = F(Hashes!murmur_tail(v, TRUE))
        /\ Hashes!Finished(v, FALSE) = F(Hashes!murmur_tail(v, FALSE))
    BY <1>5 DEF Hashes!Finished
  <2> HIDE DEF F
  <2> QED BY <1>2, <2>1
<1>6. CASE alg \notin {"hsieh", "murmur"}
  BY <1>6 DEF Hashes!Finished
<1> QED BY <1>4, <1>5, <1>6

LEMMA PortableStep ==
    ASSUME HashInv, PortableInv, [Hashes!Next]_(Hashes!vars)
    PROVE  PortableInv'
<1> SUFFICES ASSUME PortableKey' PROVE hash'[TRUE] = hash'[FALSE]
  BY DEF PortableInv
<1>1. CASE Hashes!Turn
  <2>1. /\ at = "loop" /\ alg # "murmur3" /\ consumed + Hashes!Stride <= Len(key)
        /\ hash' = [signed \in BOOLEAN |-> Hashes!Mixed(hash[signed], signed)]
        /\ alg' = alg /\ key' = key
    BY <1>1 DEF Hashes!Turn
  <2>2. PortableKey /\ hash[TRUE] = hash[FALSE] /\ hash[TRUE] \in WordOf(Width)
    BY <2>1 DEF PortableKey, PortableInv, HashInv
  <2>3. Hashes!Mixed(hash[TRUE], TRUE) = Hashes!Mixed(hash[TRUE], FALSE)
    BY <2>1, <2>2, MixedPortable
  <2>4. hash'[TRUE] = Hashes!Mixed(hash[TRUE], TRUE) /\ hash'[FALSE] = Hashes!Mixed(hash[FALSE], FALSE)
    BY <2>1
  <2> QED BY <2>2, <2>3, <2>4
<1>2. CASE Hashes!Return
  <2>1. /\ at = "loop" /\ hash' = [signed \in BOOLEAN |-> Hashes!Finished(hash[signed], signed)]
        /\ alg' = alg /\ key' = key
    BY <1>2 DEF Hashes!Return
  <2>2. PortableKey /\ hash[TRUE] = hash[FALSE] /\ hash[TRUE] \in WordOf(Width)
    BY <2>1 DEF PortableKey, PortableInv, HashInv
  <2>3. Hashes!Finished(hash[TRUE], TRUE) = Hashes!Finished(hash[TRUE], FALSE)
    BY <2>1, <2>2, FinishedPortable
  <2>4. hash'[TRUE] = Hashes!Finished(hash[TRUE], TRUE) /\ hash'[FALSE] = Hashes!Finished(hash[FALSE], FALSE)
    BY <2>1
  <2> QED BY <2>2, <2>3, <2>4
<1>3. CASE Hashes!Request
  <2>1. CASE next < Len(requests)
    <3>1. hash' = [signed \in BOOLEAN |-> Hashes!Seed(alg, Len(key'))]
      BY <1>3, <2>1 DEF Hashes!Request
    <3> QED BY <3>1
  <2>2. CASE ~(next < Len(requests))
    <3>1. UNCHANGED <<alg, key, hash>>
      BY <1>3, <2>2 DEF Hashes!Request
    <3>2. PortableKey
      BY <3>1 DEF PortableKey
    <3> QED BY <3>1, <3>2 DEF PortableInv
  <2> QED BY <2>1, <2>2
<1>4. CASE UNCHANGED Hashes!vars
  <2>1. UNCHANGED <<alg, key, hash>>
    BY <1>4 DEF Hashes!vars, Hashes!hashVars
  <2>2. PortableKey
    BY <2>1 DEF PortableKey
  <2> QED BY <2>1, <2>2 DEF PortableInv
<1> QED BY <1>1, <1>2, <1>3, <1>4 DEF Hashes!Next, Hashes!Hash, Hashes!HashNext

(* Little endian clients with signed and with unsigned char send a key to  *)
(* the same node: an ASCII key always, any key with the CRCs, murmur and   *)
(* murmur3.                                                                *)
THEOREM HashIsPortable ==
    ASSUME HashConstants
    PROVE  KeysSpec => []PortableHash
<1>1. KeysInit => (call = "hash_func" => PortableInv)
  <2> SUFFICES ASSUME KeysInit, call = "hash_func" PROVE PortableInv
    OBVIOUS
  <2>1. \E a \in Algs : hash = [signed \in BOOLEAN |-> Hashes!Seed(a, Len(requests[1]))]
    BY HashStarts DEF Hashes!Init, Hashes!Start
  <2> QED BY <2>1 DEF PortableInv
<1>2. /\ call = "hash_func" => HashInv
      /\ call = "hash_func" => PortableInv
      /\ [KeysNext]_keysVars
      => (call = "hash_func" => PortableInv)'
  <2> SUFFICES ASSUME call = "hash_func" => HashInv, call = "hash_func" => PortableInv,
                      [KeysNext]_keysVars, call' = "hash_func"
               PROVE  PortableInv'
    OBVIOUS
  <2> QED BY HashRuns, PortableStep
<1>3. PortableInv => Hashes!PortableHash
  BY DEF PortableInv, PortableKey, Hashes!PortableHash
<1> QED BY <1>1, <1>2, <1>3, HashInvariant, PTL DEF KeysSpec, PortableHash

-----------------------------------------------------------------------------
(* The low bytes of a product and of an exclusive or are those of the low  *)
(* bytes: truncating first or last is the same.                            *)
LEMMA CastBytes ==
    ASSUME NEW n \in Nat, NEW m \in 0..n, NEW x \in WordOf(n)
    PROVE  /\ Hashes!Cast(x, m) \in WordOf(m)
           /\ \A i \in 1..m : Hashes!Cast(x, m)[i] = x[i]
<1>1. Hashes!Cast(x, m) = [i \in 1..m |-> Hashes!Byte(x, i)] /\ Hashes!Cast(x, m) \in WordOf(m)
  BY CastIs
<1>2. ASSUME NEW i \in 1..m PROVE Hashes!Byte(x, i) = x[i]
  <2>1. i \in Int /\ i \in 1..n
    OBVIOUS
  <2> QED BY <2>1, ByteIs
<1> QED BY <1>1, <1>2

LEMMA SameWord ==
    ASSUME NEW n \in Nat, NEW x \in WordOf(n), NEW y \in WordOf(n), \A i \in 1..n : x[i] = y[i]
    PROVE  x = y
<1>1. x = [i \in 1..n |-> x[i]] /\ y = [i \in 1..n |-> y[i]]
  BY DEF WordOf
<1>2. [i \in 1..n |-> x[i]] = [i \in 1..n |-> y[i]]
  OBVIOUS
<1> QED BY <1>1, <1>2, Zenon

LEMMA ColumnSame ==
    ASSUME NEW n \in Nat, NEW m \in 0..n, NEW x \in WordOf(n), NEW y \in WordOf(n),
           NEW a \in WordOf(m), NEW b \in WordOf(m),
           \A i \in 1..m : a[i] = x[i] /\ b[i] = y[i], NEW e \in 0..m
    PROVE  Hashes!Column(a, b, e) = Hashes!Column(x, y, e)
<1>1. PICK s \in [0..e -> Nat] :
        /\ s[0] = 0 /\ \A i \in 1..e : s[i] = s[i - 1] + x[i] * y[e + 1 - i]
        /\ Hashes!Column(x, y, e) = s[e]
  <2>1. e \in 0..n
    OBVIOUS
  <2> QED BY <2>1, ColumnDef, Zenon
<1>2. PICK t \in [0..e -> Nat] :
        /\ t[0] = 0 /\ \A i \in 1..e : t[i] = t[i - 1] + a[i] * b[e + 1 - i]
        /\ Hashes!Column(a, b, e) = t[e]
  <2>1. m \in Nat
    OBVIOUS
  <2> QED BY <2>1, ColumnDef, Zenon
<1> DEFINE T == {i \in 0..e : s[i] = t[i]}
<1>3. 0 \in T
  BY <1>1, <1>2
<1>4. ASSUME NEW i \in 1..e, i - 1 \in T PROVE i \in T
  <2>1. i \in 1..m /\ e + 1 - i \in 1..m /\ i \in 0..e
    OBVIOUS
  <2>2. a[i] = x[i] /\ b[e + 1 - i] = y[e + 1 - i]
    BY <2>1, Zenon
  <2>3. s[i - 1] = t[i - 1]
    BY <1>4
  <2>4. t[i] = s[i - 1] + x[i] * y[e + 1 - i]
    BY <1>2, <2>2, <2>3, Zenon
  <2>5. s[i] = t[i]
    BY <1>1, <2>4, Zenon
  <2> QED BY <2>1, <2>5
<1>5. e \in Nat /\ e \in 0..e
  OBVIOUS
<1>6. \A i \in 0..e : i \in T
  <2> HIDE DEF T
  <2> QED BY <1>3, <1>4, <1>5, InductionTo
<1>7. s[e] = t[e]
  BY <1>5, <1>6
<1> QED BY <1>1, <1>2, <1>7

LEMMA CarriedSame ==
    ASSUME NEW n \in Nat, NEW m \in 0..n, NEW long \in [1..n -> Nat], NEW short \in [1..m -> Nat],
           \A i \in 1..m : short[i] = long[i]
    PROVE  \A i \in 1..m : Hashes!Carried(short, m)[i] = Hashes!Carried(long, n)[i]
<1>0. m \in Nat
  OBVIOUS
<1>1. PICK s \in [0..n -> Nat] :
        /\ s[0] = 0 /\ \A i \in 1..n : s[i] = (s[i - 1] + long[i]) \div 256
        /\ Hashes!Carried(long, n) = [i \in 1..n |-> (s[i - 1] + long[i]) % 256]
        /\ Hashes!Carried(long, n) \in WordOf(n)
  BY CarriedIs, Zenon
<1>2. PICK t \in [0..m -> Nat] :
        /\ t[0] = 0 /\ \A i \in 1..m : t[i] = (t[i - 1] + short[i]) \div 256
        /\ Hashes!Carried(short, m) = [i \in 1..m |-> (t[i - 1] + short[i]) % 256]
        /\ Hashes!Carried(short, m) \in WordOf(m)
  BY <1>0, CarriedIs, Zenon
<1> DEFINE T == {i \in 0..m : s[i] = t[i]}
<1>3. 0 \in T
  BY <1>1, <1>2
<1>4. ASSUME NEW i \in 1..m, i - 1 \in T PROVE i \in T
  <2>1. i \in 1..n /\ i \in 0..m
    OBVIOUS
  <2>2. s[i - 1] = t[i - 1]
    BY <1>4
  <2>3. t[i] = (s[i - 1] + long[i]) \div 256
    BY <1>2, <2>2, Zenon
  <2>4. s[i] = t[i]
    BY <1>1, <2>1, <2>3, Zenon
  <2> QED BY <2>1, <2>4
<1>5. \A i \in 0..m : i \in T
  <2> HIDE DEF T
  <2> QED BY <1>0, <1>3, <1>4, InductionTo
<1>6. ASSUME NEW i \in 1..m
      PROVE  Hashes!Carried(short, m)[i] = Hashes!Carried(long, n)[i]
  <2>1. i \in 1..n /\ i - 1 \in 0..m
    OBVIOUS
  <2>2. s[i - 1] = t[i - 1]
    BY <1>5, <2>1
  <2>3. Hashes!Carried(short, m)[i] = (t[i - 1] + short[i]) % 256
    BY <1>2, Zenon
  <2>4. Hashes!Carried(long, n)[i] = (s[i - 1] + long[i]) % 256
    BY <1>1, <2>1, Zenon
  <2> QED BY <2>2, <2>3, <2>4, Zenon
<1> QED BY <1>6

LEMMA CastMul ==
    ASSUME NEW n \in Nat, NEW m \in 0..n, NEW x \in WordOf(n), NEW y \in WordOf(n)
    PROVE  Hashes!Cast(Hashes!Mul(x, y), m) = Hashes!Mul(Hashes!Cast(x, m), Hashes!Cast(y, m))
<1> DEFINE a == Hashes!Cast(x, m)
           b == Hashes!Cast(y, m)
           long == [i \in 1..n |-> Hashes!Column(x, y, i)]
           short == [i \in 1..m |-> Hashes!Column(a, b, i)]
<1>0. m \in Nat
  OBVIOUS
<1>1. a \in WordOf(m) /\ b \in WordOf(m) /\ \A i \in 1..m : a[i] = x[i] /\ b[i] = y[i]
  BY CastBytes
<1> HIDE DEF a, b
<1>2. long \in [1..n -> Nat] /\ Hashes!Mul(x, y) = Hashes!Carried(long, n) /\ Hashes!Mul(x, y) \in WordOf(n)
  BY MulIs, Zenon
<1>3. short \in [1..m -> Nat] /\ Hashes!Mul(a, b) = Hashes!Carried(short, m) /\ Hashes!Mul(a, b) \in WordOf(m)
  BY <1>0, <1>1, MulIs, Zenon
<1>4. ASSUME NEW i \in 1..m PROVE short[i] = long[i]
  <2>1. i \in 0..m /\ i \in 1..n
    OBVIOUS
  <2>2. Hashes!Column(a, b, i) = Hashes!Column(x, y, i)
    BY <1>1, <2>1, ColumnSame
  <2> QED BY <2>1, <2>2
<1> HIDE DEF long, short
<1>5. \A i \in 1..m : Hashes!Carried(short, m)[i] = Hashes!Carried(long, n)[i]
  BY <1>2, <1>3, <1>4, CarriedSame
<1>6. \A i \in 1..m : Hashes!Mul(a, b)[i] = Hashes!Mul(x, y)[i]
  BY <1>2, <1>3, <1>5, Zenon
<1>7. /\ Hashes!Cast(Hashes!Mul(x, y), m) \in WordOf(m)
      /\ \A i \in 1..m : Hashes!Cast(Hashes!Mul(x, y), m)[i] = Hashes!Mul(x, y)[i]
  BY <1>2, CastBytes, Zenon
<1>8. Hashes!Cast(Hashes!Mul(x, y), m) = Hashes!Mul(a, b)
  <2>1. \A i \in 1..m : Hashes!Cast(Hashes!Mul(x, y), m)[i] = Hashes!Mul(a, b)[i]
    BY <1>6, <1>7, Zenon
  <2> QED BY <1>0, <1>3, <1>7, <2>1, SameWord, Zenon
<1> QED BY <1>8 DEF a, b

LEMMA CastXor ==
    ASSUME NEW n \in Nat, NEW m \in 0..n, NEW x \in WordOf(n), NEW y \in WordOf(n)
    PROVE  Hashes!Cast(Hashes!XorWord(x, y), m) = Hashes!XorWord(Hashes!Cast(x, m), Hashes!Cast(y, m))
<1> DEFINE a == Hashes!Cast(x, m)
           b == Hashes!Cast(y, m)
<1>0. m \in Nat /\ \A i \in 1..m : i \in 1..n
  OBVIOUS
<1>1. a \in WordOf(m) /\ b \in WordOf(m) /\ \A i \in 1..m : a[i] = x[i] /\ b[i] = y[i]
  BY CastBytes
<1> HIDE DEF a, b
<1>2. /\ Hashes!XorWord(x, y) = [i \in 1..n |-> Hashes!XorByte(x[i], y[i])]
      /\ Hashes!XorWord(x, y) \in WordOf(n)
  BY XorWordIs
<1>3. /\ Hashes!XorWord(a, b) = [i \in 1..m |-> Hashes!XorByte(a[i], b[i])]
      /\ Hashes!XorWord(a, b) \in WordOf(m)
  BY <1>0, <1>1, XorWordIs
<1>4. \A i \in 1..m : Hashes!XorWord(a, b)[i] = Hashes!XorWord(x, y)[i]
  BY <1>0, <1>1, <1>2, <1>3, Zenon
<1>5. /\ Hashes!Cast(Hashes!XorWord(x, y), m) \in WordOf(m)
      /\ \A i \in 1..m : Hashes!Cast(Hashes!XorWord(x, y), m)[i] = Hashes!XorWord(x, y)[i]
  BY <1>2, CastBytes, Zenon
<1>6. Hashes!Cast(Hashes!XorWord(x, y), m) = Hashes!XorWord(a, b)
  <2>1. \A i \in 1..m : Hashes!Cast(Hashes!XorWord(x, y), m)[i] = Hashes!XorWord(a, b)[i]
    BY <1>4, <1>5, Zenon
  <2> QED BY <1>0, <1>3, <1>5, <2>1, SameWord, Zenon
<1> QED BY <1>6 DEF a, b

-----------------------------------------------------------------------------
(* FNV-1a with 64 bits, byte after byte.                                   *)
FnvTurn(r, i) == Hashes!Mul(Hashes!XorWord(r, Hashes!Cast(<<key[i]>>, 8)), Hashes!FNV_64_PRIME)

LEMMA FnvTurnType ==
    ASSUME key \in Seq(Octet), NEW i \in 1..Len(key), NEW r \in WordOf(8)
    PROVE  /\ Hashes!Cast(<<key[i]>>, 8) \in WordOf(8) /\ FnvTurn(r, i) \in WordOf(8)
           /\ Hashes!XorWord(r, Hashes!Cast(<<key[i]>>, 8)) \in WordOf(8)
<1>1. <<key[i]>> \in WordOf(1)
  <2>1. key[i] \in Octet
    OBVIOUS
  <2> QED BY <2>1 DEF WordOf
<1>2. Hashes!Cast(<<key[i]>>, 8) \in WordOf(8)
  BY <1>1, CastIs
<1>3. Hashes!XorWord(r, Hashes!Cast(<<key[i]>>, 8)) \in WordOf(8)
  BY <1>2, XorWordIs
<1>4. FnvTurn(r, i) \in WordOf(8)
  BY <1>3, WordsWritten, MulIs DEF FnvTurn
<1> QED BY <1>2, <1>3, <1>4

LEMMA FnvDef ==
    ASSUME key \in Seq(Octet), NEW m \in 0..Len(key)
    PROVE  \E r \in [0..m -> WordOf(8)] :
              /\ r[0] = Hashes!FNV_64_INIT /\ \A i \in 1..m : r[i] = FnvTurn(r[i - 1], i)
              /\ Hashes!Fnv1a64(m) = r[m]
<1>0. /\ m \in Nat /\ Hashes!FNV_64_INIT \in WordOf(8)
      /\ \A i \in 1..m : \A v \in WordOf(8) : FnvTurn(v, i) \in WordOf(8)
  <2>1. \A i \in 1..m : i \in 1..Len(key)
    OBVIOUS
  <2>2. \A i \in 1..m : \A v \in WordOf(8) : FnvTurn(v, i) \in WordOf(8)
    BY <2>1, FnvTurnType, Zenon
  <2>3. m \in Nat
    OBVIOUS
  <2> QED BY <2>2, <2>3, WordsWritten
<1> DEFINE n == m
           step == [i \in 1..n |-> [v \in WordOf(8) |-> FnvTurn(v, i)]]
           eq(g) == [i \in 0..n |-> IF i = 0 THEN Hashes!FNV_64_INIT ELSE FnvTurn(g[i - 1], i)]
           value == CHOOSE g : g = eq(g)
<1>1. step \in Steps(n, WordOf(8))
  BY <1>0 DEF Steps
<1>2. n \in Nat /\ Hashes!FNV_64_INIT \in WordOf(8)
  BY <1>0 DEF Steps
<1>3. ASSUME NEW f, Follows(f, n, WordOf(8), Hashes!FNV_64_INIT, step)
      PROVE  /\ f \in [0..n -> WordOf(8)] /\ f[0] = Hashes!FNV_64_INIT
             /\ \A i \in 1..n : f[i] = FnvTurn(f[i - 1], i)
  <2>1. f \in [0..n -> WordOf(8)] /\ f[0] = Hashes!FNV_64_INIT
    <3> HIDE DEF step
    <3> QED BY <1>3 DEF Follows
  <2>2. ASSUME NEW i \in 1..n PROVE f[i] = FnvTurn(f[i - 1], i)
    <3>1. f[i - 1] \in WordOf(8)
      <4> HIDE DEF n
      <4>1. i - 1 \in 0..n
        BY <1>2
      <4> QED BY <2>1, <4>1
    <3>2. f[i] = step[i][f[i - 1]]
      <4> HIDE DEF step
      <4> QED BY <1>3 DEF Follows
    <3>3. step[i][f[i - 1]] = FnvTurn(f[i - 1], i)
      BY <3>1
    <3> HIDE DEF step
    <3> QED BY <3>2, <3>3
  <2> QED BY <2>1, <2>2
<1>4. PICK f : Follows(f, n, WordOf(8), Hashes!FNV_64_INIT, step)
  <2> HIDE DEF step, n
  <2> QED BY <1>1, <1>2, Recursion, Zenon
<1>5. f = eq(f)
  <2> HIDE DEF step
  <2>1. /\ f \in [0..n -> WordOf(8)] /\ f[0] = Hashes!FNV_64_INIT
        /\ \A i \in 1..n : f[i] = FnvTurn(f[i - 1], i)
    BY <1>3, <1>4, Zenon
  <2> HIDE DEF n
  <2>2. \A i \in 0..n : f[i] = IF i = 0 THEN Hashes!FNV_64_INIT ELSE FnvTurn(f[i - 1], i)
    BY <1>2, <2>1
  <2> QED BY <2>1, <2>2
<1>6. Hashes!Fnv1a64(m) = value[m]
  BY Zenon DEF Hashes!Fnv1a64, FnvTurn
<1> HIDE DEF eq
<1>7. value = eq(value)
  BY <1>5, Zenon
<1>8. Follows(value, n, WordOf(8), Hashes!FNV_64_INIT, step)
  <2> HIDE DEF value, n
  <2>1. value = [i \in 0..n |-> value[i]] /\ value[0] = Hashes!FNV_64_INIT
    BY <1>2, <1>7 DEF eq
  <2>2. ASSUME NEW i \in 1..n, value[i - 1] \in WordOf(8) PROVE value[i] = step[i][value[i - 1]]
    <3>1. value[i] = FnvTurn(value[i - 1], i)
      BY <1>2, <1>7 DEF eq
    <3> QED BY <2>2, <3>1
  <2> HIDE DEF step
  <2> QED BY <1>1, <1>2, <2>1, <2>2, StaysIn
<1> HIDE DEF value
<1>9. /\ value \in [0..n -> WordOf(8)] /\ value[0] = Hashes!FNV_64_INIT
      /\ \A i \in 1..n : value[i] = FnvTurn(value[i - 1], i)
  <2> HIDE DEF step, n
  <2> QED BY <1>3, <1>8, Zenon
<1> HIDE DEF step
<1> QED BY <1>6, <1>9, Zenon

LEMMA FnvNext ==
    ASSUME key \in Seq(Octet), NEW m \in Nat, m + 1 <= Len(key)
    PROVE  /\ Hashes!Fnv1a64(m) \in WordOf(8)
           /\ Hashes!Fnv1a64(m + 1) = FnvTurn(Hashes!Fnv1a64(m), m + 1)
<1>0. m \in 0..Len(key) /\ m + 1 \in 0..Len(key) /\ m \in 0..m
  OBVIOUS
<1>1. PICK r \in [0..m -> WordOf(8)] :
        /\ r[0] = Hashes!FNV_64_INIT /\ \A i \in 1..m : r[i] = FnvTurn(r[i - 1], i)
        /\ Hashes!Fnv1a64(m) = r[m]
  BY <1>0, FnvDef, Zenon
<1>2. PICK s \in [0..(m + 1) -> WordOf(8)] :
        /\ s[0] = Hashes!FNV_64_INIT /\ \A i \in 1..(m + 1) : s[i] = FnvTurn(s[i - 1], i)
        /\ Hashes!Fnv1a64(m + 1) = s[m + 1]
  BY <1>0, FnvDef, Zenon
<1> DEFINE T == {i \in 0..m : r[i] = s[i]}
<1>3. 0 \in T
  BY <1>1, <1>2
<1>4. ASSUME NEW i \in 1..m, i - 1 \in T PROVE i \in T
  <2>1. i \in 0..m /\ i \in 1..(m + 1)
    OBVIOUS
  <2>2. r[i - 1] = s[i - 1]
    BY <1>4
  <2>3. r[i] = s[i]
    BY <1>1, <1>2, <2>1, <2>2, Zenon
  <2> QED BY <2>1, <2>3
<1>5. \A i \in 0..m : i \in T
  <2> HIDE DEF T
  <2> QED BY <1>3, <1>4, InductionTo
<1>6. r[m] = s[m] /\ r[m] \in WordOf(8)
  BY <1>0, <1>1, <1>5
<1>7. m + 1 \in 1..(m + 1) /\ (m + 1) - 1 = m
  OBVIOUS
<1>8. s[m + 1] = FnvTurn(s[m], m + 1)
  BY <1>2, <1>7, Zenon
<1> QED BY <1>1, <1>2, <1>6, <1>8, Zenon

(* hash_fnv1a_64 keeps the low word of that.                               *)
LowWordInv == alg = "fnv1a_64" => hash[FALSE] = Hashes!Cast(Hashes!Fnv1a64(consumed), 4)

LEMMA FnvPrimed ==
    ASSUME key' = key, NEW m, consumed' = m
    PROVE  (Hashes!Fnv1a64(consumed))' = Hashes!Fnv1a64(m)
BY Zenon DEF Hashes!Fnv1a64

LEMMA FnvStart ==
    ASSUME key \in Seq(Octet)
    PROVE  Hashes!Fnv1a64(0) = Hashes!FNV_64_INIT
<1>1. 0 \in 0..Len(key)
  OBVIOUS
<1>2. \E r \in [0..0 -> WordOf(8)] :
        /\ r[0] = Hashes!FNV_64_INIT /\ \A i \in 1..0 : r[i] = FnvTurn(r[i - 1], i)
        /\ Hashes!Fnv1a64(0) = r[0]
  BY <1>1, FnvDef, Zenon
<1> QED BY <1>2, Zenon

LEMMA FnvTurnLow ==
    ASSUME key \in Seq(Octet), NEW i \in 1..Len(key), NEW r \in WordOf(8)
    PROVE  Hashes!Cast(FnvTurn(r, i), 4) =
              Hashes!fnv1a(Hashes!Cast(r, 4), Hashes!Char(key[i], FALSE, 4), Hashes!Cast(Hashes!FNV_64_PRIME, 4))
<1> DEFINE c == Hashes!Cast(<<key[i]>>, 8)
<1>1. c \in WordOf(8) /\ Hashes!XorWord(r, c) \in WordOf(8)
  BY FnvTurnType, Zenon
<1>2. Hashes!Cast(c, 4) = Hashes!Char(key[i], FALSE, 4)
  <2>1. key[i] \in Octet
    OBVIOUS
  <2>2. /\ Hashes!Char(key[i], FALSE, 4) =
              [j \in 1..4 |-> IF j = 1 THEN key[i] ELSE IF FALSE /\ key[i] >= 128 THEN 255 ELSE 0]
        /\ Hashes!Char(key[i], FALSE, 4) \in WordOf(4)
    BY <2>1, CharIs
  <2>3. /\ Hashes!Cast(c, 4) \in WordOf(4) /\ \A j \in 1..4 : Hashes!Cast(c, 4)[j] = c[j]
    BY <1>1, CastBytes, 4 \in 0..8
  <2>4. <<key[i]>> \in WordOf(1)
    BY <2>1 DEF WordOf
  <2>5. c = [j \in 1..8 |-> Hashes!Byte(<<key[i]>>, j)]
    BY <2>4, CastIs
  <2>6. \A j \in 1..8 : Hashes!Byte(<<key[i]>>, j) = IF j \in 1..1 THEN <<key[i]>>[j] ELSE 0
    BY <2>4, ByteIs
  <2>7. \A j \in 1..4 : Hashes!Cast(c, 4)[j] = Hashes!Char(key[i], FALSE, 4)[j]
    <3> HIDE DEF c
    <3>1. ASSUME NEW j \in 1..4 PROVE Hashes!Cast(c, 4)[j] = Hashes!Char(key[i], FALSE, 4)[j]
      <4>1. j \in 1..8
        OBVIOUS
      <4>2. Hashes!Cast(c, 4)[j] = Hashes!Byte(<<key[i]>>, j)
        BY <2>3, <2>5, <4>1, Zenon
      <4>3. Hashes!Byte(<<key[i]>>, j) = IF j \in 1..1 THEN <<key[i]>>[j] ELSE 0
        BY <2>6, <4>1, Zenon
      <4>4. (IF j \in 1..1 THEN <<key[i]>>[j] ELSE 0) = IF j = 1 THEN key[i] ELSE 0
        OBVIOUS
      <4>5. Hashes!Char(key[i], FALSE, 4)[j] = IF j = 1 THEN key[i] ELSE 0
        BY <2>2
      <4> QED BY <4>2, <4>3, <4>4, <4>5, Zenon
    <3> QED BY <3>1
  <2> HIDE DEF c
  <2> QED BY <2>2, <2>3, <2>7, SameWord
<1>3. FnvTurn(r, i) = Hashes!Mul(Hashes!XorWord(r, c), Hashes!FNV_64_PRIME)
  BY Zenon DEF FnvTurn
<1> HIDE DEF c
<1>4. Hashes!Cast(Hashes!XorWord(r, c), 4) = Hashes!XorWord(Hashes!Cast(r, 4), Hashes!Cast(c, 4))
  BY <1>1, CastXor, 4 \in 0..8
<1>5. Hashes!Cast(Hashes!Mul(Hashes!XorWord(r, c), Hashes!FNV_64_PRIME), 4)
        = Hashes!Mul(Hashes!Cast(Hashes!XorWord(r, c), 4), Hashes!Cast(Hashes!FNV_64_PRIME, 4))
  BY <1>1, CastMul, WordsWritten, 4 \in 0..8
<1> QED BY <1>2, <1>3, <1>4, <1>5, Zenon DEF Hashes!fnv1a

(* A key is about to be hashed.                                            *)
HashStarted ==
    /\ HashInv /\ consumed = 0 /\ at = "loop"
    /\ hash = [signed \in BOOLEAN |-> Hashes!Seed(alg, Len(key))]

LEMMA LowWordStart ==
    ASSUME HashStarted
    PROVE  LowWordInv
<1> SUFFICES ASSUME alg = "fnv1a_64" PROVE hash[FALSE] = Hashes!Cast(Hashes!Fnv1a64(consumed), 4)
  BY DEF LowWordInv
<1>0. hash = [signed \in BOOLEAN |-> Hashes!Seed(alg, Len(key))] /\ consumed = 0 /\ HashInv
  BY DEF HashStarted
<1>1. hash[FALSE] = Hashes!Seed(alg, Len(key))
  BY <1>0
<1>2. Hashes!Seed(alg, Len(key)) = Hashes!Cast(Hashes!FNV_64_INIT, 4)
  BY DEF Hashes!Seed
<1>3. Hashes!Fnv1a64(0) = Hashes!FNV_64_INIT
  BY <1>0, FnvStart DEF HashInv
<1> QED BY <1>0, <1>1, <1>2, <1>3, Zenon

LEMMA LowWordStarted == (HashStarted => LowWordInv)'
<1>1. HashStarted => LowWordInv
  BY LowWordStart
<1> QED BY <1>1, PTL

LEMMA LowWordStep ==
    ASSUME HashInv, HashInv', LowWordInv, [Hashes!Next]_(Hashes!vars)
    PROVE  LowWordInv'
<1> SUFFICES ASSUME alg' = "fnv1a_64" PROVE LowWordInv'
  BY DEF LowWordInv
<1>0. alg = "fnv1a_64" /\ hash[FALSE] = Hashes!Cast(Hashes!Fnv1a64(consumed), 4)
  <2>1. alg' = alg
    BY DEF Hashes!Next, Hashes!Hash, Hashes!HashNext, Hashes!Turn, Hashes!Return, Hashes!Request,
           Hashes!vars, Hashes!hashVars
  <2> QED BY <2>1 DEF LowWordInv
<1>s. Hashes!Stride = 1
  BY <1>0 DEF Hashes!Stride, Hashes!ByteAlgs
<1>t. key \in Seq(Octet) /\ consumed \in Nat /\ consumed <= Len(key) /\ Len(key) \in Nat
  BY DEF HashInv
<1>1. CASE Hashes!Turn
  <2>1. /\ at = "loop" /\ consumed + 1 <= Len(key)
        /\ hash'[FALSE] = Hashes!Mixed(hash[FALSE], FALSE)
        /\ consumed' = consumed + 1 /\ key' = key
    BY <1>1, <1>s DEF Hashes!Turn
  <2>2. Len(hash[FALSE]) = 4
    <3>1. hash[FALSE] \in WordOf(4)
      BY <1>0 DEF HashInv, Width
    <3> QED BY <3>1, WordLen DEF WordOf
  <2>3. Hashes!Mixed(hash[FALSE], FALSE) =
          Hashes!fnv1a(hash[FALSE], Hashes!Char(key[consumed + 1], FALSE, 4), Hashes!Cast(Hashes!FNV_64_PRIME, 4))
    BY <1>0, <2>2 DEF Hashes!Mixed
  <2>4. /\ Hashes!Fnv1a64(consumed) \in WordOf(8)
        /\ Hashes!Fnv1a64(consumed + 1) = FnvTurn(Hashes!Fnv1a64(consumed), consumed + 1)
    BY <1>t, <2>1, FnvNext
  <2>5. consumed + 1 \in 1..Len(key)
    BY <1>t, <2>1
  <2>6. hash'[FALSE] = Hashes!Cast(FnvTurn(Hashes!Fnv1a64(consumed), consumed + 1), 4)
    BY <1>0, <1>t, <2>1, <2>3, <2>4, <2>5, FnvTurnLow, Zenon
  <2>7. (Hashes!Fnv1a64(consumed))' = Hashes!Fnv1a64(consumed + 1)
    BY <2>1, FnvPrimed
  <2> QED BY <2>4, <2>6, <2>7, Zenon DEF LowWordInv
<1>2. CASE Hashes!Return
  <2>1. /\ hash'[FALSE] = Hashes!Finished(hash[FALSE], FALSE) /\ key' = key
        /\ consumed + 1 > Len(key) /\ consumed' = Len(key)
    BY <1>0, <1>2, <1>s DEF Hashes!Return
  <2>2. consumed' = consumed
    BY <1>t, <2>1
  <2>3. Hashes!Finished(hash[FALSE], FALSE) = hash[FALSE]
    BY <1>0 DEF Hashes!Finished
  <2>4. (Hashes!Fnv1a64(consumed))' = Hashes!Fnv1a64(consumed)
    BY <2>1, <2>2, FnvPrimed
  <2> QED BY <1>0, <2>1, <2>3, <2>4, Zenon DEF LowWordInv
<1>3. CASE Hashes!Request
  <2>1. CASE next < Len(requests)
    <3>1. /\ consumed' = 0 /\ at' = "loop" /\ hash' = [signed \in BOOLEAN |-> Hashes!Seed(alg, Len(key'))] /\ alg' = alg
      BY <1>3, <2>1 DEF Hashes!Request
    <3>2. (HashStarted => LowWordInv)'
      BY LowWordStarted
    <3> QED BY <3>1, <3>2, <1>0 DEF HashStarted
  <2>2. CASE ~(next < Len(requests))
    <3>1. UNCHANGED <<key, consumed, hash>>
      BY <1>3, <2>2 DEF Hashes!Request
    <3>2. (Hashes!Fnv1a64(consumed))' = Hashes!Fnv1a64(consumed)
      BY <3>1, FnvPrimed
    <3> QED BY <1>0, <3>1, <3>2, Zenon DEF LowWordInv
  <2> QED BY <2>1, <2>2
<1>4. CASE UNCHANGED Hashes!vars
  <2>1. UNCHANGED <<key, consumed, hash>>
    BY <1>4 DEF Hashes!vars, Hashes!hashVars
  <2>2. (Hashes!Fnv1a64(consumed))' = Hashes!Fnv1a64(consumed)
    BY <2>1, FnvPrimed
  <2> QED BY <1>0, <2>1, <2>2, Zenon DEF LowWordInv
<1> QED BY <1>1, <1>2, <1>3, <1>4 DEF Hashes!Next, Hashes!Hash, Hashes!HashNext

(* The 32-bit arithmetic of hash_fnv1a_64 loses nothing: for every key it  *)
(* returns the low word of the 64-bit FNV-1a.                              *)
THEOREM LowWordOfFnv ==
    ASSUME HashConstants
    PROVE  KeysSpec => []LowWordOfFnv1a
<1>1. KeysInit => (call = "hash_func" => LowWordInv)
  <2> SUFFICES ASSUME KeysInit, call = "hash_func", alg = "fnv1a_64" PROVE LowWordInv
    BY DEF LowWordInv
  <2>1. consumed = 0 /\ at = "loop" /\ hash = [signed \in BOOLEAN |-> Hashes!Seed(alg, Len(key))]
    BY HashStarts DEF Hashes!Init, Hashes!Start
  <2> QED BY <2>1, HashStarts, HashInit, LowWordStart DEF HashStarted
<1>2. /\ call = "hash_func" => HashInv
      /\ (call = "hash_func" => HashInv)'
      /\ call = "hash_func" => LowWordInv
      /\ [KeysNext]_keysVars
      => (call = "hash_func" => LowWordInv)'
  <2> SUFFICES ASSUME call = "hash_func" => HashInv, (call = "hash_func" => HashInv)',
                      call = "hash_func" => LowWordInv,
                      [KeysNext]_keysVars, call' = "hash_func"
               PROVE  LowWordInv'
    OBVIOUS
  <2> QED BY HashRuns, LowWordStep
<1>3. LowWordInv => Hashes!LowWordOfFnv1a
  BY DEF LowWordInv, Hashes!LowWordOfFnv1a
<1> QED BY <1>1, <1>2, <1>3, HashInvariant, PTL DEF KeysSpec, LowWordOfFnv1a

-----------------------------------------------------------------------------
(* Words as rows of bits, the least significant first.                     *)
Row(n) == [1..(8 * n) -> 0..1]
BitsOf(f, i) == [j \in 1..8 |-> f[8 * (i - 1) + j]]
WordFrom(n, f) == [i \in 1..n |-> Val(BitsOf(f, i))]
RowXor(n, f, g) == [e \in 1..(8 * n) |-> (f[e] + g[e]) % 2]
RowUp(n, f) == [e \in 1..(8 * n) |-> IF e = 1 THEN 0 ELSE f[e - 1]]
RowDown(n, f) == [e \in 1..(8 * n) |-> IF e = 8 * n THEN 0 ELSE f[e + 1]]

LEMMA BitsOfType ==
    ASSUME NEW n \in Nat, NEW f \in Row(n), NEW i \in 1..n
    PROVE  BitsOf(f, i) \in Bits
<1>1. \A j \in 1..8 : 8 * (i - 1) + j \in 1..(8 * n)
  OBVIOUS
<1>2. \A j \in 1..8 : f[8 * (i - 1) + j] \in 0..1
  BY <1>1 DEF Row
<1> QED BY <1>2 DEF BitsOf, Bits

LEMMA WordFromType ==
    ASSUME NEW n \in Nat, NEW f \in Row(n)
    PROVE  /\ WordFrom(n, f) \in WordOf(n)
           /\ \A i \in 1..n : WordFrom(n, f)[i] = Val(BitsOf(f, i))
<1>1. \A i \in 1..n : Val(BitsOf(f, i)) \in Octet
  BY BitsOfType, ValDiv
<1> QED BY <1>1 DEF WordFrom, WordOf

LEMMA WordHasRow ==
    ASSUME NEW n \in Nat, NEW x \in WordOf(n)
    PROVE  \E f \in Row(n) : x = WordFrom(n, f)
<1> DEFINE B(i) == CHOOSE b \in Bits : x[i] = Val(b)
           f == [e \in 1..(8 * n) |-> B(((e - 1) \div 8) + 1)[((e - 1) % 8) + 1]]
<1>1. \A i \in 1..n : B(i) \in Bits /\ x[i] = Val(B(i))
  <2>1. \A i \in 1..n : x[i] \in Octet
    BY WordBytes
  <2>2. \A i \in 1..n : \E b \in Bits : x[i] = Val(b)
    BY <2>1, ByteIsVal
  <2> QED BY <2>2, Zenon
<1> HIDE DEF B
<1>2. f \in Row(n)
  <2>1. ASSUME NEW e \in 1..(8 * n)
        PROVE  B(((e - 1) \div 8) + 1)[((e - 1) % 8) + 1] \in 0..1
    <3>1. ((e - 1) \div 8) + 1 \in 1..n /\ ((e - 1) % 8) + 1 \in 1..8
      OBVIOUS
    <3>2. B(((e - 1) \div 8) + 1) \in Bits
      BY <1>1, <3>1
    <3> QED BY <3>1, <3>2 DEF Bits
  <2> QED BY <2>1 DEF Row
<1>3. ASSUME NEW i \in 1..n PROVE BitsOf(f, i) = B(i)
  <2>1. ASSUME NEW j \in 1..8 PROVE f[8 * (i - 1) + j] = B(i)[j]
    <3> DEFINE e == 8 * (i - 1) + j
    <3>1. e \in 1..(8 * n) /\ ((e - 1) \div 8) + 1 = i /\ ((e - 1) % 8) + 1 = j
      OBVIOUS
    <3> HIDE DEF e
    <3>2. f[e] = B(((e - 1) \div 8) + 1)[((e - 1) % 8) + 1]
      BY <3>1
    <3>3. f[e] = B(i)[j]
      BY <3>1, <3>2, Zenon
    <3> QED BY <3>3 DEF e
  <2> HIDE DEF f
  <2>2. BitsOf(f, i) = [j \in 1..8 |-> B(i)[j]]
    BY <2>1 DEF BitsOf
  <2>3. B(i) = [j \in 1..8 |-> B(i)[j]]
    BY <1>1 DEF Bits
  <2> QED BY <2>2, <2>3
<1> HIDE DEF f
<1>4. \A i \in 1..n : WordFrom(n, f)[i] = x[i]
  BY <1>1, <1>2, <1>3, WordFromType
<1>5. WordFrom(n, f) = x
  BY <1>2, <1>4, WordFromType, SameWord
<1> QED BY <1>2, <1>5

LEMMA RowsType ==
    ASSUME NEW n \in Nat, NEW f \in Row(n), NEW g \in Row(n)
    PROVE  RowXor(n, f, g) \in Row(n) /\ RowUp(n, f) \in Row(n) /\ RowDown(n, f) \in Row(n)
<1>1. \A e \in 1..(8 * n) : f[e] \in 0..1 /\ g[e] \in 0..1
  BY DEF Row
<1>2. \A i, j \in 0..1 : (i + j) % 2 \in 0..1
  OBVIOUS
<1>3. \A e \in 1..(8 * n) : (f[e] + g[e]) % 2 \in 0..1
  BY <1>1, <1>2, Zenon
<1>4. \A e \in 1..(8 * n) : (IF e = 1 THEN 0 ELSE f[e - 1]) \in 0..1
  <2>1. \A e \in 1..(8 * n) : e # 1 => e - 1 \in 1..(8 * n)
    OBVIOUS
  <2>2. 0 \in 0..1
    OBVIOUS
  <2> QED BY <1>1, <2>1, <2>2, Zenon
<1>5. \A e \in 1..(8 * n) : (IF e = 8 * n THEN 0 ELSE f[e + 1]) \in 0..1
  <2>1. \A e \in 1..(8 * n) : e # 8 * n => e + 1 \in 1..(8 * n)
    OBVIOUS
  <2>2. 0 \in 0..1
    OBVIOUS
  <2> QED BY <1>1, <2>1, <2>2, Zenon
<1>6. RowXor(n, f, g) \in Row(n)
  BY <1>3 DEF RowXor, Row
<1>7. RowUp(n, f) \in Row(n)
  BY <1>4 DEF RowUp, Row
<1>8. RowDown(n, f) \in Row(n)
  BY <1>5 DEF RowDown, Row
<1> QED BY <1>6, <1>7, <1>8

LEMMA XorRows ==
    ASSUME NEW n \in Nat, NEW f \in Row(n), NEW g \in Row(n)
    PROVE  Hashes!XorWord(WordFrom(n, f), WordFrom(n, g)) = WordFrom(n, RowXor(n, f, g))
<1> DEFINE x == WordFrom(n, f)
           y == WordFrom(n, g)
           z == WordFrom(n, RowXor(n, f, g))
<1>1. /\ x \in WordOf(n) /\ y \in WordOf(n) /\ z \in WordOf(n)
      /\ \A i \in 1..n : /\ x[i] = Val(BitsOf(f, i)) /\ y[i] = Val(BitsOf(g, i))
                         /\ z[i] = Val(BitsOf(RowXor(n, f, g), i))
  BY RowsType, WordFromType, Zenon
<1> HIDE DEF x, y, z
<1>2. ASSUME NEW i \in 1..n
      PROVE  BitsOf(RowXor(n, f, g), i) = XorBits(BitsOf(f, i), BitsOf(g, i))
  <2>1. \A j \in 1..8 : 8 * (i - 1) + j \in 1..(8 * n)
    OBVIOUS
  <2>2. \A j \in 1..8 : RowXor(n, f, g)[8 * (i - 1) + j] = (f[8 * (i - 1) + j] + g[8 * (i - 1) + j]) % 2
    BY <2>1, Zenon DEF RowXor
  <2>3. \A j \in 1..8 : BitsOf(f, i)[j] = f[8 * (i - 1) + j] /\ BitsOf(g, i)[j] = g[8 * (i - 1) + j]
    BY Zenon DEF BitsOf
  <2>4. \A j \in 1..8 : RowXor(n, f, g)[8 * (i - 1) + j] = (BitsOf(f, i)[j] + BitsOf(g, i)[j]) % 2
    BY <2>2, <2>3, Zenon
  <2>5. [j \in 1..8 |-> RowXor(n, f, g)[8 * (i - 1) + j]] = [j \in 1..8 |-> (BitsOf(f, i)[j] + BitsOf(g, i)[j]) % 2]
    BY <2>4, Zenon
  <2>6. BitsOf(RowXor(n, f, g), i) = [j \in 1..8 |-> RowXor(n, f, g)[8 * (i - 1) + j]]
    BY Zenon DEF BitsOf
  <2> QED BY <2>5, <2>6, Zenon DEF XorBits
<1>3. Hashes!XorWord(x, y) \in WordOf(n) /\ \A i \in 1..n : Hashes!XorWord(x, y)[i] = Hashes!XorByte(x[i], y[i])
  BY <1>1, XorWordIs
<1>4. ASSUME NEW i \in 1..n PROVE Hashes!XorWord(x, y)[i] = z[i]
  <2>1. BitsOf(f, i) \in Bits /\ BitsOf(g, i) \in Bits
    BY BitsOfType
  <2>2. Hashes!XorByte(Val(BitsOf(f, i)), Val(BitsOf(g, i))) = Val(XorBits(BitsOf(f, i), BitsOf(g, i)))
    BY <2>1, XorVal
  <2> QED BY <1>1, <1>2, <1>3, <2>2, Zenon
<1>5. Hashes!XorWord(x, y) = z
  BY <1>1, <1>3, <1>4, SameWord
<1> QED BY <1>5 DEF x, y, z

(* Shifts by one bit and by one byte.                                      *)
LEMMA PowersAre ==
    /\ Hashes!Power2[1] = 1 /\ Hashes!Power2[2] = 2 /\ Hashes!Power2[8] = 128 /\ Hashes!Power2[9] = 256
BY DEF Hashes!Power2

LEMMA ShlOne ==
    ASSUME NEW n \in Nat, NEW x \in WordOf(n)
    PROVE  /\ Hashes!Shl(x, 1) \in WordOf(n)
           /\ \A i \in 1..n : Hashes!Shl(x, 1)[i] =
                    ((x[i] * 2) % 256) + (IF i = 1 THEN 0 ELSE x[i - 1] \div 128)
<1>1. 1 \in Nat /\ 1 \div 8 = 0 /\ Hashes!Power2[(1 % 8) + 1] = 2 /\ Hashes!Power2[9 - (1 % 8)] = 128
  BY PowersAre
<1>2. /\ \A i \in 1..n : Hashes!Shl(x, 1)[i] =
            ((Hashes!Byte(x, i - 0) * 2) % 256) + (Hashes!Byte(x, i - 0 - 1) \div 128)
      /\ Hashes!Shl(x, 1) \in WordOf(n)
  <2>1. Hashes!Shl(x, 1) \in WordOf(n) /\ \A i \in 1..n : Hashes!Shl(x, 1)[i] = ShlByte(x, 1, i)
    BY <1>1, ShlIs
  <2>2. \A i : ShlByte(x, 1, i) = ((Hashes!Byte(x, i - 0) * 2) % 256) + (Hashes!Byte(x, i - 0 - 1) \div 128)
    BY <1>1, Zenon DEF ShlByte
  <2>3. ASSUME NEW i \in 1..n PROVE Hashes!Shl(x, 1)[i] = ((Hashes!Byte(x, i - 0) * 2) % 256) + (Hashes!Byte(x, i - 0 - 1) \div 128)
    <3>1. Hashes!Shl(x, 1)[i] = ShlByte(x, 1, i)
      BY <2>1, Zenon
    <3>2. ShlByte(x, 1, i) = ((Hashes!Byte(x, i - 0) * 2) % 256) + (Hashes!Byte(x, i - 0 - 1) \div 128)
      BY <2>2, Zenon
    <3> QED BY <3>1, <3>2, Zenon
  <2> QED BY <2>1, <2>3, Zenon
<1>3. ASSUME NEW i \in 1..n
      PROVE  Hashes!Shl(x, 1)[i] = ((x[i] * 2) % 256) + (IF i = 1 THEN 0 ELSE x[i - 1] \div 128)
  <2>1. i - 0 = i /\ i - 0 - 1 = i - 1 /\ i \in Int /\ i - 1 \in Int
        /\ (i - 1 \in 1..n <=> i # 1) /\ 0 \div 128 = 0
    OBVIOUS
  <2>2. Hashes!Byte(x, i) = x[i] /\ Hashes!Byte(x, i - 1) = IF i = 1 THEN 0 ELSE x[i - 1]
    BY <2>1, ByteIs, Zenon
  <2>3. Hashes!Shl(x, 1)[i] = ((Hashes!Byte(x, i) * 2) % 256) + (Hashes!Byte(x, i - 1) \div 128)
    <3>1. i - 0 = i /\ i - 0 - 1 = i - 1
      OBVIOUS
    <3>2. Hashes!Shl(x, 1)[i] = ((Hashes!Byte(x, i - 0) * 2) % 256) + (Hashes!Byte(x, i - 0 - 1) \div 128)
      BY <1>2, Zenon
    <3> QED BY <3>1, <3>2, Zenon
  <2>4. Hashes!Byte(x, i - 1) \div 128 = IF i = 1 THEN 0 ELSE x[i - 1] \div 128
    BY <2>1, <2>2, Zenon
  <2> QED BY <2>2, <2>3, <2>4, Zenon
<1> QED BY <1>2, <1>3

LEMMA ShrOne ==
    ASSUME NEW n \in Nat, NEW x \in WordOf(n)
    PROVE  /\ Hashes!Shr(x, 1) \in WordOf(n)
           /\ \A i \in 1..n : Hashes!Shr(x, 1)[i] =
                    (x[i] \div 2) + (IF i = n THEN 0 ELSE (x[i + 1] * 128) % 256)
<1>1. 1 \in Nat /\ 1 \div 8 = 0 /\ Hashes!Power2[(1 % 8) + 1] = 2 /\ Hashes!Power2[9 - (1 % 8)] = 128
  BY PowersAre
<1>2. /\ \A i \in 1..n : Hashes!Shr(x, 1)[i] =
            (Hashes!Byte(x, i + 0) \div 2) + ((Hashes!Byte(x, i + 0 + 1) * 128) % 256)
      /\ Hashes!Shr(x, 1) \in WordOf(n)
  <2>1. Hashes!Shr(x, 1) \in WordOf(n) /\ \A i \in 1..n : Hashes!Shr(x, 1)[i] = ShrByte(x, 1, i)
    BY <1>1, ShrIs
  <2>2. \A i : ShrByte(x, 1, i) = (Hashes!Byte(x, i + 0) \div 2) + ((Hashes!Byte(x, i + 0 + 1) * 128) % 256)
    BY <1>1, Zenon DEF ShrByte
  <2>3. ASSUME NEW i \in 1..n PROVE Hashes!Shr(x, 1)[i] = (Hashes!Byte(x, i + 0) \div 2) + ((Hashes!Byte(x, i + 0 + 1) * 128) % 256)
    <3>1. Hashes!Shr(x, 1)[i] = ShrByte(x, 1, i)
      BY <2>1, Zenon
    <3>2. ShrByte(x, 1, i) = (Hashes!Byte(x, i + 0) \div 2) + ((Hashes!Byte(x, i + 0 + 1) * 128) % 256)
      BY <2>2, Zenon
    <3> QED BY <3>1, <3>2, Zenon
  <2> QED BY <2>1, <2>3, Zenon
<1>3. ASSUME NEW i \in 1..n
      PROVE  Hashes!Shr(x, 1)[i] = (x[i] \div 2) + (IF i = n THEN 0 ELSE (x[i + 1] * 128) % 256)
  <2>1. i + 0 = i /\ i + 0 + 1 = i + 1 /\ i \in Int /\ i + 1 \in Int
        /\ (i + 1 \in 1..n <=> i # n) /\ (0 * 128) % 256 = 0
    OBVIOUS
  <2>2. Hashes!Byte(x, i) = x[i] /\ Hashes!Byte(x, i + 1) = IF i = n THEN 0 ELSE x[i + 1]
    BY <2>1, ByteIs, Zenon
  <2>3. Hashes!Shr(x, 1)[i] = (Hashes!Byte(x, i) \div 2) + ((Hashes!Byte(x, i + 1) * 128) % 256)
    <3>1. i + 0 = i /\ i + 0 + 1 = i + 1
      OBVIOUS
    <3>2. Hashes!Shr(x, 1)[i] = (Hashes!Byte(x, i + 0) \div 2) + ((Hashes!Byte(x, i + 0 + 1) * 128) % 256)
      BY <1>2, Zenon
    <3> QED BY <3>1, <3>2, Zenon
  <2>4. (Hashes!Byte(x, i + 1) * 128) % 256 = IF i = n THEN 0 ELSE (x[i + 1] * 128) % 256
    BY <2>1, <2>2, Zenon
  <2> QED BY <2>2, <2>3, <2>4, Zenon
<1> QED BY <1>2, <1>3

LEMMA ShlEight ==
    ASSUME NEW n \in Nat, NEW x \in WordOf(n)
    PROVE  /\ Hashes!Shl(x, 8) \in WordOf(n)
           /\ \A i \in 1..n : Hashes!Shl(x, 8)[i] = IF i = 1 THEN 0 ELSE x[i - 1]
<1>1. 8 \in Nat /\ 8 \div 8 = 1 /\ Hashes!Power2[(8 % 8) + 1] = 1 /\ Hashes!Power2[9 - (8 % 8)] = 256
  BY PowersAre
<1>2. /\ \A i \in 1..n : Hashes!Shl(x, 8)[i] =
            ((Hashes!Byte(x, i - 1) * 1) % 256) + (Hashes!Byte(x, i - 1 - 1) \div 256)
      /\ Hashes!Shl(x, 8) \in WordOf(n)
  <2>1. Hashes!Shl(x, 8) \in WordOf(n) /\ \A i \in 1..n : Hashes!Shl(x, 8)[i] = ShlByte(x, 8, i)
    BY <1>1, ShlIs
  <2>2. \A i : ShlByte(x, 8, i) = ((Hashes!Byte(x, i - 1) * 1) % 256) + (Hashes!Byte(x, i - 1 - 1) \div 256)
    BY <1>1, Zenon DEF ShlByte
  <2>3. ASSUME NEW i \in 1..n PROVE Hashes!Shl(x, 8)[i] = ((Hashes!Byte(x, i - 1) * 1) % 256) + (Hashes!Byte(x, i - 1 - 1) \div 256)
    <3>1. Hashes!Shl(x, 8)[i] = ShlByte(x, 8, i)
      BY <2>1, Zenon
    <3>2. ShlByte(x, 8, i) = ((Hashes!Byte(x, i - 1) * 1) % 256) + (Hashes!Byte(x, i - 1 - 1) \div 256)
      BY <2>2, Zenon
    <3> QED BY <3>1, <3>2, Zenon
  <2> QED BY <2>1, <2>3, Zenon
<1>3. ASSUME NEW i \in 1..n PROVE Hashes!Shl(x, 8)[i] = IF i = 1 THEN 0 ELSE x[i - 1]
  <2>1. i - 1 \in Int /\ i - 1 - 1 \in Int /\ (i - 1 \in 1..n <=> i # 1)
    OBVIOUS
  <2>2. /\ Hashes!Byte(x, i - 1) = IF i = 1 THEN 0 ELSE x[i - 1]
        /\ Hashes!Byte(x, i - 1) \in Octet /\ Hashes!Byte(x, i - 1 - 1) \in Octet
    BY <2>1, ByteIs, Zenon
  <2>3. \A a, b \in Octet : ((a * 1) % 256) + (b \div 256) = a
    BY DEF Octet
  <2>4. Hashes!Shl(x, 8)[i] = ((Hashes!Byte(x, i - 1) * 1) % 256) + (Hashes!Byte(x, i - 1 - 1) \div 256)
    BY <1>2, Zenon
  <2>5. Hashes!Shl(x, 8)[i] = Hashes!Byte(x, i - 1)
    <3>1. ((Hashes!Byte(x, i - 1) * 1) % 256) + (Hashes!Byte(x, i - 1 - 1) \div 256) = Hashes!Byte(x, i - 1)
      BY <2>2, <2>3
    <3> QED BY <2>4, <3>1
  <2> QED BY <2>2, <2>5, Zenon
<1> QED BY <1>2, <1>3

LEMMA ShrEight ==
    ASSUME NEW n \in Nat, NEW x \in WordOf(n)
    PROVE  /\ Hashes!Shr(x, 8) \in WordOf(n)
           /\ \A i \in 1..n : Hashes!Shr(x, 8)[i] = IF i = n THEN 0 ELSE x[i + 1]
<1>1. 8 \in Nat /\ 8 \div 8 = 1 /\ Hashes!Power2[(8 % 8) + 1] = 1 /\ Hashes!Power2[9 - (8 % 8)] = 256
  BY PowersAre
<1>2. /\ \A i \in 1..n : Hashes!Shr(x, 8)[i] =
            (Hashes!Byte(x, i + 1) \div 1) + ((Hashes!Byte(x, i + 1 + 1) * 256) % 256)
      /\ Hashes!Shr(x, 8) \in WordOf(n)
  <2>1. Hashes!Shr(x, 8) \in WordOf(n) /\ \A i \in 1..n : Hashes!Shr(x, 8)[i] = ShrByte(x, 8, i)
    BY <1>1, ShrIs
  <2>2. \A i : ShrByte(x, 8, i) = (Hashes!Byte(x, i + 1) \div 1) + ((Hashes!Byte(x, i + 1 + 1) * 256) % 256)
    BY <1>1, Zenon DEF ShrByte
  <2>3. ASSUME NEW i \in 1..n PROVE Hashes!Shr(x, 8)[i] = (Hashes!Byte(x, i + 1) \div 1) + ((Hashes!Byte(x, i + 1 + 1) * 256) % 256)
    <3>1. Hashes!Shr(x, 8)[i] = ShrByte(x, 8, i)
      BY <2>1, Zenon
    <3>2. ShrByte(x, 8, i) = (Hashes!Byte(x, i + 1) \div 1) + ((Hashes!Byte(x, i + 1 + 1) * 256) % 256)
      BY <2>2
    <3> QED BY <3>1, <3>2, Zenon
  <2> QED BY <2>1, <2>3, Zenon
<1>3. ASSUME NEW i \in 1..n PROVE Hashes!Shr(x, 8)[i] = IF i = n THEN 0 ELSE x[i + 1]
  <2>1. i + 1 \in Int /\ i + 1 + 1 \in Int /\ (i + 1 \in 1..n <=> i # n)
    OBVIOUS
  <2>2. /\ Hashes!Byte(x, i + 1) = IF i = n THEN 0 ELSE x[i + 1]
        /\ Hashes!Byte(x, i + 1) \in Octet /\ Hashes!Byte(x, i + 1 + 1) \in Octet
    BY <2>1, ByteIs, Zenon
  <2>3. \A a, b \in Octet : (a \div 1) + ((b * 256) % 256) = a
    <3>1. \A a \in Octet : a \div 1 = a /\ a + 0 = a
      BY DEF Octet
    <3>2. \A b \in Octet : (b * 256) % 256 = 0
      BY DEF Octet
    <3> QED BY <3>1, <3>2, Zenon
  <2>4. Hashes!Shr(x, 8)[i] = (Hashes!Byte(x, i + 1) \div 1) + ((Hashes!Byte(x, i + 1 + 1) * 256) % 256)
    BY <1>2, Zenon
  <2>5. Hashes!Shr(x, 8)[i] = Hashes!Byte(x, i + 1)
    <3>1. (Hashes!Byte(x, i + 1) \div 1) + ((Hashes!Byte(x, i + 1 + 1) * 256) % 256) = Hashes!Byte(x, i + 1)
      BY <2>2, <2>3
    <3> QED BY <2>4, <3>1
  <2> QED BY <2>2, <2>5, Zenon
<1> QED BY <1>2, <1>3

(* A shift by one bit moves the row by one place.                          *)
LEMMA UpByte ==
    ASSUME NEW b \in Bits, NEW t \in 0..1
    PROVE  LET u == [j \in 1..8 |-> IF j = 1 THEN t ELSE b[j - 1]] IN
           u \in Bits /\ ((Val(b) * 2) % 256) + t = Val(u)
<1> DEFINE u == [j \in 1..8 |-> IF j = 1 THEN t ELSE b[j - 1]]
<1>1. PICK b1, b2, b3, b4, b5, b6, b7, b8 \in 0..1 :
        /\ b1 = b[1] /\ b2 = b[2] /\ b3 = b[3] /\ b4 = b[4]
        /\ b5 = b[5] /\ b6 = b[6] /\ b7 = b[7] /\ b8 = b[8]
  BY DEF Bits
<1>2. PICK a \in Nat : a = b1 + 2 * b2 + 4 * b3 + 8 * b4 + 16 * b5 + 32 * b6 + 64 * b7 + 128 * b8
  OBVIOUS
<1>3. Val(b) = a
  BY <1>1, <1>2 DEF Val
<1>4. ((a * 2) % 256) + t = t + 2 * b1 + 4 * b2 + 8 * b3 + 16 * b4 + 32 * b5 + 64 * b6 + 128 * b7
  <2>1. PICK low \in 0..127 : low = b1 + 2 * b2 + 4 * b3 + 8 * b4 + 16 * b5 + 32 * b6 + 64 * b7
    OBVIOUS
  <2>2. a = low + 128 * b8
    BY <1>2, <2>1
  <2>3. (a * 2) % 256 = 2 * low
    <3>1. CASE b8 = 0
      BY <2>1, <2>2, <3>1
    <3>2. CASE b8 = 1
      BY <2>1, <2>2, <3>2
    <3> QED BY <3>1, <3>2
  <2> HIDE <1>2, <2>2
  <2>4. 2 * low = 2 * b1 + 4 * b2 + 8 * b3 + 16 * b4 + 32 * b5 + 64 * b6 + 128 * b7
    BY <2>1
  <2> QED BY <2>3, <2>4
<1>5. u[1] = t /\ u[2] = b1 /\ u[3] = b2 /\ u[4] = b3 /\ u[5] = b4 /\ u[6] = b5 /\ u[7] = b6 /\ u[8] = b7
  BY <1>1
<1>6. u \in Bits
  BY DEF Bits
<1> HIDE DEF u
<1>7. Val(u) = t + 2 * b1 + 4 * b2 + 8 * b3 + 16 * b4 + 32 * b5 + 64 * b6 + 128 * b7
  BY <1>5 DEF Val
<1>8. ((Val(b) * 2) % 256) + t = Val(u)
  BY <1>3, <1>4, <1>7, Zenon
<1> QED BY <1>6, <1>8 DEF u

LEMMA DownByte ==
    ASSUME NEW b \in Bits, NEW t \in 0..1
    PROVE  LET u == [j \in 1..8 |-> IF j = 8 THEN t ELSE b[j + 1]] IN
           u \in Bits /\ (Val(b) \div 2) + (128 * t) = Val(u)
<1> DEFINE u == [j \in 1..8 |-> IF j = 8 THEN t ELSE b[j + 1]]
<1>1. PICK b1, b2, b3, b4, b5, b6, b7, b8 \in 0..1 :
        /\ b1 = b[1] /\ b2 = b[2] /\ b3 = b[3] /\ b4 = b[4]
        /\ b5 = b[5] /\ b6 = b[6] /\ b7 = b[7] /\ b8 = b[8]
  BY DEF Bits
<1>2. Val(b) \div 2 = b2 + 2 * b3 + 4 * b4 + 8 * b5 + 16 * b6 + 32 * b7 + 64 * b8
  BY <1>1, ValDiv, Zenon
<1>3. u[1] = b2 /\ u[2] = b3 /\ u[3] = b4 /\ u[4] = b5 /\ u[5] = b6 /\ u[6] = b7 /\ u[7] = b8 /\ u[8] = t
  BY <1>1
<1>4. u \in Bits
  BY DEF Bits
<1> HIDE DEF u
<1>5. Val(u) = b2 + 2 * b3 + 4 * b4 + 8 * b5 + 16 * b6 + 32 * b7 + 64 * b8 + 128 * t
  BY <1>3 DEF Val
<1>6. (Val(b) \div 2) + (128 * t) = Val(u)
  BY <1>2, <1>5, Zenon
<1> QED BY <1>4, <1>6 DEF u

LEMMA LowBit ==
    ASSUME NEW b \in Bits
    PROVE  Val(b) % 2 = b[1] /\ (Val(b) * 128) % 256 = 128 * b[1]
<1>1. PICK a \in Nat, t \in 0..1 : a = b[2] + 2 * b[3] + 4 * b[4] + 8 * b[5] + 16 * b[6] + 32 * b[7] + 64 * b[8] /\ t = b[1]
  <2>1. PICK b1, b2, b3, b4, b5, b6, b7, b8 \in 0..1 :
          /\ b1 = b[1] /\ b2 = b[2] /\ b3 = b[3] /\ b4 = b[4]
          /\ b5 = b[5] /\ b6 = b[6] /\ b7 = b[7] /\ b8 = b[8]
    BY DEF Bits
  <2>2. PICK a \in Nat : a = b2 + 2 * b3 + 4 * b4 + 8 * b5 + 16 * b6 + 32 * b7 + 64 * b8
    OBVIOUS
  <2> QED BY <2>1, <2>2, Zenon
<1>2. Val(b) = 2 * a + t
  <2>1. PICK b1, b2, b3, b4, b5, b6, b7, b8 \in 0..1 :
          /\ b1 = b[1] /\ b2 = b[2] /\ b3 = b[3] /\ b4 = b[4]
          /\ b5 = b[5] /\ b6 = b[6] /\ b7 = b[7] /\ b8 = b[8]
    BY DEF Bits
  <2>2. a = b2 + 2 * b3 + 4 * b4 + 8 * b5 + 16 * b6 + 32 * b7 + 64 * b8 /\ t = b1
    BY <1>1, <2>1, Zenon
  <2>3. Val(b) = b1 + 2 * b2 + 4 * b3 + 8 * b4 + 16 * b5 + 32 * b6 + 64 * b7 + 128 * b8
    BY <2>1, Zenon DEF Val
  <2>4. b1 + 2 * b2 + 4 * b3 + 8 * b4 + 16 * b5 + 32 * b6 + 64 * b7 + 128 * b8 = 2 * a + t
    BY <2>2
  <2> QED BY <2>3, <2>4, Zenon
<1>3. (2 * a + t) % 2 = t /\ ((2 * a + t) * 128) % 256 = 128 * t
  <2>1. (2 * a + t) * 128 = 256 * a + 128 * t
    OBVIOUS
  <2>2. (256 * a + 128 * t) % 256 = 128 * t
    OBVIOUS
  <2>3. (2 * a + t) % 2 = t
    OBVIOUS
  <2> QED BY <2>1, <2>2, <2>3, Zenon
<1> QED BY <1>1, <1>2, <1>3, Zenon

LEMMA ShlRow ==
    ASSUME NEW n \in Nat, NEW f \in Row(n)
    PROVE  Hashes!Shl(WordFrom(n, f), 1) = WordFrom(n, RowUp(n, f))
<1> DEFINE x == WordFrom(n, f)
           z == WordFrom(n, RowUp(n, f))
<1>1. /\ x \in WordOf(n) /\ \A i \in 1..n : x[i] = Val(BitsOf(f, i))
      /\ z \in WordOf(n) /\ \A i \in 1..n : z[i] = Val(BitsOf(RowUp(n, f), i))
  BY RowsType, WordFromType, Zenon
<1> HIDE DEF x, z
<1>a. \A i \in 1..n : Hashes!Shl(x, 1)[i] = ((x[i] * 2) % 256) + (IF i = 1 THEN 0 ELSE x[i - 1] \div 128)
  BY <1>1, ShlOne
<1>2. ASSUME NEW i \in 1..n PROVE Hashes!Shl(x, 1)[i] = z[i]
  <2> DEFINE b == BitsOf(f, i)
             t == IF i = 1 THEN 0 ELSE BitsOf(f, i - 1)[8]
             u == [j \in 1..8 |-> IF j = 1 THEN t ELSE b[j - 1]]
  <2>1. b \in Bits
    BY BitsOfType
  <2>2. t \in 0..1 /\ t = IF i = 1 THEN 0 ELSE x[i - 1] \div 128
    <3>1. CASE i = 1
      BY <3>1
    <3>2. CASE i # 1
      <4>1. i - 1 \in 1..n
        BY <3>2
      <4>2. BitsOf(f, i - 1) \in Bits
        BY <4>1, BitsOfType
      <4>3. BitsOf(f, i - 1)[8] \in 0..1
        BY <4>2 DEF Bits
      <4>4. x[i - 1] \div 128 = BitsOf(f, i - 1)[8]
        <5>1. x[i - 1] = Val(BitsOf(f, i - 1))
          BY <1>1, <4>1
        <5>2. Val(BitsOf(f, i - 1)) \div 128 = BitsOf(f, i - 1)[8]
          BY <4>2, ValDiv
        <5> QED BY <5>1, <5>2, Zenon
      <4> QED BY <3>2, <4>3, <4>4
    <3> QED BY <3>1, <3>2
  <2>3. BitsOf(RowUp(n, f), i) = u
    <3>1. ASSUME NEW j \in 1..8 PROVE RowUp(n, f)[8 * (i - 1) + j] = IF j = 1 THEN t ELSE b[j - 1]
      <4>1. PICK e \in 1..(8 * n) : e = 8 * (i - 1) + j
        OBVIOUS
      <4>2. RowUp(n, f)[e] = IF e = 1 THEN 0 ELSE f[e - 1]
        BY <4>1 DEF RowUp
      <4>3. CASE j = 1
        <5>1. CASE i = 1
          BY <4>1, <4>2, <4>3, <5>1
        <5>2. CASE i # 1
          <6>1. e # 1 /\ e - 1 = 8 * (i - 1 - 1) + 8
            BY <4>1, <4>3, <5>2
          <6>2. t = f[8 * (i - 1 - 1) + 8]
            BY <5>2 DEF BitsOf
          <6> QED BY <4>1, <4>2, <4>3, <6>1, <6>2, Zenon
        <5> QED BY <5>1, <5>2
      <4>4. CASE j # 1
        <5>1. e # 1 /\ e - 1 = 8 * (i - 1) + (j - 1) /\ j - 1 \in 1..8
          BY <4>1, <4>4
        <5>2. b[j - 1] = f[8 * (i - 1) + (j - 1)]
          BY <5>1, Zenon DEF BitsOf
        <5> QED BY <4>1, <4>2, <4>4, <5>1, <5>2, Zenon
      <4> QED BY <4>3, <4>4
    <3> HIDE DEF t, b
    <3>2. [j \in 1..8 |-> RowUp(n, f)[8 * (i - 1) + j]] = u
      BY <3>1, Zenon
    <3> HIDE DEF u
    <3> QED BY <3>2, Zenon DEF BitsOf
  <2>4. ((Val(b) * 2) % 256) + t = Val(u)
    <3> HIDE DEF b, t
    <3> QED BY <2>1, <2>2, UpByte
  <2>5. Hashes!Shl(x, 1)[i] = ((x[i] * 2) % 256) + (IF i = 1 THEN 0 ELSE x[i - 1] \div 128)
    BY <1>a, Zenon
  <2>6. x[i] = Val(b) /\ z[i] = Val(BitsOf(RowUp(n, f), i))
    BY <1>1, Zenon
  <2> HIDE DEF b, t, u
  <2>7. Hashes!Shl(x, 1)[i] = ((x[i] * 2) % 256) + t
    BY <2>2, <2>5
  <2>8. Hashes!Shl(x, 1)[i] = ((Val(b) * 2) % 256) + t
    BY <2>6, <2>7, Zenon
  <2> QED BY <2>3, <2>4, <2>6, <2>8, Zenon
<1>3. Hashes!Shl(x, 1) \in WordOf(n)
  BY <1>1, ShlOne, Zenon
<1>4. Hashes!Shl(x, 1) = z
  BY <1>1, <1>2, <1>3, SameWord
<1> QED BY <1>4 DEF x, z

LEMMA ShrRow ==
    ASSUME NEW n \in Nat, NEW f \in Row(n)
    PROVE  Hashes!Shr(WordFrom(n, f), 1) = WordFrom(n, RowDown(n, f))
<1> DEFINE x == WordFrom(n, f)
           z == WordFrom(n, RowDown(n, f))
<1>1. /\ x \in WordOf(n) /\ \A i \in 1..n : x[i] = Val(BitsOf(f, i))
      /\ z \in WordOf(n) /\ \A i \in 1..n : z[i] = Val(BitsOf(RowDown(n, f), i))
  BY RowsType, WordFromType, Zenon
<1> HIDE DEF x, z
<1>a. \A i \in 1..n : Hashes!Shr(x, 1)[i] = (x[i] \div 2) + (IF i = n THEN 0 ELSE (x[i + 1] * 128) % 256)
  BY <1>1, ShrOne
<1>2. ASSUME NEW i \in 1..n PROVE Hashes!Shr(x, 1)[i] = z[i]
  <2> DEFINE b == BitsOf(f, i)
             t == IF i = n THEN 0 ELSE BitsOf(f, i + 1)[1]
             u == [j \in 1..8 |-> IF j = 8 THEN t ELSE b[j + 1]]
  <2>1. b \in Bits
    BY BitsOfType
  <2>2. t \in 0..1 /\ 128 * t = IF i = n THEN 0 ELSE (x[i + 1] * 128) % 256
    <3>1. CASE i = n
      BY <3>1
    <3>2. CASE i # n
      <4>1. i + 1 \in 1..n
        BY <3>2
      <4>2. BitsOf(f, i + 1) \in Bits
        BY <4>1, BitsOfType
      <4>3. BitsOf(f, i + 1)[1] \in 0..1
        BY <4>2 DEF Bits
      <4>4. (x[i + 1] * 128) % 256 = 128 * BitsOf(f, i + 1)[1]
        <5>1. x[i + 1] = Val(BitsOf(f, i + 1))
          BY <1>1, <4>1
        <5>2. (Val(BitsOf(f, i + 1)) * 128) % 256 = 128 * BitsOf(f, i + 1)[1]
          BY <4>2, LowBit
        <5> QED BY <5>1, <5>2, Zenon
      <4> QED BY <3>2, <4>3, <4>4
    <3> QED BY <3>1, <3>2
  <2>3. BitsOf(RowDown(n, f), i) = u
    <3>1. ASSUME NEW j \in 1..8 PROVE RowDown(n, f)[8 * (i - 1) + j] = IF j = 8 THEN t ELSE b[j + 1]
      <4>1. PICK e \in 1..(8 * n) : e = 8 * (i - 1) + j
        OBVIOUS
      <4>2. RowDown(n, f)[e] = IF e = 8 * n THEN 0 ELSE f[e + 1]
        BY <4>1 DEF RowDown
      <4>3. CASE j = 8
        <5>1. CASE i = n
          BY <4>1, <4>2, <4>3, <5>1
        <5>2. CASE i # n
          <6>1. e # 8 * n /\ e + 1 = 8 * (i + 1 - 1) + 1
            BY <4>1, <4>3, <5>2
          <6>2. t = f[8 * (i + 1 - 1) + 1]
            BY <5>2 DEF BitsOf
          <6> QED BY <4>1, <4>2, <4>3, <6>1, <6>2, Zenon
        <5> QED BY <5>1, <5>2
      <4>4. CASE j # 8
        <5>1. e # 8 * n /\ e + 1 = 8 * (i - 1) + (j + 1) /\ j + 1 \in 1..8
          BY <4>1, <4>4
        <5>2. b[j + 1] = f[8 * (i - 1) + (j + 1)]
          BY <5>1, Zenon DEF BitsOf
        <5> QED BY <4>1, <4>2, <4>4, <5>1, <5>2, Zenon
      <4> QED BY <4>3, <4>4
    <3> HIDE DEF t, b
    <3>2. [j \in 1..8 |-> RowDown(n, f)[8 * (i - 1) + j]] = u
      BY <3>1, Zenon
    <3> HIDE DEF u
    <3> QED BY <3>2, Zenon DEF BitsOf
  <2>4. (Val(b) \div 2) + (128 * t) = Val(u)
    <3> HIDE DEF b, t
    <3> QED BY <2>1, <2>2, DownByte
  <2>5. Hashes!Shr(x, 1)[i] = (x[i] \div 2) + (IF i = n THEN 0 ELSE (x[i + 1] * 128) % 256)
    BY <1>a, Zenon
  <2>6. x[i] = Val(b) /\ z[i] = Val(BitsOf(RowDown(n, f), i))
    BY <1>1, Zenon
  <2> HIDE DEF b, t, u
  <2>7. Hashes!Shr(x, 1)[i] = (x[i] \div 2) + (128 * t)
    BY <2>2, <2>5
  <2>8. Hashes!Shr(x, 1)[i] = (Val(b) \div 2) + (128 * t)
    BY <2>6, <2>7, Zenon
  <2> QED BY <2>3, <2>4, <2>6, <2>8, Zenon
<1>3. Hashes!Shr(x, 1) \in WordOf(n)
  BY <1>1, ShrOne, Zenon
<1>4. Hashes!Shr(x, 1) = z
  BY <1>1, <1>2, <1>3, SameWord
<1> QED BY <1>4 DEF x, z

(* A shift of an exclusive or is the exclusive or of the shifts.           *)
LEMMA SameRow ==
    ASSUME NEW n \in Nat, NEW f \in Row(n), NEW g \in Row(n), \A e \in 1..(8 * n) : f[e] = g[e]
    PROVE  f = g
<1>1. f = [e \in 1..(8 * n) |-> f[e]] /\ g = [e \in 1..(8 * n) |-> g[e]]
  BY DEF Row
<1>2. [e \in 1..(8 * n) |-> f[e]] = [e \in 1..(8 * n) |-> g[e]]
  BY Zenon
<1> QED BY <1>1, <1>2, Zenon

LEMMA ShlXor ==
    ASSUME NEW n \in Nat, NEW x \in WordOf(n), NEW y \in WordOf(n)
    PROVE  Hashes!Shl(Hashes!XorWord(x, y), 1) = Hashes!XorWord(Hashes!Shl(x, 1), Hashes!Shl(y, 1))
<1>1. PICK f \in Row(n) : x = WordFrom(n, f)
  BY WordHasRow
<1>2. PICK g \in Row(n) : y = WordFrom(n, g)
  BY WordHasRow
<1>3. RowXor(n, f, g) \in Row(n) /\ RowUp(n, f) \in Row(n) /\ RowUp(n, g) \in Row(n)
  BY RowsType
<1>4. RowUp(n, RowXor(n, f, g)) = RowXor(n, RowUp(n, f), RowUp(n, g))
  <2>1. ASSUME NEW e \in 1..(8 * n)
        PROVE  RowUp(n, RowXor(n, f, g))[e] = RowXor(n, RowUp(n, f), RowUp(n, g))[e]
    <3>1. /\ RowUp(n, RowXor(n, f, g))[e] = IF e = 1 THEN 0 ELSE RowXor(n, f, g)[e - 1]
          /\ RowUp(n, f)[e] = IF e = 1 THEN 0 ELSE f[e - 1]
          /\ RowUp(n, g)[e] = IF e = 1 THEN 0 ELSE g[e - 1]
      BY Zenon DEF RowUp
    <3>2. RowXor(n, RowUp(n, f), RowUp(n, g))[e] = (RowUp(n, f)[e] + RowUp(n, g)[e]) % 2
      BY Zenon DEF RowXor
    <3>3. CASE e = 1
      <4>1. (0 + 0) % 2 = 0
        OBVIOUS
      <4> QED BY <3>1, <3>2, <3>3, <4>1, Zenon
    <3>4. CASE ~(e = 1)
      <4>1. e - 1 \in 1..(8 * n)
        BY <3>4
      <4>2. RowXor(n, f, g)[e - 1] = (f[e - 1] + g[e - 1]) % 2
        BY <4>1, Zenon DEF RowXor
      <4> QED BY <3>1, <3>2, <3>4, <4>2, Zenon
    <3> QED BY <3>3, <3>4
  <2>2. RowXor(n, RowUp(n, f), RowUp(n, g)) \in Row(n) /\ RowUp(n, RowXor(n, f, g)) \in Row(n)
    BY <1>3, RowsType
  <2> QED BY <2>1, <2>2, SameRow
<1>5. /\ Hashes!Shl(WordFrom(n, f), 1) = WordFrom(n, RowUp(n, f))
      /\ Hashes!Shl(WordFrom(n, g), 1) = WordFrom(n, RowUp(n, g))
      /\ Hashes!Shl(WordFrom(n, RowXor(n, f, g)), 1) = WordFrom(n, RowUp(n, RowXor(n, f, g)))
  BY <1>3, ShlRow
<1>6. /\ Hashes!XorWord(WordFrom(n, f), WordFrom(n, g)) = WordFrom(n, RowXor(n, f, g))
      /\ Hashes!XorWord(WordFrom(n, RowUp(n, f)), WordFrom(n, RowUp(n, g)))
            = WordFrom(n, RowXor(n, RowUp(n, f), RowUp(n, g)))
  BY <1>3, XorRows
<1> QED BY <1>1, <1>2, <1>4, <1>5, <1>6, Zenon

LEMMA ShrXor ==
    ASSUME NEW n \in Nat, NEW x \in WordOf(n), NEW y \in WordOf(n)
    PROVE  Hashes!Shr(Hashes!XorWord(x, y), 1) = Hashes!XorWord(Hashes!Shr(x, 1), Hashes!Shr(y, 1))
<1>1. PICK f \in Row(n) : x = WordFrom(n, f)
  BY WordHasRow
<1>2. PICK g \in Row(n) : y = WordFrom(n, g)
  BY WordHasRow
<1>3. RowXor(n, f, g) \in Row(n) /\ RowDown(n, f) \in Row(n) /\ RowDown(n, g) \in Row(n)
  BY RowsType
<1>4. RowDown(n, RowXor(n, f, g)) = RowXor(n, RowDown(n, f), RowDown(n, g))
  <2>1. ASSUME NEW e \in 1..(8 * n)
        PROVE  RowDown(n, RowXor(n, f, g))[e] = RowXor(n, RowDown(n, f), RowDown(n, g))[e]
    <3>1. /\ RowDown(n, RowXor(n, f, g))[e] = IF e = 8 * n THEN 0 ELSE RowXor(n, f, g)[e + 1]
          /\ RowDown(n, f)[e] = IF e = 8 * n THEN 0 ELSE f[e + 1]
          /\ RowDown(n, g)[e] = IF e = 8 * n THEN 0 ELSE g[e + 1]
      BY Zenon DEF RowDown
    <3>2. RowXor(n, RowDown(n, f), RowDown(n, g))[e] = (RowDown(n, f)[e] + RowDown(n, g)[e]) % 2
      BY Zenon DEF RowXor
    <3>3. CASE e = 8 * n
      <4>1. (0 + 0) % 2 = 0
        OBVIOUS
      <4> QED BY <3>1, <3>2, <3>3, <4>1, Zenon
    <3>4. CASE ~(e = 8 * n)
      <4>1. e + 1 \in 1..(8 * n)
        BY <3>4
      <4>2. RowXor(n, f, g)[e + 1] = (f[e + 1] + g[e + 1]) % 2
        BY <4>1, Zenon DEF RowXor
      <4> QED BY <3>1, <3>2, <3>4, <4>2, Zenon
    <3> QED BY <3>3, <3>4
  <2>2. RowXor(n, RowDown(n, f), RowDown(n, g)) \in Row(n) /\ RowDown(n, RowXor(n, f, g)) \in Row(n)
    BY <1>3, RowsType
  <2> QED BY <2>1, <2>2, SameRow
<1>5. /\ Hashes!Shr(WordFrom(n, f), 1) = WordFrom(n, RowDown(n, f))
      /\ Hashes!Shr(WordFrom(n, g), 1) = WordFrom(n, RowDown(n, g))
      /\ Hashes!Shr(WordFrom(n, RowXor(n, f, g)), 1) = WordFrom(n, RowDown(n, RowXor(n, f, g)))
  BY <1>3, ShrRow
<1>6. /\ Hashes!XorWord(WordFrom(n, f), WordFrom(n, g)) = WordFrom(n, RowXor(n, f, g))
      /\ Hashes!XorWord(WordFrom(n, RowDown(n, f)), WordFrom(n, RowDown(n, g)))
            = WordFrom(n, RowXor(n, RowDown(n, f), RowDown(n, g)))
  BY <1>3, XorRows
<1> QED BY <1>1, <1>2, <1>4, <1>5, <1>6, Zenon

(* The bits that fall out at the two ends.                                 *)
LEMMA EndBits ==
    ASSUME NEW n \in Nat, n > 0, NEW f \in Row(n)
    PROVE  WordFrom(n, f)[n] \div 128 = f[8 * n] /\ WordFrom(n, f)[1] % 2 = f[1]
<1>1. n \in 1..n /\ 1 \in 1..n /\ 8 * (n - 1) + 8 = 8 * n /\ 8 * (1 - 1) + 1 = 1 /\ 8 \in 1..8 /\ 1 \in 1..8
  OBVIOUS
<1>2. BitsOf(f, n) \in Bits /\ BitsOf(f, 1) \in Bits
  BY <1>1, BitsOfType
<1>3. WordFrom(n, f)[n] = Val(BitsOf(f, n)) /\ WordFrom(n, f)[1] = Val(BitsOf(f, 1))
  BY <1>1, WordFromType
<1>4. Val(BitsOf(f, n)) \div 128 = BitsOf(f, n)[8]
  BY <1>2, ValDiv, Zenon
<1>5. Val(BitsOf(f, 1)) % 2 = BitsOf(f, 1)[1]
  BY <1>2, LowBit, Zenon
<1>6. BitsOf(f, n)[8] = f[8 * (n - 1) + 8] /\ BitsOf(f, 1)[1] = f[8 * (1 - 1) + 1]
  BY <1>1, Zenon DEF BitsOf
<1> QED BY <1>1, <1>3, <1>4, <1>5, <1>6, Zenon

LEMMA XorSwaps ==
    ASSUME NEW n \in Nat, NEW x \in WordOf(n), NEW y \in WordOf(n), NEW z \in WordOf(n)
    PROVE  Hashes!XorWord(Hashes!XorWord(x, y), z) = Hashes!XorWord(Hashes!XorWord(x, z), y)
<1>1. /\ Hashes!XorWord(x, y) \in WordOf(n) /\ Hashes!XorWord(x, z) \in WordOf(n)
      /\ \A i \in 1..n : /\ Hashes!XorWord(x, y)[i] = Hashes!XorByte(x[i], y[i])
                         /\ Hashes!XorWord(x, z)[i] = Hashes!XorByte(x[i], z[i])
  BY XorWordIs
<1>2. /\ Hashes!XorWord(Hashes!XorWord(x, y), z) \in WordOf(n)
      /\ Hashes!XorWord(Hashes!XorWord(x, z), y) \in WordOf(n)
      /\ \A i \in 1..n :
            /\ Hashes!XorWord(Hashes!XorWord(x, y), z)[i] = Hashes!XorByte(Hashes!XorWord(x, y)[i], z[i])
            /\ Hashes!XorWord(Hashes!XorWord(x, z), y)[i] = Hashes!XorByte(Hashes!XorWord(x, z)[i], y[i])
  <2> DEFINE u == Hashes!XorWord(x, y)
             v == Hashes!XorWord(x, z)
  <2>1. u \in WordOf(n) /\ v \in WordOf(n)
    BY <1>1
  <2> HIDE DEF u, v
  <2>2. /\ Hashes!XorWord(u, z) \in WordOf(n) /\ Hashes!XorWord(v, y) \in WordOf(n)
        /\ \A i \in 1..n : /\ Hashes!XorWord(u, z)[i] = Hashes!XorByte(u[i], z[i])
                           /\ Hashes!XorWord(v, y)[i] = Hashes!XorByte(v[i], y[i])
    BY <2>1, XorWordIs
  <2> QED BY <2>2 DEF u, v
<1>3. ASSUME NEW i \in 1..n
      PROVE  Hashes!XorByte(Hashes!XorByte(x[i], y[i]), z[i]) = Hashes!XorByte(Hashes!XorByte(x[i], z[i]), y[i])
  <2>1. x[i] \in Octet /\ y[i] \in Octet /\ z[i] \in Octet
    BY WordBytes
  <2>2. /\ Hashes!XorByte(Hashes!XorByte(x[i], y[i]), z[i]) = Hashes!XorByte(x[i], Hashes!XorByte(y[i], z[i]))
        /\ Hashes!XorByte(Hashes!XorByte(x[i], z[i]), y[i]) = Hashes!XorByte(x[i], Hashes!XorByte(z[i], y[i]))
    BY <2>1, XorAssociates
  <2>3. Hashes!XorByte(y[i], z[i]) = Hashes!XorByte(z[i], y[i])
    BY <2>1, XorCommutes
  <2> QED BY <2>2, <2>3, Zenon
<1>4. \A i \in 1..n : Hashes!XorWord(Hashes!XorWord(x, y), z)[i] = Hashes!XorWord(Hashes!XorWord(x, z), y)[i]
  BY <1>1, <1>2, <1>3, Zenon
<1> QED BY <1>2, <1>4, SameWord

(* One bit of the division, with the bit that the key brings in.           *)
Rest16(v, in) ==
    IF (v[2] \div 128) # in THEN Hashes!XorWord(Hashes!Shl(v, 1), Polynomial16) ELSE Hashes!Shl(v, 1)
Rest32(v, in) ==
    IF v[1] % 2 # in THEN Hashes!XorWord(Hashes!Shr(v, 1), Polynomial32) ELSE Hashes!Shr(v, 1)

LEMMA Rest16Type ==
    ASSUME NEW v \in WordOf(2), NEW in
    PROVE  Rest16(v, in) \in WordOf(2)
<1>1. Hashes!Shl(v, 1) \in WordOf(2)
  BY ShlOne
<1>2. Polynomial16 \in WordOf(2)
  BY DEF Polynomial16, WordOf, Octet
<1>3. Hashes!XorWord(Hashes!Shl(v, 1), Polynomial16) \in WordOf(2)
  BY <1>1, <1>2, XorWordIs
<1> QED BY <1>1, <1>3, Zenon DEF Rest16

LEMMA Linear16 ==
    ASSUME NEW z \in WordOf(2), NEW t \in WordOf(2)
    PROVE  Rest16(Hashes!XorWord(z, t), t[2] \div 128) = Hashes!XorWord(Rest16(z, 0), Hashes!Shl(t, 1))
<1>1. PICK f \in Row(2) : z = WordFrom(2, f)
  BY WordHasRow
<1>2. PICK g \in Row(2) : t = WordFrom(2, g)
  BY WordHasRow
<1>3. f[16] \in 0..1 /\ g[16] \in 0..1 /\ 16 \in 1..(8 * 2) /\ 2 > 0 /\ 8 * 2 = 16 /\ 2 \in Nat
  BY DEF Row
<1>4. z[2] \div 128 = f[16] /\ t[2] \div 128 = g[16]
  BY <1>1, <1>2, <1>3, EndBits, Zenon
<1>5. Hashes!XorWord(z, t)[2] \div 128 = (f[16] + g[16]) % 2
  <2>1. RowXor(2, f, g) \in Row(2)
    BY RowsType
  <2>2. Hashes!XorWord(z, t) = WordFrom(2, RowXor(2, f, g))
    BY <1>1, <1>2, XorRows
  <2>3. Hashes!XorWord(z, t)[2] \div 128 = RowXor(2, f, g)[16]
    <3>1. WordFrom(2, RowXor(2, f, g))[2] \div 128 = RowXor(2, f, g)[16]
      BY <1>3, <2>1, EndBits
    <3> QED BY <2>2, <3>1, Zenon
  <2>4. RowXor(2, f, g)[16] = (f[16] + g[16]) % 2
    BY <1>3, Zenon DEF RowXor
  <2> QED BY <2>3, <2>4, Zenon
<1>6. (f[16] + g[16]) % 2 # g[16] <=> f[16] # 0
  <2>1. \A a, b \in 0..1 : (a + b) % 2 # b <=> a # 0
    OBVIOUS
  <2> QED BY <1>3, <2>1, Zenon
<1>7. Hashes!XorWord(z, t)[2] \div 128 # (t[2] \div 128) <=> z[2] \div 128 # 0
  BY <1>4, <1>5, <1>6, Zenon
<1>8. Hashes!Shl(Hashes!XorWord(z, t), 1) = Hashes!XorWord(Hashes!Shl(z, 1), Hashes!Shl(t, 1))
  BY ShlXor
<1>9. /\ Hashes!Shl(z, 1) \in WordOf(2) /\ Hashes!Shl(t, 1) \in WordOf(2)
      /\ Polynomial16 \in WordOf(2)
  <2>1. Polynomial16 \in WordOf(2)
    BY DEF Polynomial16, WordOf, Octet
  <2> QED BY <2>1, ShlOne
<1>10. Hashes!XorWord(Hashes!XorWord(Hashes!Shl(z, 1), Hashes!Shl(t, 1)), Polynomial16)
         = Hashes!XorWord(Hashes!XorWord(Hashes!Shl(z, 1), Polynomial16), Hashes!Shl(t, 1))
  BY <1>9, XorSwaps
<1>11. CASE z[2] \div 128 # 0
  <2>1. Rest16(z, 0) = Hashes!XorWord(Hashes!Shl(z, 1), Polynomial16)
    BY <1>11, Zenon DEF Rest16
  <2>2. Rest16(Hashes!XorWord(z, t), t[2] \div 128)
          = Hashes!XorWord(Hashes!Shl(Hashes!XorWord(z, t), 1), Polynomial16)
    BY <1>7, <1>11, Zenon DEF Rest16
  <2> QED BY <1>8, <1>10, <2>1, <2>2, Zenon
<1>12. CASE z[2] \div 128 = 0
  <2>1. Rest16(z, 0) = Hashes!Shl(z, 1)
    BY <1>12, Zenon DEF Rest16
  <2>2. Rest16(Hashes!XorWord(z, t), t[2] \div 128) = Hashes!Shl(Hashes!XorWord(z, t), 1)
    BY <1>7, <1>12, Zenon DEF Rest16
  <2> QED BY <1>8, <2>1, <2>2, Zenon
<1> QED BY <1>11, <1>12

LEMMA Rest32Type ==
    ASSUME NEW v \in WordOf(4), NEW in
    PROVE  Rest32(v, in) \in WordOf(4)
<1>1. Hashes!Shr(v, 1) \in WordOf(4)
  BY ShrOne
<1>2. Polynomial32 \in WordOf(4)
  BY DEF Polynomial32, WordOf, Octet
<1>3. Hashes!XorWord(Hashes!Shr(v, 1), Polynomial32) \in WordOf(4)
  BY <1>1, <1>2, XorWordIs
<1> QED BY <1>1, <1>3, Zenon DEF Rest32

LEMMA Linear32 ==
    ASSUME NEW z \in WordOf(4), NEW t \in WordOf(4)
    PROVE  Rest32(Hashes!XorWord(z, t), t[1] % 2) = Hashes!XorWord(Rest32(z, 0), Hashes!Shr(t, 1))
<1>1. PICK f \in Row(4) : z = WordFrom(4, f)
  BY WordHasRow
<1>2. PICK g \in Row(4) : t = WordFrom(4, g)
  BY WordHasRow
<1>3. f[1] \in 0..1 /\ g[1] \in 0..1 /\ 1 \in 1..(8 * 4) /\ 4 > 0 /\ 8 * 4 = 32 /\ 4 \in Nat
  BY DEF Row
<1>4. z[1] % 2 = f[1] /\ t[1] % 2 = g[1]
  BY <1>1, <1>2, <1>3, EndBits, Zenon
<1>5. Hashes!XorWord(z, t)[1] % 2 = (f[1] + g[1]) % 2
  <2>1. RowXor(4, f, g) \in Row(4)
    BY RowsType
  <2>2. Hashes!XorWord(z, t) = WordFrom(4, RowXor(4, f, g))
    BY <1>1, <1>2, XorRows
  <2>3. Hashes!XorWord(z, t)[1] % 2 = RowXor(4, f, g)[1]
    <3>1. WordFrom(4, RowXor(4, f, g))[1] % 2 = RowXor(4, f, g)[1]
      BY <1>3, <2>1, EndBits
    <3> QED BY <2>2, <3>1, Zenon
  <2>4. RowXor(4, f, g)[1] = (f[1] + g[1]) % 2
    BY <1>3, Zenon DEF RowXor
  <2> QED BY <2>3, <2>4, Zenon
<1>6. (f[1] + g[1]) % 2 # g[1] <=> f[1] # 0
  <2>1. \A a, b \in 0..1 : (a + b) % 2 # b <=> a # 0
    OBVIOUS
  <2> QED BY <1>3, <2>1, Zenon
<1>7. Hashes!XorWord(z, t)[1] % 2 # (t[1] % 2) <=> z[1] % 2 # 0
  BY <1>4, <1>5, <1>6, Zenon
<1>8. Hashes!Shr(Hashes!XorWord(z, t), 1) = Hashes!XorWord(Hashes!Shr(z, 1), Hashes!Shr(t, 1))
  BY ShrXor
<1>9. /\ Hashes!Shr(z, 1) \in WordOf(4) /\ Hashes!Shr(t, 1) \in WordOf(4)
      /\ Polynomial32 \in WordOf(4)
  <2>1. Polynomial32 \in WordOf(4)
    BY DEF Polynomial32, WordOf, Octet
  <2> QED BY <2>1, ShrOne
<1>10. Hashes!XorWord(Hashes!XorWord(Hashes!Shr(z, 1), Hashes!Shr(t, 1)), Polynomial32)
         = Hashes!XorWord(Hashes!XorWord(Hashes!Shr(z, 1), Polynomial32), Hashes!Shr(t, 1))
  BY <1>9, XorSwaps
<1>11. CASE z[1] % 2 # 0
  <2>1. Rest32(z, 0) = Hashes!XorWord(Hashes!Shr(z, 1), Polynomial32)
    BY <1>11, Zenon DEF Rest32
  <2>2. Rest32(Hashes!XorWord(z, t), t[1] % 2)
          = Hashes!XorWord(Hashes!Shr(Hashes!XorWord(z, t), 1), Polynomial32)
    BY <1>7, <1>11, Zenon DEF Rest32
  <2> QED BY <1>8, <1>10, <2>1, <2>2, Zenon
<1>12. CASE z[1] % 2 = 0
  <2>1. Rest32(z, 0) = Hashes!Shr(z, 1)
    BY <1>12, Zenon DEF Rest32
  <2>2. Rest32(Hashes!XorWord(z, t), t[1] % 2) = Hashes!Shr(Hashes!XorWord(z, t), 1)
    BY <1>7, <1>12, Zenon DEF Rest32
  <2> QED BY <1>8, <2>1, <2>2, Zenon
<1> QED BY <1>11, <1>12

(* A bit of a byte, and what a byte is when it is xored twice.             *)
LEMMA BitIs ==
    ASSUME NEW b \in Bits, NEW i \in 1..8
    PROVE  Hashes!Bit(Val(b), i - 1) = b[i]
<1> DEFINE a == Val(b)
<1>1. PICK b1, b2, b3, b4, b5, b6, b7, b8 \in 0..1 :
        /\ b1 = b[1] /\ b2 = b[2] /\ b3 = b[3] /\ b4 = b[4]
        /\ b5 = b[5] /\ b6 = b[6] /\ b7 = b[7] /\ b8 = b[8]
  BY DEF Bits
<1>2. /\ a \div 1 = b1 + 2 * b2 + 4 * b3 + 8 * b4 + 16 * b5 + 32 * b6 + 64 * b7 + 128 * b8
      /\ a \div 2 = b2 + 2 * b3 + 4 * b4 + 8 * b5 + 16 * b6 + 32 * b7 + 64 * b8
      /\ a \div 4 = b3 + 2 * b4 + 4 * b5 + 8 * b6 + 16 * b7 + 32 * b8
      /\ a \div 8 = b4 + 2 * b5 + 4 * b6 + 8 * b7 + 16 * b8
      /\ a \div 16 = b5 + 2 * b6 + 4 * b7 + 8 * b8
      /\ a \div 32 = b6 + 2 * b7 + 4 * b8
      /\ a \div 64 = b7 + 2 * b8
      /\ a \div 128 = b8
  BY <1>1, ValDiv, Zenon
<1> HIDE DEF a
<1>3. /\ (a \div 1) % 2 = b[1]
      /\ (a \div 2) % 2 = b[2]
      /\ (a \div 4) % 2 = b[3]
      /\ (a \div 8) % 2 = b[4]
      /\ (a \div 16) % 2 = b[5]
      /\ (a \div 32) % 2 = b[6]
      /\ (a \div 64) % 2 = b[7]
      /\ (a \div 128) % 2 = b[8]
  <2>1. (a \div 1) % 2 = b[1]
    <3>1. PICK u \in Nat : u = b2 + 2 * b3 + 4 * b4 + 8 * b5 + 16 * b6 + 32 * b7 + 64 * b8
      OBVIOUS
    <3>2. b1 + 2 * b2 + 4 * b3 + 8 * b4 + 16 * b5 + 32 * b6 + 64 * b7 + 128 * b8 = 2 * u + b1
      BY <3>1
    <3>3. (2 * u + b1) % 2 = b1
      OBVIOUS
    <3> QED BY <1>1, <1>2, <3>2, <3>3, Zenon
  <2>2. (a \div 2) % 2 = b[2]
    <3>1. PICK u \in Nat : u = b3 + 2 * b4 + 4 * b5 + 8 * b6 + 16 * b7 + 32 * b8
      OBVIOUS
    <3>2. b2 + 2 * b3 + 4 * b4 + 8 * b5 + 16 * b6 + 32 * b7 + 64 * b8 = 2 * u + b2
      BY <3>1
    <3>3. (2 * u + b2) % 2 = b2
      OBVIOUS
    <3> QED BY <1>1, <1>2, <3>2, <3>3, Zenon
  <2>3. (a \div 4) % 2 = b[3]
    <3>1. PICK u \in Nat : u = b4 + 2 * b5 + 4 * b6 + 8 * b7 + 16 * b8
      OBVIOUS
    <3>2. b3 + 2 * b4 + 4 * b5 + 8 * b6 + 16 * b7 + 32 * b8 = 2 * u + b3
      BY <3>1
    <3>3. (2 * u + b3) % 2 = b3
      OBVIOUS
    <3> QED BY <1>1, <1>2, <3>2, <3>3, Zenon
  <2>4. (a \div 8) % 2 = b[4]
    <3>1. PICK u \in Nat : u = b5 + 2 * b6 + 4 * b7 + 8 * b8
      OBVIOUS
    <3>2. b4 + 2 * b5 + 4 * b6 + 8 * b7 + 16 * b8 = 2 * u + b4
      BY <3>1
    <3>3. (2 * u + b4) % 2 = b4
      OBVIOUS
    <3> QED BY <1>1, <1>2, <3>2, <3>3, Zenon
  <2>5. (a \div 16) % 2 = b[5]
    <3>1. PICK u \in Nat : u = b6 + 2 * b7 + 4 * b8
      OBVIOUS
    <3>2. b5 + 2 * b6 + 4 * b7 + 8 * b8 = 2 * u + b5
      BY <3>1
    <3>3. (2 * u + b5) % 2 = b5
      OBVIOUS
    <3> QED BY <1>1, <1>2, <3>2, <3>3, Zenon
  <2>6. (a \div 32) % 2 = b[6]
    <3>1. PICK u \in Nat : u = b7 + 2 * b8
      OBVIOUS
    <3>2. b6 + 2 * b7 + 4 * b8 = 2 * u + b6
      BY <3>1
    <3>3. (2 * u + b6) % 2 = b6
      OBVIOUS
    <3> QED BY <1>1, <1>2, <3>2, <3>3, Zenon
  <2>7. (a \div 64) % 2 = b[7]
    <3>1. PICK u \in Nat : u = b8
      OBVIOUS
    <3>2. b7 + 2 * b8 = 2 * u + b7
      BY <3>1
    <3>3. (2 * u + b7) % 2 = b7
      OBVIOUS
    <3> QED BY <1>1, <1>2, <3>2, <3>3, Zenon
  <2>8. (a \div 128) % 2 = b[8]
    <3>1. b8 % 2 = b8
      OBVIOUS
    <3> QED BY <1>1, <1>2, <3>1, Zenon
  <2> QED BY <2>1, <2>2, <2>3, <2>4, <2>5, <2>6, <2>7, <2>8
<1>4. /\ Hashes!Power2[(1 - 1) + 1] = 1
      /\ Hashes!Power2[(2 - 1) + 1] = 2
      /\ Hashes!Power2[(3 - 1) + 1] = 4
      /\ Hashes!Power2[(4 - 1) + 1] = 8
      /\ Hashes!Power2[(5 - 1) + 1] = 16
      /\ Hashes!Power2[(6 - 1) + 1] = 32
      /\ Hashes!Power2[(7 - 1) + 1] = 64
      /\ Hashes!Power2[(8 - 1) + 1] = 128
  BY DEF Hashes!Power2
<1>5. (a \div Hashes!Power2[(i - 1) + 1]) % 2 = b[i]
  <2>1. i \in {1, 2, 3, 4, 5, 6, 7, 8}
    OBVIOUS
  <2> DEFINE P(e) == (a \div Hashes!Power2[(e - 1) + 1]) % 2 = b[e]
  <2>2. P(1)
    BY <1>3, <1>4, Zenon
  <2>3. P(2)
    BY <1>3, <1>4, Zenon
  <2>4. P(3)
    BY <1>3, <1>4, Zenon
  <2>5. P(4)
    BY <1>3, <1>4, Zenon
  <2>6. P(5)
    BY <1>3, <1>4, Zenon
  <2>7. P(6)
    BY <1>3, <1>4, Zenon
  <2>8. P(7)
    BY <1>3, <1>4, Zenon
  <2>9. P(8)
    BY <1>3, <1>4, Zenon
  <2> HIDE DEF P
  <2>10. P(i)
    BY <2>1, <2>2, <2>3, <2>4, <2>5, <2>6, <2>7, <2>8, <2>9, Zenon
  <2> QED BY <2>10 DEF P
<1>6. Hashes!Bit(a, i - 1) = (a \div Hashes!Power2[(i - 1) + 1]) % 2
  BY Zenon DEF Hashes!Bit
<1>7. Hashes!Bit(a, i - 1) = b[i]
  BY <1>5, <1>6, Zenon
<1> QED BY <1>7 DEF a

LEMMA XorTwice ==
    ASSUME NEW a \in Octet, NEW b \in Octet
    PROVE  Hashes!XorByte(Hashes!XorByte(a, b), b) = a /\ Hashes!XorByte(0, a) = a
<1>0. 0 \in Octet
  BY DEF Octet
<1>1. PICK u \in Bits : b = Val(u)
  BY ByteIsVal
<1>2. Hashes!XorByte(b, b) = 0
  <2> DEFINE z == [i \in 1..8 |-> 0]
  <2>1. z \in Bits /\ 0 = Val(z)
    BY DEF Bits, Val
  <2>2. XorBits(u, u) = z
    <3>1. \A i \in 0..1 : (i + i) % 2 = 0
      OBVIOUS
    <3>2. \A i \in 1..8 : (u[i] + u[i]) % 2 = 0
      BY <3>1 DEF Bits
    <3> QED BY <3>2, Zenon DEF XorBits
  <2> HIDE DEF z
  <2> QED BY <1>1, <2>1, <2>2, XorVal, Zenon
<1>3. Hashes!XorByte(Hashes!XorByte(a, b), b) = Hashes!XorByte(a, Hashes!XorByte(b, b))
  BY XorAssociates
<1>4. Hashes!XorByte(a, 0) = a /\ Hashes!XorByte(0, a) = Hashes!XorByte(a, 0)
  BY <1>0, XorZero, XorCommutes
<1> QED BY <1>2, <1>3, <1>4, Zenon

(* Shifts of a row by any number of places.                                *)
RowUpBy(n, f, k0) == [e \in 1..(8 * n) |-> IF e <= k0 THEN 0 ELSE f[e - k0]]
RowDownBy(n, f, k0) == [e \in 1..(8 * n) |-> IF e + k0 > 8 * n THEN 0 ELSE f[e + k0]]

LEMMA RowUpByType ==
    ASSUME NEW n \in Nat, NEW f \in Row(n), NEW d \in Nat
    PROVE  RowUpBy(n, f, d) \in Row(n)
<1>1. \A e \in 1..(8 * n) : ~(e <= d) => e - d \in 1..(8 * n)
  OBVIOUS
<1>2. \A e \in 1..(8 * n) : f[e] \in 0..1
  BY DEF Row
<1>3. 0 \in 0..1
  OBVIOUS
<1>4. \A e \in 1..(8 * n) : (IF e <= d THEN 0 ELSE f[e - d]) \in 0..1
  BY <1>1, <1>2, <1>3, Zenon
<1> QED BY <1>4, Zenon DEF Row, RowUpBy

LEMMA RowUpByNext ==
    ASSUME NEW n \in Nat, NEW f \in Row(n), NEW d \in Nat
    PROVE  RowUp(n, RowUpBy(n, f, d)) = RowUpBy(n, f, d + 1) /\ RowUpBy(n, f, 0) = f
<1>1. ASSUME NEW e \in 1..(8 * n) PROVE RowUp(n, RowUpBy(n, f, d))[e] = RowUpBy(n, f, d + 1)[e]
  <2>1. RowUp(n, RowUpBy(n, f, d))[e] = IF e = 1 THEN 0 ELSE RowUpBy(n, f, d)[e - 1]
    BY Zenon DEF RowUp
  <2>2. RowUpBy(n, f, d + 1)[e] = IF e <= (d + 1) THEN 0 ELSE f[e - (d + 1)]
    BY Zenon DEF RowUpBy
  <2>3. CASE e = 1
    <3>1. e <= (d + 1)
      BY <2>3
    <3> QED BY <2>1, <2>2, <2>3, <3>1, Zenon
  <2>4. CASE ~(e = 1)
    <3>1. e - 1 \in 1..(8 * n) /\ (e - 1 <= d <=> e <= (d + 1)) /\ e - 1 - d = e - (d + 1)
      BY <2>4
    <3>2. RowUpBy(n, f, d)[e - 1] = IF e - 1 <= d THEN 0 ELSE f[e - 1 - d]
      BY <3>1, Zenon DEF RowUpBy
    <3> QED BY <2>1, <2>2, <2>4, <3>1, <3>2, Zenon
  <2> QED BY <2>3, <2>4
<1>2. ASSUME NEW e \in 1..(8 * n) PROVE RowUpBy(n, f, 0)[e] = f[e]
  <2>1. ~(e <= 0) /\ e - 0 = e
    OBVIOUS
  <2>2. RowUpBy(n, f, 0)[e] = IF e <= 0 THEN 0 ELSE f[e - 0]
    BY Zenon DEF RowUpBy
  <2> QED BY <2>1, <2>2, Zenon
<1>3. /\ RowUpBy(n, f, d) \in Row(n) /\ RowUpBy(n, f, d + 1) \in Row(n) /\ RowUpBy(n, f, 0) \in Row(n)
  <2>1. d + 1 \in Nat /\ 0 \in Nat
    OBVIOUS
  <2> QED BY <2>1, RowUpByType
<1>4. RowUp(n, RowUpBy(n, f, d)) \in Row(n)
  BY <1>3, RowsType
<1>5. RowUp(n, RowUpBy(n, f, d)) = RowUpBy(n, f, d + 1)
  BY <1>1, <1>3, <1>4, SameRow
<1>6. RowUpBy(n, f, 0) = f
  BY <1>2, <1>3, SameRow
<1> QED BY <1>5, <1>6

LEMMA RowUpByByte ==
    ASSUME NEW n \in Nat, NEW f \in Row(n), NEW i \in 1..n
    PROVE  WordFrom(n, RowUpBy(n, f, 8))[i] = IF i = 1 THEN 0 ELSE WordFrom(n, f)[i - 1]
<1> DEFINE g == RowUpBy(n, f, 8)
<1>0. g \in Row(n)
  <2>1. 8 \in Nat
    OBVIOUS
  <2> QED BY <2>1, RowUpByType
<1>1. \A j \in 1..8 : g[8 * (i - 1) + j] = IF 8 * (i - 1) + j <= 8 THEN 0 ELSE f[(8 * (i - 1) + j) - 8]
  <2>1. \A j \in 1..8 : 8 * (i - 1) + j \in 1..(8 * n)
    OBVIOUS
  <2> QED BY <2>1, Zenon DEF RowUpBy
<1> HIDE DEF g
<1>2. WordFrom(n, g)[i] = Val(BitsOf(g, i))
  BY <1>0, WordFromType
<1>3. CASE i = 1
  <2>1. \A j \in 1..8 : 8 * (i - 1) + j <= 8
    BY <1>3
  <2>2. \A j \in 1..8 : g[8 * (i - 1) + j] = 0
    BY <1>1, <2>1, Zenon
  <2>3. BitsOf(g, i) = [j \in 1..8 |-> 0]
    BY <2>2, Zenon DEF BitsOf
  <2>4. Val([j \in 1..8 |-> 0]) = 0
    BY DEF Val
  <2>5. WordFrom(n, g)[i] = 0
    BY <1>2, <2>3, <2>4, Zenon
  <2> QED BY <1>3, <2>5 DEF g
<1>4. CASE ~(i = 1)
  <2>1. i - 1 \in 1..n
    BY <1>4
  <2>2. \A j \in 1..8 : ~(8 * (i - 1) + j <= 8) /\ (8 * (i - 1) + j) - 8 = 8 * ((i - 1) - 1) + j
    BY <1>4
  <2>3. \A j \in 1..8 : g[8 * (i - 1) + j] = f[8 * ((i - 1) - 1) + j]
    BY <1>1, <2>2, Zenon
  <2>4. BitsOf(g, i) = BitsOf(f, i - 1)
    BY <2>3, Zenon DEF BitsOf
  <2>5. WordFrom(n, f)[i - 1] = Val(BitsOf(f, i - 1))
    BY <2>1, WordFromType
  <2>6. WordFrom(n, g)[i] = WordFrom(n, f)[i - 1]
    BY <1>2, <2>4, <2>5, Zenon
  <2> QED BY <1>4, <2>6 DEF g
<1> QED BY <1>3, <1>4

LEMMA RowDownByType ==
    ASSUME NEW n \in Nat, NEW f \in Row(n), NEW d \in Nat
    PROVE  RowDownBy(n, f, d) \in Row(n)
<1>1. \A e \in 1..(8 * n) : ~(e + d > 8 * n) => e + d \in 1..(8 * n)
  OBVIOUS
<1>2. \A e \in 1..(8 * n) : f[e] \in 0..1
  BY DEF Row
<1>3. 0 \in 0..1
  OBVIOUS
<1>4. \A e \in 1..(8 * n) : (IF e + d > 8 * n THEN 0 ELSE f[e + d]) \in 0..1
  BY <1>1, <1>2, <1>3, Zenon
<1> QED BY <1>4, Zenon DEF Row, RowDownBy

LEMMA RowDownByNext ==
    ASSUME NEW n \in Nat, NEW f \in Row(n), NEW d \in Nat
    PROVE  RowDown(n, RowDownBy(n, f, d)) = RowDownBy(n, f, d + 1) /\ RowDownBy(n, f, 0) = f
<1>1. ASSUME NEW e \in 1..(8 * n) PROVE RowDown(n, RowDownBy(n, f, d))[e] = RowDownBy(n, f, d + 1)[e]
  <2>1. RowDown(n, RowDownBy(n, f, d))[e] = IF e = 8 * n THEN 0 ELSE RowDownBy(n, f, d)[e + 1]
    BY Zenon DEF RowDown
  <2>2. RowDownBy(n, f, d + 1)[e] = IF e + (d + 1) > 8 * n THEN 0 ELSE f[e + (d + 1)]
    BY Zenon DEF RowDownBy
  <2>3. CASE e = 8 * n
    <3>1. e + (d + 1) > 8 * n
      BY <2>3
    <3> QED BY <2>1, <2>2, <2>3, <3>1, Zenon
  <2>4. CASE ~(e = 8 * n)
    <3>1. e + 1 \in 1..(8 * n) /\ (e + 1 + d > 8 * n <=> e + (d + 1) > 8 * n) /\ e + 1 + d = e + (d + 1)
      BY <2>4
    <3>2. RowDownBy(n, f, d)[e + 1] = IF e + 1 + d > 8 * n THEN 0 ELSE f[e + 1 + d]
      BY <3>1, Zenon DEF RowDownBy
    <3> QED BY <2>1, <2>2, <2>4, <3>1, <3>2, Zenon
  <2> QED BY <2>3, <2>4
<1>2. ASSUME NEW e \in 1..(8 * n) PROVE RowDownBy(n, f, 0)[e] = f[e]
  <2>1. ~(e + 0 > 8 * n) /\ e + 0 = e
    OBVIOUS
  <2>2. RowDownBy(n, f, 0)[e] = IF e + 0 > 8 * n THEN 0 ELSE f[e + 0]
    BY Zenon DEF RowDownBy
  <2> QED BY <2>1, <2>2, Zenon
<1>3. /\ RowDownBy(n, f, d) \in Row(n) /\ RowDownBy(n, f, d + 1) \in Row(n) /\ RowDownBy(n, f, 0) \in Row(n)
  <2>1. d + 1 \in Nat /\ 0 \in Nat
    OBVIOUS
  <2> QED BY <2>1, RowDownByType
<1>4. RowDown(n, RowDownBy(n, f, d)) \in Row(n)
  BY <1>3, RowsType
<1>5. RowDown(n, RowDownBy(n, f, d)) = RowDownBy(n, f, d + 1)
  BY <1>1, <1>3, <1>4, SameRow
<1>6. RowDownBy(n, f, 0) = f
  BY <1>2, <1>3, SameRow
<1> QED BY <1>5, <1>6

LEMMA RowDownByByte ==
    ASSUME NEW n \in Nat, NEW f \in Row(n), NEW i \in 1..n
    PROVE  WordFrom(n, RowDownBy(n, f, 8))[i] = IF i = n THEN 0 ELSE WordFrom(n, f)[i + 1]
<1> DEFINE g == RowDownBy(n, f, 8)
<1>0. g \in Row(n)
  <2>1. 8 \in Nat
    OBVIOUS
  <2> QED BY <2>1, RowDownByType
<1>1. \A j \in 1..8 : g[8 * (i - 1) + j] = IF 8 * (i - 1) + j + 8 > 8 * n THEN 0 ELSE f[(8 * (i - 1) + j) + 8]
  <2>1. \A j \in 1..8 : 8 * (i - 1) + j \in 1..(8 * n)
    OBVIOUS
  <2> QED BY <2>1, Zenon DEF RowDownBy
<1> HIDE DEF g
<1>2. WordFrom(n, g)[i] = Val(BitsOf(g, i))
  BY <1>0, WordFromType
<1>3. CASE i = n
  <2>1. \A j \in 1..8 : 8 * (i - 1) + j + 8 > 8 * n
    BY <1>3
  <2>2. \A j \in 1..8 : g[8 * (i - 1) + j] = 0
    BY <1>1, <2>1, Zenon
  <2>3. BitsOf(g, i) = [j \in 1..8 |-> 0]
    BY <2>2, Zenon DEF BitsOf
  <2>4. Val([j \in 1..8 |-> 0]) = 0
    BY DEF Val
  <2>5. WordFrom(n, g)[i] = 0
    BY <1>2, <2>3, <2>4, Zenon
  <2> QED BY <1>3, <2>5 DEF g
<1>4. CASE ~(i = n)
  <2>1. i + 1 \in 1..n
    BY <1>4
  <2>2. \A j \in 1..8 : ~(8 * (i - 1) + j + 8 > 8 * n) /\ (8 * (i - 1) + j) + 8 = 8 * ((i + 1) - 1) + j
    BY <1>4
  <2>3. \A j \in 1..8 : g[8 * (i - 1) + j] = f[8 * ((i + 1) - 1) + j]
    BY <1>1, <2>2, Zenon
  <2>4. BitsOf(g, i) = BitsOf(f, i + 1)
    BY <2>3, Zenon DEF BitsOf
  <2>5. WordFrom(n, f)[i + 1] = Val(BitsOf(f, i + 1))
    BY <2>1, WordFromType
  <2>6. WordFrom(n, g)[i] = WordFrom(n, f)[i + 1]
    BY <1>2, <2>4, <2>5, Zenon
  <2> QED BY <1>4, <2>6 DEF g
<1> QED BY <1>3, <1>4

(* Eight shifts by one bit are one by a byte, and the bits that fall out   *)
(* are those of the byte that leaves.                                      *)
LEMMA Shifts16 ==
    ASSUME NEW v \in WordOf(2)
    PROVE  \E t \in [0..8 -> WordOf(2)] :
              /\ t[0] = v
              /\ \A i \in 1..8 : t[i] = Hashes!Shl(t[i - 1], 1) /\ t[i - 1][2] \div 128 = Hashes!Bit(v[2], 8 - i)
              /\ \A j \in 1..2 : t[8][j] = IF j = 1 THEN 0 ELSE v[j - 1]
<1>0. 2 \in Nat /\ 2 > 0
  OBVIOUS
<1>1. PICK f \in Row(2) : v = WordFrom(2, f)
  BY <1>0, WordHasRow
<1> DEFINE t == [i \in 0..8 |-> WordFrom(2, RowUpBy(2, f, i))]
<1>2. \A i \in 0..8 : RowUpBy(2, f, i) \in Row(2)
  <2>1. \A i \in 0..8 : i \in Nat
    OBVIOUS
  <2> QED BY <1>0, <2>1, RowUpByType
<1>3. t \in [0..8 -> WordOf(2)] /\ \A i \in 0..8 : t[i] = WordFrom(2, RowUpBy(2, f, i))
  BY <1>0, <1>2, WordFromType
<1> HIDE DEF t
<1>4. t[0] = v
  <2>1. RowUpBy(2, f, 0) = f
    <3>1. 0 \in Nat
      OBVIOUS
    <3> QED BY <1>0, <3>1, RowUpByNext
  <2>2. 0 \in 0..8
    OBVIOUS
  <2> QED BY <1>1, <1>3, <2>1, <2>2, Zenon
<1>5. ASSUME NEW i \in 1..8 PROVE t[i] = Hashes!Shl(t[i - 1], 1) /\ t[i - 1][2] \div 128 = Hashes!Bit(v[2], 8 - i)
  <2>1. i \in 0..8 /\ i - 1 \in 0..8 /\ i - 1 \in Nat /\ (i - 1) + 1 = i
    OBVIOUS
  <2>2. RowUp(2, RowUpBy(2, f, i - 1)) = RowUpBy(2, f, (i - 1) + 1)
    BY <1>0, <2>1, RowUpByNext
  <2>3. Hashes!Shl(WordFrom(2, RowUpBy(2, f, i - 1)), 1) = WordFrom(2, RowUp(2, RowUpBy(2, f, i - 1)))
    BY <1>0, <1>2, <2>1, ShlRow
  <2>4. t[i] = Hashes!Shl(t[i - 1], 1)
    BY <1>3, <2>1, <2>2, <2>3, Zenon
  <2>5. 8 * 2 = 16 /\ 8 * 4 = 32
    OBVIOUS
  <2>6. WordFrom(2, RowUpBy(2, f, i - 1))[2] \div 128 = RowUpBy(2, f, i - 1)[16]
    BY <1>0, <1>2, <2>1, <2>5, EndBits, Zenon
  <2>7. /\ ~(16 <= i - 1) /\ 16 \in 1..(8 * 2) /\ 16 - (i - 1) = 8 * (2 - 1) + (9 - i)
        /\ 9 - i \in 1..8 /\ 2 \in 1..2
    OBVIOUS
  <2>8. RowUpBy(2, f, i - 1)[16] = f[8 * (2 - 1) + (9 - i)]
    <3>1. RowUpBy(2, f, i - 1)[16] = IF 16 <= i - 1 THEN 0 ELSE f[16 - (i - 1)]
      BY <2>7, Zenon DEF RowUpBy
    <3> QED BY <2>7, <3>1, Zenon
  <2>9. BitsOf(f, 2)[9 - i] = f[8 * (2 - 1) + (9 - i)]
    BY <2>7, Zenon DEF BitsOf
  <2>10. BitsOf(f, 2) \in Bits /\ v[2] = Val(BitsOf(f, 2))
    BY <1>0, <1>1, <2>7, BitsOfType, WordFromType
  <2>11. Hashes!Bit(Val(BitsOf(f, 2)), (9 - i) - 1) = BitsOf(f, 2)[9 - i]
    BY <2>7, <2>10, BitIs, Zenon
  <2>12. (9 - i) - 1 = 8 - i
    OBVIOUS
  <2>13. t[i - 1][2] \div 128 = Hashes!Bit(v[2], 8 - i)
    BY <1>3, <2>1, <2>6, <2>8, <2>9, <2>10, <2>11, <2>12, Zenon
  <2> QED BY <2>4, <2>13
<1>6. ASSUME NEW j \in 1..2 PROVE t[8][j] = IF j = 1 THEN 0 ELSE v[j - 1]
  <2>1. 8 \in 0..8
    OBVIOUS
  <2>2. WordFrom(2, RowUpBy(2, f, 8))[j] = IF j = 1 THEN 0 ELSE WordFrom(2, f)[j - 1]
    BY <1>0, RowUpByByte
  <2> QED BY <1>1, <1>3, <2>1, <2>2, Zenon
<1> QED BY <1>3, <1>4, <1>5, <1>6, Zenon

LEMMA Shifts32 ==
    ASSUME NEW v \in WordOf(4)
    PROVE  \E t \in [0..8 -> WordOf(4)] :
              /\ t[0] = v
              /\ \A i \in 1..8 : t[i] = Hashes!Shr(t[i - 1], 1) /\ t[i - 1][1] % 2 = Hashes!Bit(v[1], i - 1)
              /\ \A j \in 1..4 : t[8][j] = IF j = 4 THEN 0 ELSE v[j + 1]
<1>0. 4 \in Nat /\ 4 > 0
  OBVIOUS
<1>1. PICK f \in Row(4) : v = WordFrom(4, f)
  BY <1>0, WordHasRow
<1> DEFINE t == [i \in 0..8 |-> WordFrom(4, RowDownBy(4, f, i))]
<1>2. \A i \in 0..8 : RowDownBy(4, f, i) \in Row(4)
  <2>1. \A i \in 0..8 : i \in Nat
    OBVIOUS
  <2> QED BY <1>0, <2>1, RowDownByType
<1>3. t \in [0..8 -> WordOf(4)] /\ \A i \in 0..8 : t[i] = WordFrom(4, RowDownBy(4, f, i))
  BY <1>0, <1>2, WordFromType
<1> HIDE DEF t
<1>4. t[0] = v
  <2>1. RowDownBy(4, f, 0) = f
    <3>1. 0 \in Nat
      OBVIOUS
    <3> QED BY <1>0, <3>1, RowDownByNext
  <2>2. 0 \in 0..8
    OBVIOUS
  <2> QED BY <1>1, <1>3, <2>1, <2>2, Zenon
<1>5. ASSUME NEW i \in 1..8 PROVE t[i] = Hashes!Shr(t[i - 1], 1) /\ t[i - 1][1] % 2 = Hashes!Bit(v[1], i - 1)
  <2>1. i \in 0..8 /\ i - 1 \in 0..8 /\ i - 1 \in Nat /\ (i - 1) + 1 = i
    OBVIOUS
  <2>2. RowDown(4, RowDownBy(4, f, i - 1)) = RowDownBy(4, f, (i - 1) + 1)
    BY <1>0, <2>1, RowDownByNext
  <2>3. Hashes!Shr(WordFrom(4, RowDownBy(4, f, i - 1)), 1) = WordFrom(4, RowDown(4, RowDownBy(4, f, i - 1)))
    BY <1>0, <1>2, <2>1, ShrRow
  <2>4. t[i] = Hashes!Shr(t[i - 1], 1)
    BY <1>3, <2>1, <2>2, <2>3, Zenon
  <2>5. 8 * 2 = 16 /\ 8 * 4 = 32
    OBVIOUS
  <2>6. WordFrom(4, RowDownBy(4, f, i - 1))[1] % 2 = RowDownBy(4, f, i - 1)[1]
    BY <1>0, <1>2, <2>1, <2>5, EndBits, Zenon
  <2>7. /\ ~(1 + (i - 1) > 8 * 4) /\ 1 \in 1..(8 * 4) /\ 1 + (i - 1) = 8 * (1 - 1) + i
        /\ i \in 1..8 /\ 1 \in 1..4
    OBVIOUS
  <2>8. RowDownBy(4, f, i - 1)[1] = f[8 * (1 - 1) + i]
    <3>1. RowDownBy(4, f, i - 1)[1] = IF 1 + (i - 1) > 8 * 4 THEN 0 ELSE f[1 + (i - 1)]
      BY <2>7, Zenon DEF RowDownBy
    <3> QED BY <2>7, <3>1, Zenon
  <2>9. BitsOf(f, 1)[i] = f[8 * (1 - 1) + i]
    BY <2>7, Zenon DEF BitsOf
  <2>10. BitsOf(f, 1) \in Bits /\ v[1] = Val(BitsOf(f, 1))
    BY <1>0, <1>1, <2>7, BitsOfType, WordFromType
  <2>11. Hashes!Bit(Val(BitsOf(f, 1)), i - 1) = BitsOf(f, 1)[i]
    BY <2>7, <2>10, BitIs, Zenon
  <2>12. (9 - i) - 1 = 8 - i
    OBVIOUS
  <2>13. t[i - 1][1] % 2 = Hashes!Bit(v[1], i - 1)
    BY <1>3, <2>1, <2>6, <2>8, <2>9, <2>10, <2>11, <2>12, Zenon
  <2> QED BY <2>4, <2>13
<1>6. ASSUME NEW j \in 1..4 PROVE t[8][j] = IF j = 4 THEN 0 ELSE v[j + 1]
  <2>1. 8 \in 0..8
    OBVIOUS
  <2>2. WordFrom(4, RowDownBy(4, f, 8))[j] = IF j = 4 THEN 0 ELSE WordFrom(4, f)[j + 1]
    BY <1>0, RowDownByByte
  <2> QED BY <1>1, <1>3, <2>1, <2>2, Zenon
<1> QED BY <1>3, <1>4, <1>5, <1>6, Zenon

(* An entry of a table: the byte, divided.                                 *)
LEMMA Divided16Low ==
    ASSUME NEW r \in WordOf(4)
    PROVE  Hashes!Cast(Divided16(r), 2) = Rest16(Hashes!Cast(r, 2), 0)
<1> DEFINE u == Hashes!Cast(r, 2)
           w == Hashes!Cast(Hashes!Shl(r, 1), 2)
           q == <<\h21, \h10, 0, 0>>
<1>0. 2 \in 0..4 /\ 4 \in Nat /\ 2 \in Nat
  OBVIOUS
<1>1. u \in WordOf(2) /\ \A i \in 1..2 : u[i] = r[i]
  BY <1>0, CastBytes
<1>2. /\ Hashes!Shl(r, 1) \in WordOf(4)
      /\ \A i \in 1..4 : Hashes!Shl(r, 1)[i] = ((r[i] * 2) % 256) + (IF i = 1 THEN 0 ELSE r[i - 1] \div 128)
  BY <1>0, ShlOne
<1>3. w \in WordOf(2) /\ \A i \in 1..2 : w[i] = Hashes!Shl(r, 1)[i]
  BY <1>0, <1>2, CastBytes
<1>4. q \in WordOf(4) /\ Hashes!Cast(q, 2) = Polynomial16
  <2>1. q \in WordOf(4)
    BY DEF WordOf, Octet
  <2>2. q[1] = Polynomial16[1] /\ q[2] = Polynomial16[2] /\ Polynomial16 \in WordOf(2)
    BY DEF Polynomial16, WordOf, Octet
  <2> HIDE DEF q
  <2>3. Hashes!Cast(q, 2) \in WordOf(2) /\ \A i \in 1..2 : Hashes!Cast(q, 2)[i] = q[i]
    BY <1>0, <2>1, CastBytes
  <2>4. \A i \in 1..2 : i = 1 \/ i = 2
    OBVIOUS
  <2>5. \A i \in 1..2 : Hashes!Cast(q, 2)[i] = Polynomial16[i]
    BY <2>2, <2>3, <2>4, Zenon
  <2> QED BY <1>0, <2>1, <2>2, <2>3, <2>5, SameWord
<1> HIDE DEF u, q
<1>5. w = Hashes!Shl(u, 1)
  <2> HIDE DEF w
  <2>1. /\ Hashes!Shl(u, 1) \in WordOf(2)
        /\ \A i \in 1..2 : Hashes!Shl(u, 1)[i] = ((u[i] * 2) % 256) + (IF i = 1 THEN 0 ELSE u[i - 1] \div 128)
    BY <1>0, <1>1, ShlOne
  <2>2. ASSUME NEW i \in 1..2 PROVE w[i] = Hashes!Shl(u, 1)[i]
    <3>1. i \in 1..4 /\ (i # 1 => i - 1 \in 1..2)
      OBVIOUS
    <3>2. u[i] = r[i] /\ (i # 1 => u[i - 1] = r[i - 1])
      BY <1>1, <3>1, Zenon
    <3>3. w[i] = ((r[i] * 2) % 256) + (IF i = 1 THEN 0 ELSE r[i - 1] \div 128)
      <4>1. w[i] = Hashes!Shl(r, 1)[i]
        BY <1>3, Zenon
      <4>2. Hashes!Shl(r, 1)[i] = ((r[i] * 2) % 256) + (IF i = 1 THEN 0 ELSE r[i - 1] \div 128)
        BY <1>2, <3>1, Zenon
      <4> QED BY <4>1, <4>2, Zenon
    <3>4. Hashes!Shl(u, 1)[i] = ((u[i] * 2) % 256) + (IF i = 1 THEN 0 ELSE u[i - 1] \div 128)
      BY <2>1, Zenon
    <3>5. CASE i = 1
      BY <3>2, <3>3, <3>4, <3>5, Zenon
    <3>6. CASE i # 1
      BY <3>2, <3>3, <3>4, <3>6, Zenon
    <3> QED BY <3>5, <3>6
  <2> QED BY <1>0, <1>3, <2>1, <2>2, SameWord
<1>6. w \o <<0, 0>> \in WordOf(4) /\ Hashes!Cast(w \o <<0, 0>>, 2) = w
  <2> HIDE DEF w
  <2>1. w \o <<0, 0>> = <<w[1], w[2], 0, 0>> /\ w \o <<0, 0>> \in WordOf(4)
    BY <1>3, WidenedIs
  <2>2. /\ Hashes!Cast(w \o <<0, 0>>, 2) \in WordOf(2)
        /\ \A i \in 1..2 : Hashes!Cast(w \o <<0, 0>>, 2)[i] = (w \o <<0, 0>>)[i]
    BY <1>0, <2>1, CastBytes
  <2>3. \A i \in 1..2 : <<w[1], w[2], 0, 0>>[i] = w[i]
    OBVIOUS
  <2>4. \A i \in 1..2 : Hashes!Cast(w \o <<0, 0>>, 2)[i] = w[i]
    BY <2>1, <2>2, <2>3, Zenon
  <2> QED BY <1>0, <1>3, <2>1, <2>2, <2>4, SameWord
<1>7. Hashes!Cast(Hashes!XorWord(w \o <<0, 0>>, q), 2) = Hashes!XorWord(Hashes!Shl(u, 1), Polynomial16)
  <2> HIDE DEF w
  <2>1. Hashes!Cast(Hashes!XorWord(w \o <<0, 0>>, q), 2)
          = Hashes!XorWord(Hashes!Cast(w \o <<0, 0>>, 2), Hashes!Cast(q, 2))
    BY <1>0, <1>4, <1>6, CastXor
  <2> QED BY <1>4, <1>5, <1>6, <2>1, Zenon
<1>8. r[2] >= 128 <=> u[2] \div 128 # 0
  <2>1. \A a \in Octet : a >= 128 <=> a \div 128 # 0
    BY DEF Octet
  <2>2. u[2] = r[2] /\ r[2] \in Octet
    BY <1>0, <1>1, WordBytes
  <2> QED BY <2>1, <2>2, Zenon
<1>9. CASE r[2] >= 128
  <2>1. Divided16(r) = Hashes!XorWord(w \o <<0, 0>>, q)
    BY <1>9, Zenon DEF Divided16, q
  <2>2. Rest16(u, 0) = Hashes!XorWord(Hashes!Shl(u, 1), Polynomial16)
    BY <1>8, <1>9, Zenon DEF Rest16
  <2> HIDE DEF w
  <2>3. Hashes!Cast(Divided16(r), 2) = Rest16(u, 0)
    BY <1>7, <2>1, <2>2, Zenon
  <2> QED BY <2>3 DEF u
<1>10. CASE ~(r[2] >= 128)
  <2>1. Divided16(r) = w \o <<0, 0>>
    BY <1>10, Zenon DEF Divided16
  <2>2. Rest16(u, 0) = Hashes!Shl(u, 1)
    BY <1>8, <1>10, Zenon DEF Rest16
  <2> HIDE DEF w
  <2>3. Hashes!Cast(Divided16(r), 2) = Rest16(u, 0)
    BY <1>5, <1>6, <2>1, <2>2, Zenon
  <2> QED BY <2>3 DEF u
<1> QED BY <1>9, <1>10

LEMMA Entry16 ==
    ASSUME NEW b \in Octet
    PROVE  \E z \in [0..8 -> WordOf(2)] :
              /\ z[0] = <<0, b>> /\ \A i \in 1..8 : z[i] = Rest16(z[i - 1], 0)
              /\ Hashes!Cast(Hashes!crc16tab[b], 2) = z[8]
<1>1. PICK r \in [0..8 -> WordOf(4)] :
        /\ r[0] = <<0, b, 0, 0>> /\ \A i \in 1..8 : r[i] = Divided16(r[i - 1])
        /\ Hashes!crc16tab[b] = r[8]
  BY Table16Def
<1> DEFINE z == [i \in 0..8 |-> Hashes!Cast(r[i], 2)]
<1>2. \A i \in 0..8 : r[i] \in WordOf(4)
  BY <1>1
<1>3. z \in [0..8 -> WordOf(2)] /\ \A i \in 0..8 : z[i] = Hashes!Cast(r[i], 2)
  <2>1. 2 \in 0..4 /\ 4 \in Nat
    OBVIOUS
  <2>2. \A i \in 0..8 : Hashes!Cast(r[i], 2) \in WordOf(2)
    BY <1>2, <2>1, CastBytes
  <2> QED BY <2>2, Zenon
<1> HIDE DEF z
<1>4. z[0] = <<0, b>>
  <2>0. 0 \in Octet
    BY DEF Octet
  <2>1. <<0, b, 0, 0>> \in WordOf(4) /\ <<0, b>> \in WordOf(2)
    BY <2>0, FourBytes, TwoBytes
  <2>2. 2 \in 0..4 /\ 4 \in Nat /\ 2 \in Nat /\ 0 \in 0..8
    OBVIOUS
  <2>3. /\ Hashes!Cast(<<0, b, 0, 0>>, 2) \in WordOf(2)
        /\ \A i \in 1..2 : Hashes!Cast(<<0, b, 0, 0>>, 2)[i] = <<0, b, 0, 0>>[i]
    BY <2>1, <2>2, CastBytes
  <2>4. \A i \in 1..2 : <<0, b, 0, 0>>[i] = <<0, b>>[i]
    OBVIOUS
  <2>5. \A i \in 1..2 : Hashes!Cast(<<0, b, 0, 0>>, 2)[i] = <<0, b>>[i]
    BY <2>3, <2>4, Zenon
  <2>6. Hashes!Cast(<<0, b, 0, 0>>, 2) = <<0, b>>
    BY <2>1, <2>2, <2>3, <2>5, SameWord, Zenon
  <2> QED BY <1>1, <1>3, <2>2, <2>6, Zenon
<1>5. ASSUME NEW i \in 1..8 PROVE z[i] = Rest16(z[i - 1], 0)
  <2>1. i \in 0..8 /\ i - 1 \in 0..8
    OBVIOUS
  <2>2. Hashes!Cast(Divided16(r[i - 1]), 2) = Rest16(Hashes!Cast(r[i - 1], 2), 0)
    BY <1>2, <2>1, Divided16Low
  <2> QED BY <1>1, <1>3, <2>1, <2>2, Zenon
<1>6. 8 \in 0..8
  OBVIOUS
<1> QED BY <1>1, <1>3, <1>4, <1>5, <1>6, Zenon

LEMMA Entry32 ==
    ASSUME NEW b \in Octet
    PROVE  \E z \in [0..8 -> WordOf(4)] :
              /\ z[0] = <<b, 0, 0, 0>> /\ \A i \in 1..8 : z[i] = Rest32(z[i - 1], 0)
              /\ Hashes!crc32tab[b] = z[8]
<1>1. PICK r \in [0..8 -> WordOf(4)] :
        /\ r[0] = <<b, 0, 0, 0>> /\ \A i \in 1..8 : r[i] = Divided32(r[i - 1])
        /\ Hashes!crc32tab[b] = r[8]
  BY Table32Def
<1>2. ASSUME NEW v \in WordOf(4) PROVE Divided32(v) = Rest32(v, 0)
  <2>1. v[1] \in Octet
    <3>1. 4 \in Nat /\ 1 \in 1..4
      OBVIOUS
    <3> QED BY <3>1, WordBytes
  <2>2. \A a \in Octet : a % 2 = 1 <=> a % 2 # 0
    BY DEF Octet
  <2>3. v[1] % 2 = 1 <=> v[1] % 2 # 0
    BY <2>1, <2>2, Zenon
  <2> QED BY <2>3, Zenon DEF Divided32, Rest32
<1>3. ASSUME NEW i \in 1..8 PROVE r[i] = Rest32(r[i - 1], 0)
  <2>1. i - 1 \in 0..8
    OBVIOUS
  <2>2. r[i - 1] \in WordOf(4)
    BY <1>1, <2>1
  <2> QED BY <1>1, <1>2, <2>2, Zenon
<1> QED BY <1>1, <1>3, Zenon

LEMMA WordsCommute ==
    ASSUME NEW n \in Nat, NEW x \in WordOf(n), NEW y \in WordOf(n)
    PROVE  Hashes!XorWord(x, y) = Hashes!XorWord(y, x)
<1>1. /\ Hashes!XorWord(x, y) = [i \in 1..n |-> Hashes!XorByte(x[i], y[i])]
      /\ Hashes!XorWord(y, x) = [i \in 1..n |-> Hashes!XorByte(y[i], x[i])]
  BY XorWordIs
<1>2. \A i \in 1..n : Hashes!XorByte(x[i], y[i]) = Hashes!XorByte(y[i], x[i])
  BY WordBytes, XorCommutes
<1>3. [i \in 1..n |-> Hashes!XorByte(x[i], y[i])] = [i \in 1..n |-> Hashes!XorByte(y[i], x[i])]
  BY <1>2, Zenon
<1> QED BY <1>1, <1>3, Zenon

(* Looking the byte up in the table takes the eight steps at once.         *)
LEMMA EightSteps16 ==
    ASSUME NEW v \in WordOf(2), NEW b \in Octet, NEW c \in [0..8 -> WordOf(2)],
           c[0] = v, \A i \in 1..8 : c[i] = Rest16(c[i - 1], Hashes!Bit(b, 8 - i))
    PROVE  c[8] = Hashes!XorWord(<<0, v[1]>>, Hashes!Cast(Hashes!crc16tab[Hashes!XorByte(v[2], b)], 2))
<1> DEFINE x == Hashes!XorByte(v[2], b)
           w == <<v[1], b>>
<1>0. 2 \in Nat /\ 1 \in 1..2 /\ 2 \in 1..2
  OBVIOUS
<1>1. v[1] \in Octet /\ v[2] \in Octet
  BY <1>0, WordBytes
<1>2. x \in Octet /\ w \in WordOf(2) /\ <<0, x>> \in WordOf(2) /\ 0 \in Octet
  <2>1. 0 \in Octet
    BY DEF Octet
  <2>2. x \in Octet
    BY <1>1, XorByteType
  <2> QED BY <1>1, <2>1, <2>2, TwoBytes, FourBytes
<1>3. Hashes!XorWord(<<0, x>>, w) = v
  <2> HIDE DEF x
  <2>1. /\ Hashes!XorWord(<<0, x>>, w) \in WordOf(2)
        /\ \A i \in 1..2 : Hashes!XorWord(<<0, x>>, w)[i] = Hashes!XorByte(<<0, x>>[i], w[i])
    <3> HIDE DEF w
    <3> QED BY <1>0, <1>2, XorWordIs
  <2>2. <<0, x>>[1] = 0 /\ <<0, x>>[2] = x /\ w[1] = v[1] /\ w[2] = b
    OBVIOUS
  <2> HIDE DEF w
  <2>3. Hashes!XorByte(0, v[1]) = v[1] /\ Hashes!XorByte(x, b) = v[2]
    BY <1>1, XorTwice DEF x
  <2>4. \A i \in 1..2 : i = 1 \/ i = 2
    OBVIOUS
  <2> DEFINE y == Hashes!XorWord(<<0, x>>, w)
  <2>5. \A i \in 1..2 : y[i] = v[i]
    <3>1. y[1] = v[1]
      BY <1>0, <2>1, <2>2, <2>3, Zenon
    <3>2. y[2] = v[2]
      BY <1>0, <2>1, <2>2, <2>3, Zenon
    <3> HIDE DEF y
    <3> QED BY <2>4, <3>1, <3>2, Zenon
  <2>6. y \in WordOf(2)
    BY <2>1, Zenon
  <2> HIDE DEF y
  <2>7. y = v
    BY <1>0, <2>5, <2>6, SameWord
  <2> QED BY <2>7 DEF y
<1>4. PICK z \in [0..8 -> WordOf(2)] :
        /\ z[0] = <<0, x>> /\ \A i \in 1..8 : z[i] = Rest16(z[i - 1], 0)
        /\ Hashes!Cast(Hashes!crc16tab[x], 2) = z[8]
  <2> HIDE DEF x
  <2> QED BY <1>2, Entry16
<1>5. PICK t \in [0..8 -> WordOf(2)] :
        /\ t[0] = w
        /\ \A i \in 1..8 : t[i] = Hashes!Shl(t[i - 1], 1) /\ t[i - 1][2] \div 128 = Hashes!Bit(w[2], 8 - i)
        /\ \A j \in 1..2 : t[8][j] = IF j = 1 THEN 0 ELSE w[j - 1]
  <2> HIDE DEF w
  <2> QED BY <1>2, Shifts16
<1>6. w[2] = b
  OBVIOUS
<1> DEFINE T == {i \in 0..8 : c[i] = Hashes!XorWord(z[i], t[i])}
<1>7. 0 \in T
  <2> HIDE DEF x, w
  <2>1. 0 \in 0..8
    OBVIOUS
  <2> QED BY <1>3, <1>4, <1>5, <2>1, Zenon
<1>8. ASSUME NEW i \in 1..8, i - 1 \in T PROVE i \in T
  <2> HIDE DEF x, w
  <2>1. i \in 0..8 /\ i - 1 \in 0..8
    OBVIOUS
  <2>2. z[i - 1] \in WordOf(2) /\ t[i - 1] \in WordOf(2)
    BY <1>4, <1>5, <2>1
  <2>3. Rest16(Hashes!XorWord(z[i - 1], t[i - 1]), t[i - 1][2] \div 128)
          = Hashes!XorWord(Rest16(z[i - 1], 0), Hashes!Shl(t[i - 1], 1))
    BY <2>2, Linear16
  <2>4. c[i - 1] = Hashes!XorWord(z[i - 1], t[i - 1])
    BY <1>8
  <2>5. t[i - 1][2] \div 128 = Hashes!Bit(b, 8 - i)
    BY <1>5, <1>6, Zenon
  <2>6. c[i] = Hashes!XorWord(z[i], t[i])
    <3>1. c[i] = Rest16(c[i - 1], Hashes!Bit(b, 8 - i))
      OBVIOUS
    <3>2. c[i] = Rest16(Hashes!XorWord(z[i - 1], t[i - 1]), t[i - 1][2] \div 128)
      BY <2>4, <2>5, <3>1, Zenon
    <3>3. z[i] = Rest16(z[i - 1], 0)
      BY <1>4, Zenon
    <3>4. t[i] = Hashes!Shl(t[i - 1], 1)
      BY <1>5, Zenon
    <3> QED BY <2>3, <3>2, <3>3, <3>4, Zenon
  <2> QED BY <2>1, <2>6
<1>9. c[8] = Hashes!XorWord(z[8], t[8])
  <2> HIDE DEF T
  <2>1. \A i \in 0..8 : i \in T
    BY <1>7, <1>8, InductionTo, 8 \in Nat
  <2>2. 8 \in 0..8
    OBVIOUS
  <2>3. 8 \in T
    BY <2>1, <2>2, Zenon
  <2> QED BY <2>3 DEF T
<1>10. t[8] \in WordOf(2) /\ z[8] \in WordOf(2)
  <2> HIDE DEF T, x, w
  <2>1. 8 \in 0..8
    OBVIOUS
  <2> QED BY <1>4, <1>5, <2>1
<1>11. t[8] = <<0, v[1]>>
  <2>1. <<0, v[1]>> \in WordOf(2)
    BY <1>1, <1>2, TwoBytes
  <2>2. \A j \in 1..2 : (IF j = 1 THEN 0 ELSE w[j - 1]) = <<0, v[1]>>[j]
    OBVIOUS
  <2> HIDE DEF T, x, w
  <2>3. \A j \in 1..2 : t[8][j] = <<0, v[1]>>[j]
    BY <1>5, <2>2, Zenon
  <2> QED BY <1>0, <1>10, <2>1, <2>3, SameWord
<1>12. c[8] = Hashes!XorWord(t[8], z[8])
  <2> HIDE DEF T, x, w
  <2> QED BY <1>0, <1>9, <1>10, WordsCommute
<1> HIDE DEF T, w
<1>13. c[8] = Hashes!XorWord(<<0, v[1]>>, Hashes!Cast(Hashes!crc16tab[x], 2))
  <2> HIDE DEF x
  <2> QED BY <1>4, <1>11, <1>12, Zenon
<1> QED BY <1>13 DEF x

LEMMA EightSteps32 ==
    ASSUME NEW v \in WordOf(4), NEW b \in Octet, NEW c \in [0..8 -> WordOf(4)],
           c[0] = v, \A i \in 1..8 : c[i] = Rest32(c[i - 1], Hashes!Bit(b, i - 1))
    PROVE  c[8] = Hashes!XorWord(Hashes!Shr(v, 8), Hashes!crc32tab[Hashes!XorByte(v[1], b)])
<1> DEFINE x == Hashes!XorByte(v[1], b)
           w == <<b, v[2], v[3], v[4]>>
<1>0. 4 \in Nat /\ 1 \in 1..4 /\ 2 \in 1..4 /\ 3 \in 1..4 /\ 4 \in 1..4
  OBVIOUS
<1>1. v[1] \in Octet /\ v[2] \in Octet /\ v[3] \in Octet /\ v[4] \in Octet
  BY <1>0, WordBytes
<1>2. x \in Octet /\ w \in WordOf(4) /\ <<x, 0, 0, 0>> \in WordOf(4) /\ 0 \in Octet
  <2>1. 0 \in Octet
    BY DEF Octet
  <2>2. x \in Octet
    BY <1>1, XorByteType
  <2> QED BY <1>1, <2>1, <2>2, TwoBytes, FourBytes
<1>3. Hashes!XorWord(<<x, 0, 0, 0>>, w) = v
  <2> HIDE DEF x
  <2>1. /\ Hashes!XorWord(<<x, 0, 0, 0>>, w) \in WordOf(4)
        /\ \A i \in 1..4 : Hashes!XorWord(<<x, 0, 0, 0>>, w)[i] = Hashes!XorByte(<<x, 0, 0, 0>>[i], w[i])
    <3> HIDE DEF w
    <3> QED BY <1>0, <1>2, XorWordIs
  <2>2. /\ <<x, 0, 0, 0>>[1] = x /\ <<x, 0, 0, 0>>[2] = 0 /\ <<x, 0, 0, 0>>[3] = 0 /\ <<x, 0, 0, 0>>[4] = 0
        /\ w[1] = b /\ w[2] = v[2] /\ w[3] = v[3] /\ w[4] = v[4]
    OBVIOUS
  <2> HIDE DEF w
  <2>3. /\ Hashes!XorByte(x, b) = v[1] /\ Hashes!XorByte(0, v[2]) = v[2]
        /\ Hashes!XorByte(0, v[3]) = v[3] /\ Hashes!XorByte(0, v[4]) = v[4]
    BY <1>1, XorTwice DEF x
  <2>4. \A i \in 1..4 : i = 1 \/ i = 2 \/ i = 3 \/ i = 4
    OBVIOUS
  <2> DEFINE y == Hashes!XorWord(<<x, 0, 0, 0>>, w)
  <2>5. \A i \in 1..4 : y[i] = v[i]
    <3>1. y[1] = v[1]
      BY <1>0, <2>1, <2>2, <2>3, Zenon
    <3>2. y[2] = v[2]
      BY <1>0, <2>1, <2>2, <2>3, Zenon
    <3>3. y[3] = v[3]
      BY <1>0, <2>1, <2>2, <2>3, Zenon
    <3>4. y[4] = v[4]
      BY <1>0, <2>1, <2>2, <2>3, Zenon
    <3> HIDE DEF y
    <3> QED BY <2>4, <3>1, <3>2, <3>3, <3>4, Zenon
  <2>6. y \in WordOf(4)
    BY <2>1, Zenon
  <2> HIDE DEF y
  <2>7. y = v
    BY <1>0, <2>5, <2>6, SameWord
  <2> QED BY <2>7 DEF y
<1>4. PICK z \in [0..8 -> WordOf(4)] :
        /\ z[0] = <<x, 0, 0, 0>> /\ \A i \in 1..8 : z[i] = Rest32(z[i - 1], 0)
        /\ Hashes!crc32tab[x] = z[8]
  <2> HIDE DEF x
  <2> QED BY <1>2, Entry32
<1>5. PICK t \in [0..8 -> WordOf(4)] :
        /\ t[0] = w
        /\ \A i \in 1..8 : t[i] = Hashes!Shr(t[i - 1], 1) /\ t[i - 1][1] % 2 = Hashes!Bit(w[1], i - 1)
        /\ \A j \in 1..4 : t[8][j] = IF j = 4 THEN 0 ELSE w[j + 1]
  <2> HIDE DEF w
  <2> QED BY <1>2, Shifts32
<1>6. w[1] = b
  OBVIOUS
<1> DEFINE T == {i \in 0..8 : c[i] = Hashes!XorWord(z[i], t[i])}
<1>7. 0 \in T
  <2> HIDE DEF x, w
  <2>1. 0 \in 0..8
    OBVIOUS
  <2> QED BY <1>3, <1>4, <1>5, <2>1, Zenon
<1>8. ASSUME NEW i \in 1..8, i - 1 \in T PROVE i \in T
  <2> HIDE DEF x, w
  <2>1. i \in 0..8 /\ i - 1 \in 0..8
    OBVIOUS
  <2>2. z[i - 1] \in WordOf(4) /\ t[i - 1] \in WordOf(4)
    BY <1>4, <1>5, <2>1
  <2>3. Rest32(Hashes!XorWord(z[i - 1], t[i - 1]), t[i - 1][1] % 2)
          = Hashes!XorWord(Rest32(z[i - 1], 0), Hashes!Shr(t[i - 1], 1))
    BY <2>2, Linear32
  <2>4. c[i - 1] = Hashes!XorWord(z[i - 1], t[i - 1])
    BY <1>8
  <2>5. t[i - 1][1] % 2 = Hashes!Bit(b, i - 1)
    BY <1>5, <1>6, Zenon
  <2>6. c[i] = Hashes!XorWord(z[i], t[i])
    <3>1. c[i] = Rest32(c[i - 1], Hashes!Bit(b, i - 1))
      OBVIOUS
    <3>2. c[i] = Rest32(Hashes!XorWord(z[i - 1], t[i - 1]), t[i - 1][1] % 2)
      BY <2>4, <2>5, <3>1, Zenon
    <3>3. z[i] = Rest32(z[i - 1], 0)
      BY <1>4, Zenon
    <3>4. t[i] = Hashes!Shr(t[i - 1], 1)
      BY <1>5, Zenon
    <3> QED BY <2>3, <3>2, <3>3, <3>4, Zenon
  <2> QED BY <2>1, <2>6
<1>9. c[8] = Hashes!XorWord(z[8], t[8])
  <2> HIDE DEF T
  <2>1. \A i \in 0..8 : i \in T
    BY <1>7, <1>8, InductionTo, 8 \in Nat
  <2>2. 8 \in 0..8
    OBVIOUS
  <2>3. 8 \in T
    BY <2>1, <2>2, Zenon
  <2> QED BY <2>3 DEF T
<1>10. t[8] \in WordOf(4) /\ z[8] \in WordOf(4)
  <2> HIDE DEF T, x, w
  <2>1. 8 \in 0..8
    OBVIOUS
  <2> QED BY <1>4, <1>5, <2>1
<1>11. t[8] = Hashes!Shr(v, 8)
  <2>1. /\ Hashes!Shr(v, 8) \in WordOf(4)
        /\ \A j \in 1..4 : Hashes!Shr(v, 8)[j] = IF j = 4 THEN 0 ELSE v[j + 1]
    BY <1>0, ShrEight
  <2>2. \A j \in 1..4 : (IF j = 4 THEN 0 ELSE w[j + 1]) = IF j = 4 THEN 0 ELSE v[j + 1]
    OBVIOUS
  <2> HIDE DEF T, x, w
  <2>3. ASSUME NEW j \in 1..4 PROVE t[8][j] = Hashes!Shr(v, 8)[j]
    <3>1. t[8][j] = IF j = 4 THEN 0 ELSE w[j + 1]
      BY <1>5, Zenon
    <3>2. Hashes!Shr(v, 8)[j] = IF j = 4 THEN 0 ELSE v[j + 1]
      BY <2>1, Zenon
    <3> QED BY <2>2, <3>1, <3>2, Zenon
  <2> QED BY <1>0, <1>10, <2>1, <2>3, SameWord
<1>12. c[8] = Hashes!XorWord(t[8], z[8])
  <2> HIDE DEF T, x, w
  <2> QED BY <1>0, <1>9, <1>10, WordsCommute
<1> HIDE DEF T, w
<1>13. c[8] = Hashes!XorWord(Hashes!Shr(v, 8), Hashes!crc32tab[x])
  <2> HIDE DEF x
  <2> QED BY <1>4, <1>11, <1>12, Zenon
<1> QED BY <1>13 DEF x

-----------------------------------------------------------------------------
(* The remainder, byte after byte.                                         *)
RemTurn16(r, i) == Rest16(r, Hashes!Bit(key[((i - 1) \div 8) + 1], 7 - ((i - 1) % 8)))
RemTurn32(r, i) == Rest32(r, Hashes!Bit(key[((i - 1) \div 8) + 1], (i - 1) % 8))

(* The same, of the key that is named.                                     *)
Of16(word, n) ==
    LET r[i \in 0..(8 * n)] ==
            IF i = 0 THEN Hashes!Zero(2)
            ELSE IF (r[i - 1][2] \div 128) # Hashes!Bit(word[((i - 1) \div 8) + 1], 7 - ((i - 1) % 8))
                 THEN Hashes!XorWord(Hashes!Shl(r[i - 1], 1), <<\h21, \h10>>)
                 ELSE Hashes!Shl(r[i - 1], 1) IN
    r[8 * n]
Of32(word, n) ==
    LET r[i \in 0..(8 * n)] ==
            IF i = 0 THEN Hashes!Complement(Hashes!Zero(4))
            ELSE IF r[i - 1][1] % 2 # Hashes!Bit(word[((i - 1) \div 8) + 1], (i - 1) % 8)
                 THEN Hashes!XorWord(Hashes!Shr(r[i - 1], 1), <<\h20, \h83, \hB8, \hED>>)
                 ELSE Hashes!Shr(r[i - 1], 1) IN
    r[8 * n]

LEMMA Remainder16Def ==
    ASSUME NEW m \in Nat
    PROVE  \E r \in [0..(8 * m) -> WordOf(2)] :
              /\ r[0] = Hashes!Zero(2) /\ \A i \in 1..(8 * m) : r[i] = RemTurn16(r[i - 1], i)
              /\ Hashes!Remainder16(m) = r[8 * m]
<1>0. /\ 8 * m \in Nat /\ Hashes!Zero(2) \in WordOf(2)
      /\ \A i \in 1..(8 * m) : \A v \in WordOf(2) : RemTurn16(v, i) \in WordOf(2)
  <2>1. 8 * m \in Nat /\ 2 \in Nat
    OBVIOUS
  <2>2. Hashes!Zero(2) \in WordOf(2)
    BY <2>1, WordsWritten, ComplementIs
  <2>3. \A v \in WordOf(2) : \A in : Rest16(v, in) \in WordOf(2)
    BY Rest16Type
  <2>4. \A i : \A v \in WordOf(2) : RemTurn16(v, i) \in WordOf(2)
    BY <2>3, Zenon DEF RemTurn16
  <2> QED BY <2>1, <2>2, <2>4
<1> DEFINE n == 8 * m
           step == [i \in 1..n |-> [v \in WordOf(2) |-> RemTurn16(v, i)]]
           eq(g) == [i \in 0..n |-> IF i = 0 THEN Hashes!Zero(2) ELSE RemTurn16(g[i - 1], i)]
           value == CHOOSE g : g = eq(g)
<1>1. step \in Steps(n, WordOf(2))
  BY <1>0 DEF Steps
<1>2. n \in Nat /\ Hashes!Zero(2) \in WordOf(2)
  BY <1>0 DEF Steps
<1>3. ASSUME NEW f, Follows(f, n, WordOf(2), Hashes!Zero(2), step)
      PROVE  /\ f \in [0..n -> WordOf(2)] /\ f[0] = Hashes!Zero(2)
             /\ \A i \in 1..n : f[i] = RemTurn16(f[i - 1], i)
  <2>1. f \in [0..n -> WordOf(2)] /\ f[0] = Hashes!Zero(2)
    <3> HIDE DEF step
    <3> QED BY <1>3 DEF Follows
  <2>2. ASSUME NEW i \in 1..n PROVE f[i] = RemTurn16(f[i - 1], i)
    <3>1. f[i - 1] \in WordOf(2)
      <4> HIDE DEF n
      <4>1. i - 1 \in 0..n
        BY <1>2
      <4> QED BY <2>1, <4>1
    <3>2. f[i] = step[i][f[i - 1]]
      <4> HIDE DEF step
      <4> QED BY <1>3 DEF Follows
    <3>3. step[i][f[i - 1]] = RemTurn16(f[i - 1], i)
      BY <3>1
    <3> HIDE DEF step
    <3> QED BY <3>2, <3>3
  <2> QED BY <2>1, <2>2
<1>4. PICK f : Follows(f, n, WordOf(2), Hashes!Zero(2), step)
  <2> HIDE DEF step, n
  <2> QED BY <1>1, <1>2, Recursion, Zenon
<1>5. f = eq(f)
  <2> HIDE DEF step
  <2>1. /\ f \in [0..n -> WordOf(2)] /\ f[0] = Hashes!Zero(2)
        /\ \A i \in 1..n : f[i] = RemTurn16(f[i - 1], i)
    BY <1>3, <1>4, Zenon
  <2> HIDE DEF n
  <2>2. \A i \in 0..n : f[i] = IF i = 0 THEN Hashes!Zero(2) ELSE RemTurn16(f[i - 1], i)
    BY <1>2, <2>1
  <2> QED BY <2>1, <2>2
<1>6. Hashes!Remainder16(m) = value[8 * m]
  BY Zenon DEF Hashes!Remainder16, RemTurn16, Rest16, Polynomial16
<1> HIDE DEF eq
<1>7. value = eq(value)
  BY <1>5, Zenon
<1>8. Follows(value, n, WordOf(2), Hashes!Zero(2), step)
  <2> HIDE DEF value, n
  <2>1. value = [i \in 0..n |-> value[i]] /\ value[0] = Hashes!Zero(2)
    BY <1>2, <1>7 DEF eq
  <2>2. ASSUME NEW i \in 1..n, value[i - 1] \in WordOf(2) PROVE value[i] = step[i][value[i - 1]]
    <3>1. value[i] = RemTurn16(value[i - 1], i)
      BY <1>2, <1>7 DEF eq
    <3> QED BY <2>2, <3>1
  <2> HIDE DEF step
  <2> QED BY <1>1, <1>2, <2>1, <2>2, StaysIn
<1> HIDE DEF value
<1>9. /\ value \in [0..n -> WordOf(2)] /\ value[0] = Hashes!Zero(2)
      /\ \A i \in 1..n : value[i] = RemTurn16(value[i - 1], i)
  <2> HIDE DEF step, n
  <2> QED BY <1>3, <1>8, Zenon
<1> HIDE DEF step
<1> QED BY <1>6, <1>9, Zenon

LEMMA Remainder16Next ==
    ASSUME NEW m \in Nat, key[m + 1] \in Octet
    PROVE  /\ Hashes!Remainder16(m) \in WordOf(2)
           /\ Hashes!Remainder16(m + 1) = Hashes!XorWord(<<0, Hashes!Remainder16(m)[1]>>, Hashes!Cast(Hashes!crc16tab[Hashes!XorByte(Hashes!Remainder16(m)[2], key[m + 1])], 2))
<1> DEFINE a == 8 * m
           b == 8 * (m + 1)
<1>0. a \in Nat /\ b = a + 8 /\ m + 1 \in Nat
  OBVIOUS
<1>1. PICK r \in [0..a -> WordOf(2)] :
        /\ r[0] = Hashes!Zero(2) /\ \A i \in 1..a : r[i] = RemTurn16(r[i - 1], i)
        /\ Hashes!Remainder16(m) = r[a]
  BY Remainder16Def, Zenon
<1>2. PICK s \in [0..b -> WordOf(2)] :
        /\ s[0] = Hashes!Zero(2) /\ \A i \in 1..b : s[i] = RemTurn16(s[i - 1], i)
        /\ Hashes!Remainder16(m + 1) = s[b]
  BY <1>0, Remainder16Def, Zenon
<1> HIDE DEF b
<1> DEFINE T == {i \in 0..a : r[i] = s[i]}
<1>3. 0 \in T
  <2> HIDE DEF a
  <2>1. 0 \in 0..a
    BY <1>0
  <2> QED BY <1>1, <1>2, <2>1, Zenon
<1>4. ASSUME NEW i \in 1..a, i - 1 \in T PROVE i \in T
  <2> HIDE DEF a
  <2>1. i \in 0..a /\ i \in 1..b
    BY <1>0
  <2>2. r[i - 1] = s[i - 1]
    BY <1>4
  <2>3. r[i] = s[i]
    BY <1>1, <1>2, <2>1, <2>2, Zenon
  <2> QED BY <2>1, <2>3
<1>5. \A i \in 0..a : i \in T
  <2> HIDE DEF T, a
  <2> QED BY <1>0, <1>3, <1>4, InductionTo
<1>6. r[a] = s[a] /\ r[a] \in WordOf(2)
  <2> HIDE DEF a
  <2>1. a \in 0..a
    BY <1>0
  <2> QED BY <1>1, <1>5, <2>1
<1> DEFINE c == [i \in 0..8 |-> s[a + i]]
<1>7. c \in [0..8 -> WordOf(2)] /\ \A i \in 0..8 : c[i] = s[a + i]
  <2> HIDE DEF a
  <2>1. \A i \in 0..8 : a + i \in 0..b
    BY <1>0
  <2> QED BY <1>2, <2>1
<1> HIDE DEF c, T
<1>8. c[0] = s[a]
  <2> HIDE DEF a
  <2>1. a + 0 = a /\ 0 \in 0..8
    BY <1>0
  <2> QED BY <1>7, <2>1, Zenon
<1>9. ASSUME NEW i \in 1..8 PROVE c[i] = Rest16(c[i - 1], Hashes!Bit(key[m + 1], 8 - i))
  <2> DEFINE e == a + i
  <2>1. /\ (e - 1) \div 8 = m /\ (e - 1) % 8 = i - 1 /\ 7 - (i - 1) = 8 - i
    <3>1. e - 1 = 8 * m + (i - 1) /\ i - 1 \in 0..7
      OBVIOUS
    <3>2. \A u \in 0..7 : (8 * m + u) \div 8 = m /\ (8 * m + u) % 8 = u
      OBVIOUS
    <3> QED BY <3>1, <3>2
  <2>2. e \in 1..b /\ a + (i - 1) = e - 1 /\ i \in 0..8 /\ i - 1 \in 0..8
    BY <1>0
  <2> HIDE DEF e
  <2>3. s[e] = Rest16(s[e - 1], Hashes!Bit(key[((e - 1) \div 8) + 1], 7 - ((e - 1) % 8)))
    BY <1>2, <2>2, Zenon DEF RemTurn16
  <2>4. c[i] = s[e] /\ c[i - 1] = s[e - 1]
    BY <1>7, <2>2, Zenon DEF e
  <2> QED BY <2>1, <2>3, <2>4, Zenon
<1>10. c[8] = s[b]
  <2> HIDE DEF a
  <2>1. a + 8 = b /\ 8 \in 0..8
    BY <1>0
  <2> QED BY <1>7, <2>1, Zenon
<1> DEFINE v == Hashes!Remainder16(m)
<1>11. v \in WordOf(2) /\ c[0] = v
  <2> HIDE DEF a
  <2> QED BY <1>1, <1>6, <1>8, Zenon
<1> HIDE DEF v, a
<1>12. c[8] = Hashes!XorWord(<<0, v[1]>>, Hashes!Cast(Hashes!crc16tab[Hashes!XorByte(v[2], key[m + 1])], 2))
  BY <1>7, <1>9, <1>11, EightSteps16
<1>13. Hashes!Remainder16(m + 1) = Hashes!XorWord(<<0, v[1]>>, Hashes!Cast(Hashes!crc16tab[Hashes!XorByte(v[2], key[m + 1])], 2))
  BY <1>2, <1>10, <1>12, Zenon
<1> QED BY <1>11, <1>13 DEF v

LEMMA Remainder16Start == Hashes!Remainder16(0) = Hashes!Zero(2)
<1>1. 0 \in Nat /\ 8 * 0 = 0
  OBVIOUS
<1>2. \E r \in [0..(8 * 0) -> WordOf(2)] :
        /\ r[0] = Hashes!Zero(2) /\ \A i \in 1..(8 * 0) : r[i] = RemTurn16(r[i - 1], i)
        /\ Hashes!Remainder16(0) = r[8 * 0]
  BY <1>1, Remainder16Def, Zenon
<1> QED BY <1>1, <1>2, Zenon

LEMMA Remainder16Is ==
    ASSUME NEW m
    PROVE  Hashes!Remainder16(m) = Of16(key, m)
BY Zenon DEF Hashes!Remainder16, Of16

LEMMA Remainder16Primed ==
    ASSUME key' = key, NEW m, consumed' = m
    PROVE  (Hashes!Remainder16(consumed))' = Hashes!Remainder16(m)
<1>1. (Hashes!Remainder16(consumed))' = Of16(key', consumed')
  BY Zenon DEF Hashes!Remainder16, Of16
<1>2. Hashes!Remainder16(m) = Of16(key, m)
  BY Remainder16Is
<1> QED BY <1>1, <1>2, Zenon

LEMMA Remainder32Def ==
    ASSUME NEW m \in Nat
    PROVE  \E r \in [0..(8 * m) -> WordOf(4)] :
              /\ r[0] = Hashes!Complement(Hashes!Zero(4)) /\ \A i \in 1..(8 * m) : r[i] = RemTurn32(r[i - 1], i)
              /\ Hashes!Remainder32(m) = r[8 * m]
<1>0. /\ 8 * m \in Nat /\ Hashes!Complement(Hashes!Zero(4)) \in WordOf(4)
      /\ \A i \in 1..(8 * m) : \A v \in WordOf(4) : RemTurn32(v, i) \in WordOf(4)
  <2>1. 8 * m \in Nat /\ 4 \in Nat
    OBVIOUS
  <2>2. Hashes!Complement(Hashes!Zero(4)) \in WordOf(4)
    BY <2>1, WordsWritten, ComplementIs
  <2>3. \A v \in WordOf(4) : \A in : Rest32(v, in) \in WordOf(4)
    BY Rest32Type
  <2>4. \A i : \A v \in WordOf(4) : RemTurn32(v, i) \in WordOf(4)
    BY <2>3, Zenon DEF RemTurn32
  <2> QED BY <2>1, <2>2, <2>4
<1> DEFINE n == 8 * m
           step == [i \in 1..n |-> [v \in WordOf(4) |-> RemTurn32(v, i)]]
           eq(g) == [i \in 0..n |-> IF i = 0 THEN Hashes!Complement(Hashes!Zero(4)) ELSE RemTurn32(g[i - 1], i)]
           value == CHOOSE g : g = eq(g)
<1>1. step \in Steps(n, WordOf(4))
  BY <1>0 DEF Steps
<1>2. n \in Nat /\ Hashes!Complement(Hashes!Zero(4)) \in WordOf(4)
  BY <1>0 DEF Steps
<1>3. ASSUME NEW f, Follows(f, n, WordOf(4), Hashes!Complement(Hashes!Zero(4)), step)
      PROVE  /\ f \in [0..n -> WordOf(4)] /\ f[0] = Hashes!Complement(Hashes!Zero(4))
             /\ \A i \in 1..n : f[i] = RemTurn32(f[i - 1], i)
  <2>1. f \in [0..n -> WordOf(4)] /\ f[0] = Hashes!Complement(Hashes!Zero(4))
    <3> HIDE DEF step
    <3> QED BY <1>3 DEF Follows
  <2>2. ASSUME NEW i \in 1..n PROVE f[i] = RemTurn32(f[i - 1], i)
    <3>1. f[i - 1] \in WordOf(4)
      <4> HIDE DEF n
      <4>1. i - 1 \in 0..n
        BY <1>2
      <4> QED BY <2>1, <4>1
    <3>2. f[i] = step[i][f[i - 1]]
      <4> HIDE DEF step
      <4> QED BY <1>3 DEF Follows
    <3>3. step[i][f[i - 1]] = RemTurn32(f[i - 1], i)
      BY <3>1
    <3> HIDE DEF step
    <3> QED BY <3>2, <3>3
  <2> QED BY <2>1, <2>2
<1>4. PICK f : Follows(f, n, WordOf(4), Hashes!Complement(Hashes!Zero(4)), step)
  <2> HIDE DEF step, n
  <2> QED BY <1>1, <1>2, Recursion, Zenon
<1>5. f = eq(f)
  <2> HIDE DEF step
  <2>1. /\ f \in [0..n -> WordOf(4)] /\ f[0] = Hashes!Complement(Hashes!Zero(4))
        /\ \A i \in 1..n : f[i] = RemTurn32(f[i - 1], i)
    BY <1>3, <1>4, Zenon
  <2> HIDE DEF n
  <2>2. \A i \in 0..n : f[i] = IF i = 0 THEN Hashes!Complement(Hashes!Zero(4)) ELSE RemTurn32(f[i - 1], i)
    BY <1>2, <2>1
  <2> QED BY <2>1, <2>2
<1>6. Hashes!Remainder32(m) = value[8 * m]
  BY Zenon DEF Hashes!Remainder32, RemTurn32, Rest32, Polynomial32
<1> HIDE DEF eq
<1>7. value = eq(value)
  BY <1>5, Zenon
<1>8. Follows(value, n, WordOf(4), Hashes!Complement(Hashes!Zero(4)), step)
  <2> HIDE DEF value, n
  <2>1. value = [i \in 0..n |-> value[i]] /\ value[0] = Hashes!Complement(Hashes!Zero(4))
    BY <1>2, <1>7 DEF eq
  <2>2. ASSUME NEW i \in 1..n, value[i - 1] \in WordOf(4) PROVE value[i] = step[i][value[i - 1]]
    <3>1. value[i] = RemTurn32(value[i - 1], i)
      BY <1>2, <1>7 DEF eq
    <3> QED BY <2>2, <3>1
  <2> HIDE DEF step
  <2> QED BY <1>1, <1>2, <2>1, <2>2, StaysIn
<1> HIDE DEF value
<1>9. /\ value \in [0..n -> WordOf(4)] /\ value[0] = Hashes!Complement(Hashes!Zero(4))
      /\ \A i \in 1..n : value[i] = RemTurn32(value[i - 1], i)
  <2> HIDE DEF step, n
  <2> QED BY <1>3, <1>8, Zenon
<1> HIDE DEF step
<1> QED BY <1>6, <1>9, Zenon

LEMMA Remainder32Next ==
    ASSUME NEW m \in Nat, key[m + 1] \in Octet
    PROVE  /\ Hashes!Remainder32(m) \in WordOf(4)
           /\ Hashes!Remainder32(m + 1) = Hashes!XorWord(Hashes!Shr(Hashes!Remainder32(m), 8), Hashes!crc32tab[Hashes!XorByte(Hashes!Remainder32(m)[1], key[m + 1])])
<1> DEFINE a == 8 * m
           b == 8 * (m + 1)
<1>0. a \in Nat /\ b = a + 8 /\ m + 1 \in Nat
  OBVIOUS
<1>1. PICK r \in [0..a -> WordOf(4)] :
        /\ r[0] = Hashes!Complement(Hashes!Zero(4)) /\ \A i \in 1..a : r[i] = RemTurn32(r[i - 1], i)
        /\ Hashes!Remainder32(m) = r[a]
  BY Remainder32Def, Zenon
<1>2. PICK s \in [0..b -> WordOf(4)] :
        /\ s[0] = Hashes!Complement(Hashes!Zero(4)) /\ \A i \in 1..b : s[i] = RemTurn32(s[i - 1], i)
        /\ Hashes!Remainder32(m + 1) = s[b]
  BY <1>0, Remainder32Def, Zenon
<1> HIDE DEF b
<1> DEFINE T == {i \in 0..a : r[i] = s[i]}
<1>3. 0 \in T
  <2> HIDE DEF a
  <2>1. 0 \in 0..a
    BY <1>0
  <2> QED BY <1>1, <1>2, <2>1, Zenon
<1>4. ASSUME NEW i \in 1..a, i - 1 \in T PROVE i \in T
  <2> HIDE DEF a
  <2>1. i \in 0..a /\ i \in 1..b
    BY <1>0
  <2>2. r[i - 1] = s[i - 1]
    BY <1>4
  <2>3. r[i] = s[i]
    BY <1>1, <1>2, <2>1, <2>2, Zenon
  <2> QED BY <2>1, <2>3
<1>5. \A i \in 0..a : i \in T
  <2> HIDE DEF T, a
  <2> QED BY <1>0, <1>3, <1>4, InductionTo
<1>6. r[a] = s[a] /\ r[a] \in WordOf(4)
  <2> HIDE DEF a
  <2>1. a \in 0..a
    BY <1>0
  <2> QED BY <1>1, <1>5, <2>1
<1> DEFINE c == [i \in 0..8 |-> s[a + i]]
<1>7. c \in [0..8 -> WordOf(4)] /\ \A i \in 0..8 : c[i] = s[a + i]
  <2> HIDE DEF a
  <2>1. \A i \in 0..8 : a + i \in 0..b
    BY <1>0
  <2> QED BY <1>2, <2>1
<1> HIDE DEF c, T
<1>8. c[0] = s[a]
  <2> HIDE DEF a
  <2>1. a + 0 = a /\ 0 \in 0..8
    BY <1>0
  <2> QED BY <1>7, <2>1, Zenon
<1>9. ASSUME NEW i \in 1..8 PROVE c[i] = Rest32(c[i - 1], Hashes!Bit(key[m + 1], i - 1))
  <2> DEFINE e == a + i
  <2>1. /\ (e - 1) \div 8 = m /\ (e - 1) % 8 = i - 1 /\ 7 - (i - 1) = 8 - i
    <3>1. e - 1 = 8 * m + (i - 1) /\ i - 1 \in 0..7
      OBVIOUS
    <3>2. \A u \in 0..7 : (8 * m + u) \div 8 = m /\ (8 * m + u) % 8 = u
      OBVIOUS
    <3> QED BY <3>1, <3>2
  <2>2. e \in 1..b /\ a + (i - 1) = e - 1 /\ i \in 0..8 /\ i - 1 \in 0..8
    BY <1>0
  <2> HIDE DEF e
  <2>3. s[e] = Rest32(s[e - 1], Hashes!Bit(key[((e - 1) \div 8) + 1], (e - 1) % 8))
    BY <1>2, <2>2, Zenon DEF RemTurn32
  <2>4. c[i] = s[e] /\ c[i - 1] = s[e - 1]
    BY <1>7, <2>2, Zenon DEF e
  <2> QED BY <2>1, <2>3, <2>4, Zenon
<1>10. c[8] = s[b]
  <2> HIDE DEF a
  <2>1. a + 8 = b /\ 8 \in 0..8
    BY <1>0
  <2> QED BY <1>7, <2>1, Zenon
<1> DEFINE v == Hashes!Remainder32(m)
<1>11. v \in WordOf(4) /\ c[0] = v
  <2> HIDE DEF a
  <2> QED BY <1>1, <1>6, <1>8, Zenon
<1> HIDE DEF v, a
<1>12. c[8] = Hashes!XorWord(Hashes!Shr(v, 8), Hashes!crc32tab[Hashes!XorByte(v[1], key[m + 1])])
  BY <1>7, <1>9, <1>11, EightSteps32
<1>13. Hashes!Remainder32(m + 1) = Hashes!XorWord(Hashes!Shr(v, 8), Hashes!crc32tab[Hashes!XorByte(v[1], key[m + 1])])
  BY <1>2, <1>10, <1>12, Zenon
<1> QED BY <1>11, <1>13 DEF v

LEMMA Remainder32Start == Hashes!Remainder32(0) = Hashes!Complement(Hashes!Zero(4))
<1>1. 0 \in Nat /\ 8 * 0 = 0
  OBVIOUS
<1>2. \E r \in [0..(8 * 0) -> WordOf(4)] :
        /\ r[0] = Hashes!Complement(Hashes!Zero(4)) /\ \A i \in 1..(8 * 0) : r[i] = RemTurn32(r[i - 1], i)
        /\ Hashes!Remainder32(0) = r[8 * 0]
  BY <1>1, Remainder32Def, Zenon
<1> QED BY <1>1, <1>2, Zenon

LEMMA Remainder32Is ==
    ASSUME NEW m
    PROVE  Hashes!Remainder32(m) = Of32(key, m)
BY Zenon DEF Hashes!Remainder32, Of32

LEMMA Remainder32Primed ==
    ASSUME key' = key, NEW m, consumed' = m
    PROVE  (Hashes!Remainder32(consumed))' = Hashes!Remainder32(m)
<1>1. (Hashes!Remainder32(consumed))' = Of32(key', consumed')
  BY Zenon DEF Hashes!Remainder32, Of32
<1>2. Hashes!Remainder32(m) = Of32(key, m)
  BY Remainder32Is
<1> QED BY <1>1, <1>2, Zenon

(* The registers of the CRC functions hold the remainder of what they have *)
(* consumed.                                                               *)
Crc16Inv ==
    alg = "crc16" =>
        \A signed \in BOOLEAN : Hashes!Cast(hash[signed], 2) = Hashes!Remainder16(consumed)
Crc32Inv ==
    /\ (alg \in {"crc32", "crc32a"} /\ at = "loop") =>
          \A signed \in BOOLEAN : hash[signed] = Hashes!Remainder32(consumed)
    /\ (alg = "crc32a" /\ at = "done") =>
          hash[TRUE] = Hashes!Complement(Hashes!Remainder32(consumed))
    /\ (alg = "crc32" /\ at = "done") =>
          LET std == Hashes!Complement(Hashes!Remainder32(consumed)) IN
          hash[TRUE] = <<std[3], std[4] % 128, 0, 0>>

LEMMA FirstByte ==
    ASSUME NEW b \in Octet, NEW signed \in BOOLEAN
    PROVE  Hashes!Char(b, signed, 4)[1] = b
<1>1. 1 \in 1..4 /\ 4 \in Nat
  OBVIOUS
<1>2. Hashes!Char(b, TRUE, 4)[1] = b /\ Hashes!Char(b, FALSE, 4)[1] = b
  BY <1>1, CharIs
<1>3. signed = TRUE \/ signed = FALSE
  BY Zenon
<1> QED BY <1>2, <1>3, Zenon

LEMMA Crc16Low ==
    ASSUME NEW m \in Nat, key[m + 1] \in Octet, NEW v \in WordOf(4), NEW signed \in BOOLEAN,
           Hashes!Cast(v, 2) = Hashes!Remainder16(m)
    PROVE  Hashes!Cast(Hashes!crc16(v, Hashes!Char(key[m + 1], signed, 4)), 2) = Hashes!Remainder16(m + 1)
<1> DEFINE b == key[m + 1]
           w == Hashes!Cast(v, 2)
           e == Hashes!crc16tab[Hashes!XorByte(v[2], b)]
<1>0. 2 \in 0..4 /\ 4 \in Nat /\ 2 \in Nat /\ 1 \in 1..4 /\ 2 \in 1..4 /\ 1 \in 1..2 /\ 2 \in 1..2
  OBVIOUS
<1>1. w \in WordOf(2) /\ w[1] = v[1] /\ w[2] = v[2]
  BY <1>0, CastBytes
<1>2. v[1] \in Octet /\ v[2] \in Octet /\ 0 \in Octet
  <2>1. 0 \in Octet
    BY DEF Octet
  <2> QED BY <1>0, <2>1, WordBytes
<1>3. e \in WordOf(4)
  <2>1. Hashes!XorByte(v[2], b) \in Octet
    BY <1>2, XorByteType
  <2> QED BY <2>1, TablesType
<1>4. Hashes!Char(b, signed, 4)[1] = b
  BY FirstByte
<1>5. Hashes!crc16(v, Hashes!Char(b, signed, 4)) = Hashes!XorWord(Hashes!Shl(v, 8), e)
  BY <1>4, Zenon DEF Hashes!crc16
<1> HIDE DEF e
<1>6. /\ Hashes!Shl(v, 8) \in WordOf(4)
      /\ \A i \in 1..4 : Hashes!Shl(v, 8)[i] = IF i = 1 THEN 0 ELSE v[i - 1]
  BY <1>0, ShlEight
<1>7. Hashes!Cast(Hashes!XorWord(Hashes!Shl(v, 8), e), 2)
        = Hashes!XorWord(Hashes!Cast(Hashes!Shl(v, 8), 2), Hashes!Cast(e, 2))
  BY <1>0, <1>3, <1>6, CastXor
<1>8. Hashes!Cast(Hashes!Shl(v, 8), 2) = <<0, w[1]>>
  <2>1. /\ Hashes!Cast(Hashes!Shl(v, 8), 2) \in WordOf(2)
        /\ \A i \in 1..2 : Hashes!Cast(Hashes!Shl(v, 8), 2)[i] = Hashes!Shl(v, 8)[i]
    BY <1>0, <1>6, CastBytes
  <2>2. <<0, w[1]>> \in WordOf(2)
    BY <1>1, <1>2, TwoBytes
  <2>3. ASSUME NEW i \in 1..2 PROVE Hashes!Cast(Hashes!Shl(v, 8), 2)[i] = <<0, w[1]>>[i]
    <3>1. i \in 1..4 /\ (i # 1 => i - 1 = 1)
      OBVIOUS
    <3>2. Hashes!Cast(Hashes!Shl(v, 8), 2)[i] = IF i = 1 THEN 0 ELSE v[i - 1]
      BY <1>6, <2>1, <3>1, Zenon
    <3>3. <<0, w[1]>>[i] = IF i = 1 THEN 0 ELSE w[1]
      OBVIOUS
    <3>4. CASE i = 1
      BY <3>2, <3>3, <3>4, Zenon
    <3>5. CASE i # 1
      BY <1>1, <3>1, <3>2, <3>3, <3>5, Zenon
    <3> QED BY <3>4, <3>5
  <2> QED BY <1>0, <2>1, <2>2, <2>3, SameWord
<1> HIDE DEF w
<1>9. Hashes!Remainder16(m + 1) = Hashes!XorWord(<<0, Hashes!Remainder16(m)[1]>>,
            Hashes!Cast(Hashes!crc16tab[Hashes!XorByte(Hashes!Remainder16(m)[2], b)], 2))
  BY Remainder16Next
<1>10. w = Hashes!Remainder16(m)
  BY DEF w
<1>11. Hashes!Remainder16(m + 1) = Hashes!XorWord(<<0, w[1]>>, Hashes!Cast(e, 2))
  BY <1>1, <1>9, <1>10, Zenon DEF e
<1> QED BY <1>5, <1>7, <1>8, <1>11, Zenon

LEMMA Crc32Next ==
    ASSUME NEW m \in Nat, key[m + 1] \in Octet, NEW signed \in BOOLEAN
    PROVE  Hashes!crc32(Hashes!Remainder32(m), Hashes!Char(key[m + 1], signed, 4)) = Hashes!Remainder32(m + 1)
<1>1. Hashes!Remainder32(m + 1) = Hashes!XorWord(Hashes!Shr(Hashes!Remainder32(m), 8),
        Hashes!crc32tab[Hashes!XorByte(Hashes!Remainder32(m)[1], key[m + 1])])
  BY Remainder32Next
<1>2. Hashes!Char(key[m + 1], signed, 4)[1] = key[m + 1]
  BY FirstByte
<1> QED BY <1>1, <1>2, Zenon DEF Hashes!crc32

LEMMA CrcStart ==
    ASSUME HashStarted
    PROVE  Crc16Inv /\ Crc32Inv
<1>0. /\ hash = [signed \in BOOLEAN |-> Hashes!Seed(alg, Len(key))] /\ consumed = 0 /\ at = "loop"
  BY DEF HashStarted
<1>1. \A signed \in BOOLEAN : hash[signed] = Hashes!Seed(alg, Len(key))
  BY <1>0
<1>2. ASSUME alg = "crc16", NEW signed \in BOOLEAN
      PROVE  Hashes!Cast(hash[signed], 2) = Hashes!Remainder16(consumed)
  <2>1. hash[signed] = Hashes!Zero(4)
    <3>1. Hashes!Seed(alg, Len(key)) = Hashes!Zero(4)
      BY <1>2 DEF Hashes!Seed
    <3> QED BY <1>1, <3>1, Zenon
  <2>2. 2 \in 0..4 /\ 4 \in Nat /\ 2 \in Nat
    OBVIOUS
  <2>3. Hashes!Zero(4) \in WordOf(4) /\ Hashes!Zero(2) \in WordOf(2)
    BY <2>2, WordsWritten
  <2>4. /\ Hashes!Cast(Hashes!Zero(4), 2) \in WordOf(2)
        /\ \A i \in 1..2 : Hashes!Cast(Hashes!Zero(4), 2)[i] = Hashes!Zero(4)[i]
    BY <2>2, <2>3, CastBytes
  <2>5. \A i \in 1..2 : Hashes!Zero(4)[i] = Hashes!Zero(2)[i]
    BY DEF Hashes!Zero
  <2>6. Hashes!Cast(Hashes!Zero(4), 2) = Hashes!Zero(2)
    <3>1. \A i \in 1..2 : Hashes!Cast(Hashes!Zero(4), 2)[i] = Hashes!Zero(2)[i]
      BY <2>4, <2>5, Zenon
    <3> QED BY <2>2, <2>3, <2>4, <3>1, SameWord
  <2> QED BY <1>0, <2>1, <2>6, Remainder16Start, Zenon
<1>3. ASSUME alg \in {"crc32", "crc32a"}, NEW signed \in BOOLEAN
      PROVE  hash[signed] = Hashes!Remainder32(consumed)
  <2>1. Hashes!Seed(alg, Len(key)) = Hashes!Complement(Hashes!Zero(4))
    BY <1>3 DEF Hashes!Seed
  <2> QED BY <1>0, <1>1, <2>1, Remainder32Start, Zenon
<1> QED BY <1>0, <1>2, <1>3 DEF Crc16Inv, Crc32Inv

LEMMA CrcStarted == (HashStarted => Crc16Inv /\ Crc32Inv)'
<1>1. HashStarted => Crc16Inv /\ Crc32Inv
  BY CrcStart
<1> QED BY <1>1, PTL

(* Nothing changes but what does not matter to the registers.              *)
LEMMA CrcStays ==
    ASSUME Crc16Inv, Crc32Inv, UNCHANGED <<alg, key, consumed, hash, at>>
    PROVE  Crc16Inv' /\ Crc32Inv'
<1>1. /\ (Hashes!Remainder16(consumed))' = Hashes!Remainder16(consumed)
      /\ (Hashes!Remainder32(consumed))' = Hashes!Remainder32(consumed)
  BY Remainder16Primed, Remainder32Primed
<1>2. Crc16Inv'
  BY <1>1, Zenon DEF Crc16Inv
<1>3. Crc32Inv'
  BY <1>1, Zenon DEF Crc32Inv
<1> QED BY <1>2, <1>3

LEMMA CrcTurn ==
    ASSUME HashInv, HashInv', Crc16Inv, Crc32Inv, Hashes!Turn
    PROVE  Crc16Inv' /\ Crc32Inv'
<1>0. /\ at = "loop" /\ alg' = alg /\ key' = key /\ at' = at
      /\ consumed + Hashes!Stride <= Len(key) /\ consumed' = consumed + Hashes!Stride
      /\ hash' = [signed \in BOOLEAN |-> Hashes!Mixed(hash[signed], signed)]
  BY DEF Hashes!Turn
<1>1. CASE alg \in {"crc16", "crc32", "crc32a"}
  <2>1. Hashes!Stride = 1
    BY <1>1 DEF Hashes!Stride, Hashes!ByteAlgs
  <2>2. consumed \in Nat /\ consumed' = consumed + 1 /\ key[consumed + 1] \in Octet
    <3>1. key \in Seq(Octet) /\ consumed \in Nat
      BY DEF HashInv
    <3> QED BY <1>0, <2>1, <3>1, KeyBytes
  <2>3. \A signed \in BOOLEAN : hash[signed] \in WordOf(4)
    BY <1>1 DEF HashInv, Width
  <2>4. \A signed \in BOOLEAN : hash'[signed] = Hashes!Mixed(hash[signed], signed)
    BY <1>0, Zenon
  <2>5. \A signed \in BOOLEAN : Len(hash[signed]) = 4
    <3>1. 4 \in Nat
      OBVIOUS
    <3> QED BY <2>3, <3>1, WordLen DEF WordOf
  <2>6. /\ (Hashes!Remainder16(consumed))' = Hashes!Remainder16(consumed + 1)
        /\ (Hashes!Remainder32(consumed))' = Hashes!Remainder32(consumed + 1)
    BY <1>0, <2>2, Remainder16Primed, Remainder32Primed
  <2>7. Crc16Inv'
    <3>1. ASSUME alg = "crc16", NEW signed \in BOOLEAN
          PROVE  Hashes!Cast(hash'[signed], 2) = Hashes!Remainder16(consumed + 1)
      <4>1. Hashes!Mixed(hash[signed], signed) = Hashes!crc16(hash[signed], Hashes!Char(key[consumed + 1], signed, 4))
        BY <2>5, <3>1 DEF Hashes!Mixed
      <4>2. Hashes!Cast(hash[signed], 2) = Hashes!Remainder16(consumed)
        BY <3>1 DEF Crc16Inv
      <4>3. Hashes!Cast(Hashes!crc16(hash[signed], Hashes!Char(key[consumed + 1], signed, 4)), 2)
              = Hashes!Remainder16(consumed + 1)
        BY <2>2, <2>3, <4>2, Crc16Low
      <4> QED BY <2>4, <4>1, <4>3, Zenon
    <3>2. alg = "crc16" => \A signed \in BOOLEAN : Hashes!Cast(hash'[signed], 2) = (Hashes!Remainder16(consumed))'
      BY <2>6, <3>1, Zenon
    <3> QED BY <1>0, <3>2, Zenon DEF Crc16Inv
  <2>8. Crc32Inv'
    <3>1. ASSUME alg \in {"crc32", "crc32a"}, NEW signed \in BOOLEAN
          PROVE  hash'[signed] = Hashes!Remainder32(consumed + 1)
      <4>1. Hashes!Mixed(hash[signed], signed) = Hashes!crc32(hash[signed], Hashes!Char(key[consumed + 1], signed, 4))
        BY <2>5, <3>1 DEF Hashes!Mixed
      <4>2. hash[signed] = Hashes!Remainder32(consumed)
        BY <1>0, <3>1 DEF Crc32Inv
      <4>3. Hashes!crc32(Hashes!Remainder32(consumed), Hashes!Char(key[consumed + 1], signed, 4))
              = Hashes!Remainder32(consumed + 1)
        BY <2>2, Crc32Next
      <4> QED BY <2>4, <4>1, <4>2, <4>3, Zenon
    <3>2. alg \in {"crc32", "crc32a"} => \A signed \in BOOLEAN : hash'[signed] = (Hashes!Remainder32(consumed))'
      BY <2>6, <3>1, Zenon
    <3>3. at' # "done"
      BY <1>0
    <3> QED BY <1>0, <3>2, <3>3, Zenon DEF Crc32Inv
  <2> QED BY <2>7, <2>8
<1>2. CASE alg \notin {"crc16", "crc32", "crc32a"}
  BY <1>0, <1>2 DEF Crc16Inv, Crc32Inv
<1> QED BY <1>1, <1>2

LEMMA CrcReturn ==
    ASSUME HashInv, HashInv', Crc16Inv, Crc32Inv, Hashes!Return
    PROVE  Crc16Inv' /\ Crc32Inv'
<1>0. /\ at = "loop" /\ alg' = alg /\ key' = key /\ at' = "done"
      /\ alg = "murmur3" \/ consumed + Hashes!Stride > Len(key)
      /\ consumed' = Len(key)
      /\ hash' = [signed \in BOOLEAN |-> Hashes!Finished(hash[signed], signed)]
  BY DEF Hashes!Return
<1>1. CASE alg \in {"crc16", "crc32", "crc32a"}
  <2>1. Hashes!Stride = 1
    BY <1>1 DEF Hashes!Stride, Hashes!ByteAlgs
  <2>2. consumed' = consumed
    <3>1. key \in Seq(Octet) /\ consumed \in 0..Len(key)
      BY DEF HashInv
    <3> QED BY <1>0, <1>1, <2>1, <3>1
  <2>3. /\ (Hashes!Remainder16(consumed))' = Hashes!Remainder16(consumed)
        /\ (Hashes!Remainder32(consumed))' = Hashes!Remainder32(consumed)
    BY <1>0, <2>2, Remainder16Primed, Remainder32Primed
  <2>4. \A signed \in BOOLEAN : hash'[signed] = Hashes!Finished(hash[signed], signed)
    BY <1>0, Zenon
  <2>5. Crc16Inv'
    <3>1. ASSUME alg = "crc16", NEW signed \in BOOLEAN
          PROVE  Hashes!Cast(hash'[signed], 2) = Hashes!Remainder16(consumed)
      <4>1. Hashes!Finished(hash[signed], signed) = hash[signed]
        BY <3>1 DEF Hashes!Finished
      <4>2. Hashes!Cast(hash[signed], 2) = Hashes!Remainder16(consumed)
        BY <3>1 DEF Crc16Inv
      <4> QED BY <2>4, <4>1, <4>2, Zenon
    <3>2. alg = "crc16" => \A signed \in BOOLEAN : Hashes!Cast(hash'[signed], 2) = (Hashes!Remainder16(consumed))'
      BY <2>3, <3>1, Zenon
    <3> QED BY <1>0, <3>2, Zenon DEF Crc16Inv
  <2>6. Crc32Inv'
    <3>1. alg \in {"crc32", "crc32a"} => hash[TRUE] = Hashes!Remainder32(consumed)
      BY <1>0 DEF Crc32Inv
    <3>2. ASSUME alg = "crc32a" PROVE hash'[TRUE] = Hashes!Complement(Hashes!Remainder32(consumed))
      <4>1. Hashes!Finished(hash[TRUE], TRUE) = Hashes!Complement(hash[TRUE])
        BY <3>2 DEF Hashes!Finished
      <4>2. hash[TRUE] = Hashes!Remainder32(consumed)
        BY <3>1, <3>2
      <4> QED BY <2>4, <4>1, <4>2, Zenon
    <3>3. ASSUME alg = "crc32"
          PROVE  hash'[TRUE] = <<Hashes!Complement(Hashes!Remainder32(consumed))[3],
                                 Hashes!Complement(Hashes!Remainder32(consumed))[4] % 128, 0, 0>>
      <4>1. Hashes!Finished(hash[TRUE], TRUE)
              = <<Hashes!Complement(hash[TRUE])[3], Hashes!Complement(hash[TRUE])[4] % 128, 0, 0>>
        BY <3>3 DEF Hashes!Finished
      <4>2. hash[TRUE] = Hashes!Remainder32(consumed)
        BY <3>1, <3>3
      <4> QED BY <2>4, <4>1, <4>2, Zenon
    <3>4. at' # "loop"
      BY <1>0
    <3> QED BY <1>0, <2>3, <3>2, <3>3, <3>4, Zenon DEF Crc32Inv
  <2> QED BY <2>5, <2>6
<1>2. CASE alg \notin {"crc16", "crc32", "crc32a"}
  BY <1>0, <1>2 DEF Crc16Inv, Crc32Inv
<1> QED BY <1>1, <1>2

LEMMA CrcStep ==
    ASSUME HashInv, HashInv', Crc16Inv, Crc32Inv, [Hashes!Next]_(Hashes!vars)
    PROVE  Crc16Inv' /\ Crc32Inv'
<1>1. CASE Hashes!Request
  <2>1. CASE next < Len(requests)
    <3>1. /\ consumed' = 0 /\ at' = "loop" /\ alg' = alg
          /\ hash' = [signed \in BOOLEAN |-> Hashes!Seed(alg, Len(key'))]
      BY <1>1, <2>1 DEF Hashes!Request
    <3>2. HashStarted'
      BY <3>1 DEF HashStarted
    <3> QED BY <3>2, CrcStarted
  <2>2. CASE ~(next < Len(requests))
    <3>1. UNCHANGED <<alg, key, consumed, hash, at>>
      BY <1>1, <2>2 DEF Hashes!Request
    <3> QED BY <3>1, CrcStays
  <2> QED BY <2>1, <2>2
<1>2. CASE UNCHANGED Hashes!vars
  <2>1. UNCHANGED <<alg, key, consumed, hash, at>>
    BY <1>2 DEF Hashes!vars, Hashes!hashVars
  <2> QED BY <2>1, CrcStays
<1> QED BY <1>1, <1>2, CrcTurn, CrcReturn DEF Hashes!Next, Hashes!Hash, Hashes!HashNext

(* Table lookup is polynomial division, for every key: the low half of the *)
(* register of hash_crc16, which is never masked, holds the CRC-16 of the  *)
(* bytes consumed, and the two functions on crc32tab return the CRC-32 and *)
(* fifteen bits of it.                                                     *)
THEOREM CrcDividesKeys ==
    ASSUME HashConstants
    PROVE  KeysSpec => []CrcIsRemainder
<1>1. KeysInit => (call = "hash_func" => Crc16Inv /\ Crc32Inv)
  <2> SUFFICES ASSUME KeysInit, call = "hash_func" PROVE Crc16Inv /\ Crc32Inv
    OBVIOUS
  <2>1. consumed = 0 /\ at = "loop" /\ hash = [signed \in BOOLEAN |-> Hashes!Seed(alg, Len(key))]
    BY HashStarts DEF Hashes!Init, Hashes!Start
  <2>2. HashStarted
    BY <2>1, HashStarts, HashInit DEF HashStarted
  <2> QED BY <2>2, CrcStart
<1>2. /\ call = "hash_func" => HashInv
      /\ (call = "hash_func" => HashInv)'
      /\ call = "hash_func" => Crc16Inv /\ Crc32Inv
      /\ [KeysNext]_keysVars
      => (call = "hash_func" => Crc16Inv /\ Crc32Inv)'
  <2> SUFFICES ASSUME call = "hash_func" => HashInv, (call = "hash_func" => HashInv)',
                      call = "hash_func" => Crc16Inv /\ Crc32Inv,
                      [KeysNext]_keysVars, call' = "hash_func"
               PROVE  Crc16Inv' /\ Crc32Inv'
    OBVIOUS
  <2> QED BY HashRuns, CrcStep
<1>3. Crc16Inv /\ Crc32Inv => Hashes!CrcIsRemainder
  BY Zenon DEF Crc16Inv, Crc32Inv, Hashes!CrcIsRemainder
<1> QED BY <1>1, <1>2, <1>3, HashInvariant, PTL DEF KeysSpec, CrcIsRemainder

=============================================================================
