------------------------------ MODULE DynocWord ------------------------------
(***************************************************************************)
(* Unsigned C integers for the hash functions: a word is the sequence of   *)
(* its bytes, least significant first (32 bits are four bytes), because    *)
(* TLC's own integers are too narrow.  All arithmetic wraps.               *)
(***************************************************************************)
EXTENDS Naturals, Sequences

Zero(n) == [i \in 1..n |-> 0]
Byte(x, i) == IF i \in DOMAIN x THEN x[i] ELSE 0

(* The same word; TLC would otherwise evaluate the bytes of an operand     *)
(* again for each byte of a result.                                        *)
Evaluated(x) == x \o <<>>

(* Conversion to n bytes: (uint32_t) and (uint64_t) of an unsigned value.  *)
Cast(x, n) == Evaluated([i \in 1..n |-> Byte(x, i)])

(* Conversion of a char to n bytes: sign extended where char is signed.    *)
Char(b, signed, n) ==
    Evaluated([i \in 1..n |-> IF i = 1 THEN b ELSE IF signed /\ b >= 128 THEN 255 ELSE 0])

(* The bits of two bytes that differ, each at its place.                   *)
XorByte(a, b) ==
    LET bit(place) == place * (((a \div place) + (b \div place)) % 2) IN
    bit(1) + bit(2) + bit(4) + bit(8) + bit(16) + bit(32) + bit(64) + bit(128)

XorWord(x, y) == Evaluated([i \in 1..Len(x) |-> XorByte(x[i], y[i])])
Complement(x) == Evaluated([i \in 1..Len(x) |-> 255 - x[i]])

(* Column sums, least significant first, turned into bytes.                *)
Carried(col, n) ==
    LET carry[i \in 0..n] == IF i = 0 THEN 0 ELSE (carry[i - 1] + col[i]) \div 256 IN
    Evaluated([i \in 1..n |-> (carry[i - 1] + col[i]) % 256])

Add(x, y) == Carried(Evaluated([i \in 1..Len(x) |-> x[i] + y[i]]), Len(x))

(* Column i of the long multiplication.                                    *)
Column(x, y, i) ==
    LET sum[j \in 0..i] == IF j = 0 THEN 0 ELSE sum[j - 1] + x[j] * y[i + 1 - j] IN
    sum[i]

Mul(x, y) == Carried(Evaluated([i \in 1..Len(x) |-> Column(x, y, i)]), Len(x))

Power2 == <<1, 2, 4, 8, 16, 32, 64, 128, 256>>     \* Power2[r + 1] is 2^r

Shl(x, k) ==
    LET q == k \div 8
        r == k % 8 IN
    Evaluated([i \in 1..Len(x) |->
        ((Byte(x, i - q) * Power2[r + 1]) % 256) + (Byte(x, i - q - 1) \div Power2[9 - r])])

Shr(x, k) ==
    LET q == k \div 8
        r == k % 8 IN
    Evaluated([i \in 1..Len(x) |->
        (Byte(x, i + q) \div Power2[r + 1]) + ((Byte(x, i + q + 1) * Power2[9 - r]) % 256)])

(* Numerical order of words of the same width.                             *)
Less(x, y) ==
    \E i \in DOMAIN x : x[i] < y[i] /\ \A j \in DOMAIN x : j > i => x[j] = y[j]
=============================================================================
