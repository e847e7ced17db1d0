------------------------------ MODULE DynocHash ------------------------------
(***************************************************************************)
(* The hash functions that fold a key byte by byte or word by word, each   *)
(* turn of a loop a step.  Every key is hashed twice in lockstep: by a     *)
(* build where char is signed (x86) and by one where it is not (ARM),      *)
(* which have to find the same node for a key.  Both are little endian.    *)
(* hash_md5 and hash_jenkins have modules of their own.                    *)
(***************************************************************************)
EXTENDS DynocCrc

CONSTANT Algs   \* the functions to check, by name

VARIABLES
    alg, key,
    x,          \* bytes of the key consumed
    h,          \* the hash so far: h[TRUE] where char is signed
    pc

hashVars == <<alg, key, x, h, pc>>

ByteAlgs == {"one_at_a_time", "crc16", "crc32", "crc32a", "fnv1_64", "fnv1a_64",
             "fnv1_32", "fnv1a_32"}
WordAlgs == {"hsieh", "murmur"}

-----------------------------------------------------------------------------
FNV_64_INIT == <<\h25, \h23, \h22, \h84, \hE4, \h9C, \hF2, \hCB>>
FNV_64_PRIME == <<\hB3, 1, 0, 0, 0, 1, 0, 0>>
FNV_32_INIT == <<\hC5, \h9D, \h1C, \h81>>
FNV_32_PRIME == <<\h93, 1, 0, 1>>
murmur_m     == <<\h95, \hE9, \hD1, \h5B>>
deadbeef     == <<\hEF, \hBE, \hAD, \hDE>>

(* One turn of each loop; c is the byte, widened as the build does it.     *)
(* Mutants: the register of a CRC-16 is kept to 16 bits; the index is      *)
(* computed from the low byte.                                             *)
crc16_Narrow(v, c) == XorWord(Cast(Shl(v, 8), 2) \o <<0, 0>>, crc16tab[XorByte(v[2], c[1])])
crc16_LowByte(v, c) == XorWord(Shl(v, 8), crc16tab[XorByte(v[1], c[1])])

crc16(v, c) == XorWord(Shl(v, 8), crc16tab[XorByte(v[2], c[1])])

crc32(v, c) == XorWord(Shr(v, 8), crc32tab[XorByte(v[1], c[1])])

fnv1(v, c, prime)  == XorWord(Mul(v, prime), c)

(* Mutant: multiply, then xor.                                             *)
fnv1a_Swapped(v, c, prime) == XorWord(Mul(v, prime), c)

fnv1a(v, c, prime) == Mul(XorWord(v, c), prime)

AddShl(v, k) == Add(v, Shl(v, k))
AddShr(v, k) == Add(v, Shr(v, k))
XorShl(v, k) == XorWord(v, Shl(v, k))
XorShr(v, k) == XorWord(v, Shr(v, k))

one_at_a_time(v, c) == XorShr(AddShl(Add(v, c), 10), 6)

(* Bytes at..at+1 of the key as a 16-bit, at..at+3 as a 32-bit number.     *)
(* hash_murmur loads the latter in the byte order of the machine: this is  *)
(* the little endian one; a big endian client hashes differently.          *)
get16bits(at) == <<key[at + 1], key[at + 2], 0, 0>>
get32bits(at) == <<key[at + 1], key[at + 2], key[at + 3], key[at + 4]>>

hsieh(v, at) ==
    LET sum == Add(v, get16bits(at))
        tmp == XorWord(Shl(get16bits(at + 2), 11), sum) IN
    AddShr(XorWord(Shl(sum, 16), tmp), 11)

murmur(v, at) ==
    XorWord(Mul(v, murmur_m), Mul(XorShr(Mul(get32bits(at), murmur_m), 24), murmur_m))

-----------------------------------------------------------------------------
(* The length of the key as a 32-bit number.                               *)
Length32(n) == <<n % 256, (n \div 256) % 256, (n \div 65536) % 256, (n \div 16777216) % 256>>

(* Before the loop.                                                        *)
Seed(a, n) ==
    CASE a \in {"crc32", "crc32a"}     -> Complement(Zero(4))
      [] a = "fnv1_64"                 -> FNV_64_INIT
      [] a = "fnv1a_64"                -> Cast(FNV_64_INIT, 4)
      [] a \in {"fnv1_32", "fnv1a_32"} -> FNV_32_INIT
      [] a = "murmur"                  -> XorWord(Mul(deadbeef, Length32(n)), Length32(n))
      [] OTHER                         -> Zero(4)

Stride == IF alg \in ByteAlgs THEN 1 ELSE 4

Mixed(v, signed) ==
    LET c == Char(key[x + 1], signed, Len(v)) IN
    CASE alg = "one_at_a_time"        -> one_at_a_time(v, c)
      [] alg = "crc16"                -> crc16(v, c)
      [] alg \in {"crc32", "crc32a"}  -> crc32(v, c)
      [] alg = "fnv1_64"              -> fnv1(v, c, FNV_64_PRIME)
      [] alg = "fnv1a_64"             -> fnv1a(v, c, Cast(FNV_64_PRIME, 4))
      [] alg = "fnv1_32"              -> fnv1(v, c, FNV_32_PRIME)
      [] alg = "fnv1a_32"             -> fnv1a(v, c, FNV_32_PRIME)
      [] alg = "hsieh"                -> hsieh(v, x)
      [] alg = "murmur"               -> murmur(v, x)

(* The last 1..3 bytes; hash_hsieh reads the third as a char, the others   *)
(* as unsigned.                                                            *)
hsieh_tail(v, signed) ==
    CASE Len(key) - x = 3 ->
            LET w == XorShl(Add(v, get16bits(x)), 16) IN
            AddShr(XorWord(w, Shl(Char(key[x + 3], signed, 4), 18)), 11)
      [] Len(key) - x = 2 -> AddShr(XorShl(Add(v, get16bits(x)), 11), 17)
      [] Len(key) - x = 1 -> AddShr(XorShl(Add(v, <<key[x + 1], 0, 0, 0>>), 10), 1)
      [] OTHER -> v

(* Mutant: the last bytes are read as chars.                               *)
murmur_tail_Signed(v, signed) ==
    LET w(i) == IF x + i <= Len(key) THEN Shl(Char(key[x + i], signed, 4), 8 * (i - 1))
                ELSE Zero(4) IN
    IF x < Len(key) THEN Mul(XorWord(XorWord(XorWord(v, w(3)), w(2)), w(1)), murmur_m) ELSE v

murmur_tail(v, signed) ==
    LET last == [i \in 1..4 |-> IF x + i <= Len(key) THEN key[x + i] ELSE 0] IN
    IF x < Len(key) THEN Mul(XorWord(v, last), murmur_m) ELSE v

(* After the loop.                                                         *)
Finished(v, signed) ==
    CASE alg = "one_at_a_time" -> AddShl(XorShr(AddShl(v, 3), 11), 15)
      [] alg = "crc32"   -> LET w == Complement(v) IN <<w[3], w[4] % 128, 0, 0>>
      [] alg = "crc32a"  -> Complement(v)
      [] alg = "fnv1_64" -> Cast(v, 4)
      [] alg = "hsieh"   ->
            IF key = <<>> THEN Zero(4)
            ELSE AddShr(XorShl(AddShr(XorShl(AddShr(XorShl(
                    hsieh_tail(v, signed), 3), 5), 4), 17), 25), 6)
      [] alg = "murmur"  -> XorShr(Mul(XorShr(murmur_tail(v, signed), 13), murmur_m), 15)
      [] OTHER -> v      \* hash_murmur3 is `return 0`

Start(a, k) ==
    /\ alg = a /\ key = k /\ x = 0
    /\ h = [signed \in BOOLEAN |-> Seed(a, Len(k))]
    /\ pc = "loop"

Turn ==
    /\ pc = "loop" /\ alg # "murmur3" /\ x + Stride <= Len(key)
    /\ h' = [signed \in BOOLEAN |-> Mixed(h[signed], signed)]
    /\ x' = x + Stride
    /\ UNCHANGED <<alg, key, pc>>

Return ==
    /\ pc = "loop" /\ (alg = "murmur3" \/ x + Stride > Len(key))
    /\ h' = [signed \in BOOLEAN |-> Finished(h[signed], signed)]
    /\ x' = Len(key)
    /\ pc' = "done"
    /\ UNCHANGED <<alg, key>>

HashNext == Turn \/ Return

-----------------------------------------------------------------------------
HashTypeOK ==
    /\ x \in 0..Len(key)
    /\ \A signed \in BOOLEAN :
          /\ DOMAIN h[signed] = 1..(IF alg = "fnv1_64" /\ pc = "loop" THEN 8 ELSE 4)
          /\ \A i \in DOMAIN h[signed] : h[signed][i] \in 0..255
    /\ pc \in {"loop", "done"}

(* Little endian clients with signed and with unsigned char agree on the   *)
(* node of a key: always with the CRCs, murmur and murmur3, with the other *)
(* functions as long as the key is ASCII.                                  *)
PortableHash ==
    /\ pc = "done"
    /\ \/ alg \in {"crc16", "crc32", "crc32a", "murmur", "murmur3"}
       \/ \A i \in DOMAIN key : key[i] < 128
    => h[TRUE] = h[FALSE]

(* The remainder of the key as a polynomial, bit by bit.                   *)
Bit(n, i) == (n \div Power2[i + 1]) % 2
Remainder16(n) ==
    LET r[i \in 0..(8 * n)] ==
            IF i = 0 THEN Zero(2)
            ELSE LET p == r[i - 1]
                     v == Shl(p, 1)
                     in == Bit(key[((i - 1) \div 8) + 1], 7 - ((i - 1) % 8)) IN
                 IF (p[2] \div 128) # in THEN XorWord(v, <<\h21, \h10>>) ELSE v IN
    r[8 * n]
Remainder32(n) ==
    LET r[i \in 0..(8 * n)] ==
            IF i = 0 THEN Complement(Zero(4))
            ELSE LET p == r[i - 1]
                     v == Shr(p, 1)
                     in == Bit(key[((i - 1) \div 8) + 1], (i - 1) % 8) IN
                 IF p[1] % 2 # in THEN XorWord(v, <<\h20, \h83, \hB8, \hED>>) ELSE v IN
    r[8 * n]

(* Table lookup by the masked byte computes CRCs: the low half of the      *)
(* register of hash_crc16 is the CRC-16 of the bytes so far, although the  *)
(* register is 32 bits wide and never masked; hash_crc32a returns the      *)
(* CRC-32, and hash_crc32 fifteen bits of its upper half.                  *)
CrcIsRemainder ==
    /\ alg = "crc16" => \A signed \in BOOLEAN : Cast(h[signed], 2) = Remainder16(x)
    /\ (alg \in {"crc32", "crc32a"} /\ pc = "loop") =>
          \A signed \in BOOLEAN : h[signed] = Remainder32(x)
    /\ (alg = "crc32a" /\ pc = "done") => h[TRUE] = Complement(Remainder32(x))
    /\ (alg = "crc32" /\ pc = "done") =>
          LET std == Complement(Remainder32(x)) IN h[TRUE] = <<std[3], std[4] % 128, 0, 0>>

(* hash_fnv1a_64 multiplies in 32 bits and yet returns the low word of     *)
(* FNV-1a with 64 bits.                                                    *)
Fnv1a64(n) ==
    LET r[i \in 0..n] ==
            IF i = 0 THEN FNV_64_INIT
            ELSE Mul(XorWord(r[i - 1], Cast(<<key[i]>>, 8)), FNV_64_PRIME) IN
    r[n]
LowWordOfFnv1a == alg = "fnv1a_64" => h[FALSE] = Cast(Fnv1a64(x), 4)
=============================================================================
