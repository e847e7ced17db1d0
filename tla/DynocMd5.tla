------------------------------ MODULE DynocMd5 ------------------------------
(***************************************************************************)
(* How hash_md5 cuts a key into the 64-byte blocks of MD5: the counters,   *)
(* the partial block kept in ctx->buffer and the padding.  body() folds    *)
(* the blocks it is given into a, b, c and d, so what matters is which     *)
(* blocks it gets: bytes are labels here.  MD5_Update has external linkage *)
(* and continues a partial block, so the key may come in several calls.    *)
(***************************************************************************)
EXTENDS Naturals, Sequences

CONSTANTS
    MaxSize,    \* bound: length of the key
    MaxUpdates  \* bound, at least 1: calls of MD5_Update; hash_md5 makes one

(* Labels: byte i of the key, a constant byte, the uninitialised rest of   *)
(* the MD5_CTX on the stack.                                               *)
Key(i)   == <<"key", i>>
Const(x) == <<"byte", x>>
Junk     == <<"junk", 0>>

VARIABLES
    size,       \* length of the key
    given,      \* how much of it MD5_Update has been given
    updates,
    lo, hi,     \* ctx->lo (29 bits, counts bytes until MD5_Final), ctx->hi (its low
                \* 32 bits are all that is used, so it is not wrapped here)
    buffer,     \* ctx->buffer
    fed,        \* the bytes given to body(), in order
    pc

vars == <<size, given, updates, lo, hi, buffer, fed, pc>>

Init ==
    /\ size \in 0..MaxSize
    /\ given = 0 /\ updates = 0
    /\ lo = 0 /\ hi = 0                         \* MD5_Init
    /\ buffer = [i \in 0..63 |-> Junk]
    /\ fed = <<>>
    /\ pc = "update"

(* n bytes of the key from byte `from` on.                                 *)
KeyPart(from, n) == [i \in 1..n |-> Key(from + i - 1)]

(* memcpy to and memset of part of the buffer.                             *)
Written(buf, at, bytes) ==
    [i \in 0..63 |-> IF i >= at /\ i < at + Len(bytes) THEN bytes[i - at + 1] ELSE buf[i]]
Zeros(n) == [i \in 1..n |-> Const(0)]
AsBlock(buf) == [i \in 1..64 |-> buf[i - 1]]

(* Mutant: the buffer may fill up without being given to body.             *)
FillsNoBlock_Full(used, n) == used > 0 /\ n <= 64 - used

(* `if (size < free) ... return`, inside `if (used)`.                      *)
FillsNoBlock(used, n) == used > 0 /\ n < 64 - used

(* size & ~0x3f                                                            *)
WholeBlocks(n) == n - (n % 64)

(* MD5_Update(ctx, data, n) with the next n bytes of the key: complete the *)
(* partial block if there is one, then whole blocks straight from the key, *)
(* then keep the rest at the start of the buffer.                          *)
MD5_Update(n) ==
    LET used  == lo % 64
        head  == IF used > 0 THEN 64 - used ELSE 0
        first == Written(buffer, used, KeyPart(given, head))
        whole == WholeBlocks(n - head) IN
    /\ lo' = (lo + n) % 2^29
    /\ hi' = hi + (IF lo' < lo THEN 1 ELSE 0) + (n \div 2^29)
    /\ IF FillsNoBlock(used, n)
       THEN buffer' = Written(buffer, used, KeyPart(given, n)) /\ fed' = fed
       ELSE /\ fed' = fed \o (IF used > 0 THEN AsBlock(first) ELSE <<>>)
                          \o KeyPart(given + head, whole)
            /\ buffer' = Written(first, 0, KeyPart(given + head + whole, n - head - whole))

Update(n) ==
    /\ pc = "update"
    /\ MD5_Update(n)
    /\ given' = given + n /\ updates' = updates + 1
    /\ UNCHANGED <<size, pc>>

(* The last call gets what is left.                                        *)
UpdateSome == updates + 1 < MaxUpdates /\ \E n \in 0..(size - given) : Update(n)
UpdateRest == (given < size \/ updates = 0) /\ Update(size - given)

(* The bytes of `lo << 3` and of hi, least significant first.              *)
LengthBytes ==
    [j \in 1..8 |-> Const(IF j = 1 THEN (lo % 32) * 8
                          ELSE IF j <= 4 THEN (lo \div 2^(8 * (j - 1) - 3)) % 256
                          ELSE (hi \div 2^(8 * (j - 5))) % 256)]

(* Mutant: as if seven bytes were enough for the length.                   *)
NeedsBlock_Tight(free) == free < 7

NeedsBlock(free) == free < 8

(* MD5_Final: the marker, zeros up to the length field, in a block of its  *)
(* own if fewer than 8 bytes are left.                                     *)
MD5_Final ==
    LET used   == (lo % 64) + 1
        free   == 64 - used
        marked == Written(buffer, used - 1, <<Const(128)>>)
        first  == Written(marked, used, Zeros(free))
        last   == IF NeedsBlock(free) THEN Written(first, 0, Zeros(56))
                  ELSE Written(marked, used, Zeros(56 - used)) IN
    fed' = fed \o (IF NeedsBlock(free) THEN AsBlock(first) ELSE <<>>)
               \o AsBlock(Written(last, 56, LengthBytes))

(* ... and the whole context is cleared.                                  *)
Final ==
    /\ pc = "update" /\ updates > 0 /\ given = size
    /\ MD5_Final
    /\ buffer' = [i \in 0..63 |-> Const(0)] /\ lo' = 0 /\ hi' = 0
    /\ pc' = "done"
    /\ UNCHANGED <<size, given, updates>>

Next == UpdateSome \/ UpdateRest \/ Final

Spec == Init /\ [][Next]_vars

-----------------------------------------------------------------------------
(* RFC 1321, 3.1 and 3.2: one 0x80 byte, as few zeros as reach 56 bytes    *)
(* modulo 64, and the low-order 64 bits of the length in bits, least       *)
(* significant byte first: 8 * n is 2^32 times n \div 2^29, and the rest.  *)
Padding(n) == (119 - (n % 64)) % 64
LengthInBits(n) ==
    [j \in 1..8 |-> Const(IF j <= 4 THEN ((n * 8) \div 256^(j - 1)) % 256
                          ELSE ((n \div 2^29) \div 256^(j - 5)) % 256)]
Padded(n) == KeyPart(0, n) \o <<Const(128)>> \o Zeros(Padding(n)) \o LengthInBits(n)

TypeOK ==
    /\ given \in 0..size /\ updates \in 0..MaxUpdates
    /\ lo \in 0..(2^29 - 1) /\ hi \in Nat
    /\ DOMAIN buffer = 0..63
    /\ Len(fed) % 64 = 0
    /\ pc \in {"update", "done"}

(* Between two calls nothing is lost: what body has seen and the valid     *)
(* part of the buffer are the key so far, byte by byte, and lo and hi      *)
(* count it, the carry out of the 29 bits of lo included.                  *)
NothingLost ==
    pc = "update" =>
        /\ fed \o [i \in 1..(lo % 64) |-> buffer[i - 1]] = KeyPart(0, given)
        /\ lo = given % 2^29 /\ hi = given \div 2^29

(* However long the key is and however it was cut, body sees exactly the   *)
(* padded message of RFC 1321, and no uninitialised byte of the buffer.    *)
FeedsPaddedMessage == pc = "done" => fed = Padded(size)
=============================================================================
