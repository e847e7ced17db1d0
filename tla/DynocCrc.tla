------------------------------ MODULE DynocCrc ------------------------------
(***************************************************************************)
(* The tables of hash-crc16.c and hash-crc32.c, computed from the          *)
(* polynomials they stand for.                                             *)
(***************************************************************************)
EXTENDS DynocWord

(* The tables, entry i being the CRC of byte i: CCITT polynomial, most     *)
(* significant bit first, and CRC-32, least significant bit first.         *)
crc16tab ==
    LET entry(i) ==
            LET r[n \in 0..8] ==
                    IF n = 0 THEN <<0, i, 0, 0>>
                    ELSE LET p == r[n - 1]
                             v == Cast(Shl(p, 1), 2) \o <<0, 0>> IN
                         IF p[2] >= 128 THEN XorWord(v, <<\h21, \h10, 0, 0>>) ELSE v IN
            r[8] IN
    [i \in 0..255 |-> entry(i)]

crc32tab ==
    LET entry(i) ==
            LET r[n \in 0..8] ==
                    IF n = 0 THEN <<i, 0, 0, 0>>
                    ELSE LET p == r[n - 1]
                             v == Shr(p, 1) IN
                         IF p[1] % 2 = 1
                         THEN XorWord(v, <<\h20, \h83, \hB8, \hED>>) ELSE v IN
            r[8] IN
    [i \in 0..255 |-> entry(i)]
=============================================================================
