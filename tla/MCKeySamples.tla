---------------------------- MODULE MCKeySamples ----------------------------
(***************************************************************************)
(* Keys and a ring for model checking the hash functions, as bytes.        *)
(***************************************************************************)
EXTENDS Naturals, Sequences

(* Lengths that leave every remainder modulo 4, and bytes on both sides of *)
(* the sign bit.                                                           *)
ShortKeys == UNION {[1..n -> {97, 200}] : n \in 0..4}
LongKeys == UNION {[1..n -> {127, 255}] : n \in 5..7}
SingleKeys == {<<s>> : s \in ShortKeys \cup LongKeys}

(* "thread12340", "thread24680", ...: the keys with which the workers 1234, *)
(* 2468, ... of multi-thread-example.c begin.                               *)
Thread == <<116, 104, 114, 101, 97, 100>>
Digit(n, d) == 48 + ((n \div 10^d) % 10)
ThreadKeys ==
    [d \in 1..8 |-> Thread \o [i \in 1..4 |-> Digit(1234 * d, 4 - i)] \o <<48>>]

(* The three tokens of the examples, 2^32 / 3 apart.                       *)
ExampleRing == [n \in 1..3 |-> [i \in 1..4 |-> 85 * n]]
=============================================================================
