----------------------------- MODULE DynocParse -----------------------------
(***************************************************************************)
(* token_parse (src/dynoc-token.c): the conversion of a node's decimal     *)
(* token string into a ring position.  The string is cut into groups of    *)
(* DIGITS_PER_INT digits, the first one possibly shorter, and the groups   *)
(* are accumulated into one machine word.  One step per statement of the   *)
(* function, one per iteration of its loop.                                *)
(***************************************************************************)
EXTENDS DynocToken, Sequences, SequencesExt

CONSTANTS
    DIGITS_PER_INT, \* 10 in the code: 10^9 < 2^32 < 10^10
    RADIX_VAL,      \* 0x17179149 = 9^9 in the code
    MaxLen          \* bound: length of the token string

(* Characters: the digits are 0..9; '-', any other character and the       *)
(* terminating NUL are the codes after them.                               *)
Digits == 0..9
MINUS  == 10
LETTER == 11
NUL    == 12
Char   == Digits \cup {MINUS, LETTER}

VARIABLES str, p, token, pc

vars == <<str, p, token, pc>>

TypeOK ==
    /\ str \in Seq(Char) /\ Len(str) <= MaxLen
    /\ p \in Nat
    /\ token \in Token
    /\ pc \in {"sign", "first", "groups", "done"}

At(i) == IF i <= Len(str) THEN str[i] ELSE NUL

(* atoui(line, n): 0 as soon as a character is not a digit.                *)
atoui(line, n) ==
    LET value[i \in 0..n] ==
            IF i = 0 THEN 0 ELSE (value[i - 1] * 10 + At(line + i - 1)) % UINT_MOD IN
    IF \E i \in 1..n : At(line + i - 1) \notin Digits THEN 0 ELSE value[n]

(* Mutant: the accumulator is wider than a uint32_t.                       *)
add_next_word_Wide(word, next_int) == (RADIX_VAL * word) + next_int

(* add_next_word on a buffer of one word, the only length in use: the      *)
(* product and the sum both wrap, and the carry loop has nothing to do.    *)
add_next_word(word, next_int) ==
    (((RADIX_VAL * word) % UINT_MOD) + next_int) % UINT_MOD

(* Mutant: the sign counts as a digit.                                     *)
DigitCount_WithSign == Len(str)

(* `digits` after the sign has been consumed.                              *)
DigitCount == IF At(1) = MINUS THEN Len(str) - 1 ELSE Len(str)

FirstGroupLen ==
    IF DigitCount % DIGITS_PER_INT = 0 THEN DIGITS_PER_INT
    ELSE DigitCount % DIGITS_PER_INT

(* continuum_init: token_init, token_size(1), then token_parse.            *)
Init ==
    /\ str \in BoundedSeq(Char, MaxLen)
    /\ p = 1
    /\ token = token_size(token_init, 1)
    /\ pc = "sign"

(* Mutant: "0" is a positive number.                                       *)
ParseSign_NoZero ==
    /\ pc = "sign"
    /\ IF At(1) = MINUS
       THEN p' = p + 1 /\ token' = [token EXCEPT !.signum = NEGATIVE]
       ELSE token' = [token EXCEPT !.signum = 1] /\ UNCHANGED p
    /\ pc' = "first"
    /\ UNCHANGED str

ParseSign ==
    /\ pc = "sign"
    /\ IF At(1) = MINUS
       THEN p' = p + 1 /\ token' = [token EXCEPT !.signum = NEGATIVE]
       ELSE /\ token' = [token EXCEPT !.signum = IF str = <<0>> THEN 0 ELSE 1]
            /\ UNCHANGED p
    /\ pc' = "first"
    /\ UNCHANGED str

ParseFirstGroup ==
    /\ pc = "first"
    /\ token' = [token EXCEPT !.mag[0] = atoui(p, FirstGroupLen)]
    /\ p' = p + FirstGroupLen
    /\ pc' = "groups"
    /\ UNCHANGED str

ParseNextGroup ==
    /\ pc = "groups" /\ p <= Len(str)
    /\ token' = [token EXCEPT !.mag[0] =
                    add_next_word(@, atoui(p, DIGITS_PER_INT))]
    /\ p' = p + DIGITS_PER_INT
    /\ UNCHANGED <<str, pc>>

ParseReturn ==
    /\ pc = "groups" /\ p > Len(str)
    /\ pc' = "done"
    /\ UNCHANGED <<str, p, token>>

Next == ParseSign \/ ParseFirstGroup \/ ParseNextGroup \/ ParseReturn

Spec == Init /\ [][Next]_vars

-----------------------------------------------------------------------------
(* The integer a string of digits denotes (reference definition).          *)
Value(s) ==
    LET value[i \in 0..Len(s)] == IF i = 0 THEN 0 ELSE value[i - 1] * 10 + s[i] IN
    value[Len(s)]

(* The strings a ring configuration should use: plain decimals without     *)
(* sign or leading zero whose value fits in one word.                      *)
InRange ==
    /\ str # <<>>
    /\ \A i \in DOMAIN str : str[i] \in Digits
    /\ str[1] = 0 => Len(str) = 1
    /\ Value(str) < UINT_MOD

(* Ring order is numeric order: an in-range node token compares with the   *)
(* token of every key hash as its integer value compares with that hash.   *)
RingOrderIsNumeric ==
    pc = "done" /\ InRange =>
        LET value == Value(str) IN
        \A h \in Uint :
            token_cmp(token, token_set_int(token_init, h)) =
                IF value = h THEN 0 ELSE Greater(value > h)

(* The groups tile the string: after the first one every atoui call lies   *)
(* inside the string, so the parser never reads past the terminating NUL.  *)
GroupsTileString ==
    pc \in {"groups", "done"} /\ DigitCount > 0 =>
        /\ p <= Len(str) + 1
        /\ (Len(str) + 1 - p) % DIGITS_PER_INT = 0
=============================================================================
