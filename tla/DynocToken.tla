----------------------------- MODULE DynocToken -----------------------------
(***************************************************************************)
(* Tokens (src/dynoc-token.c): positions on the ring.  A token is a sign,  *)
(* a length and four machine words; a word is a uint32_t, modelled with    *)
(* the modulus UINT_MOD so that small instances wrap as the code does.     *)
(* The sign is a uint32_t too: -1 is stored as UINT_MOD - 1.               *)
(***************************************************************************)
EXTENDS Integers

CONSTANT UINT_MOD   \* 2^32 in the code

ASSUME UintAssumption == UINT_MOD \in Nat /\ UINT_MOD > 2

Uint == 0..(UINT_MOD - 1)
NEGATIVE == UINT_MOD - 1    \* signum of "-5"

Token == [signum : {0, 1, NEGATIVE}, length : 0..4, mag : [0..3 -> Uint]]

token_init == [signum |-> 0, length |-> 0, mag |-> [i \in 0..3 |-> 0]]

token_size(t, len) == [t EXCEPT !.length = len]

token_set_int(t, val) ==
    [signum |-> IF val > 0 THEN 1 ELSE 0,
     length |-> 1,
     mag    |-> [t.mag EXCEPT ![0] = val]]

(* The sign of a comparison that is known not to be a tie.                 *)
Greater(gt) == IF gt THEN 1 ELSE -1

token_cmp(t1, t2) ==
    LET diff  == {i \in 0..(t1.length - 1) : t1.mag[i] # t2.mag[i]}
        first == CHOOSE i \in diff : \A j \in diff : i <= j IN
    IF t1.signum # t2.signum THEN Greater(t1.signum > t2.signum)
    ELSE IF t1.signum = 0 THEN 0
    ELSE IF t1.length # t2.length THEN Greater(t1.length > t2.length)
    ELSE IF diff = {} THEN 0
    ELSE Greater(t1.mag[first] > t2.mag[first])
=============================================================================
