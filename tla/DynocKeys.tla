----------------------------- MODULE DynocKeys -----------------------------
(***************************************************************************)
(* What turns a key or a token string into a place on the ring, side by    *)
(* side: token_parse, hash_jenkins, hash_md5 and the other hash functions, *)
(* which read inputs of any length.  They share no state, so each          *)
(* behaviour runs one of them (`call`) while the variables of the others   *)
(* rest; what holds of a function is said under the condition that it is   *)
(* the one that runs.                                                      *)
(***************************************************************************)
EXTENDS DynocToken, Sequences

CONSTANTS
    DIGITS_PER_INT, RADIX_VAL, MaxLen,          \* DynocParse
    MaxLength,                                  \* DynocJenkins
    MaxSize, MaxUpdates,                        \* DynocMd5
    Algs, Ring, Workloads                       \* DynocBalance

VARIABLES
    call,
    at,                                         \* pc of the function
    str, p, parsed,                             \* DynocParse
    address, k, length, blocks, reads,          \* DynocJenkins
    size,                                       \* DynocJenkins and DynocMd5
    given, updates, lo, hi, buffer, fed,        \* DynocMd5
    alg, key, consumed, hash,                   \* DynocHash
    requests, next, owners                      \* DynocBalance

parseVars == <<str, p, parsed>>
jenkinsVars == <<address, k, length, blocks, reads>>
md5Vars == <<given, updates, lo, hi, buffer, fed>>
hashVars == <<alg, key, consumed, hash, requests, next, owners>>
keysVars == <<call, at, parseVars, jenkinsVars, size, md5Vars, hashVars>>

Parse == INSTANCE DynocParse WITH token <- parsed, pc <- at
Jenkins == INSTANCE DynocJenkins WITH pc <- at
Md5 == INSTANCE DynocMd5 WITH pc <- at
Hashes == INSTANCE DynocBalance WITH x <- consumed, h <- hash, pc <- at

ParseRests == str = "rest" /\ p = "rest" /\ parsed = "rest"
JenkinsRests ==
    address = "rest" /\ k = "rest" /\ length = "rest" /\ blocks = "rest" /\ reads = "rest"
Md5Rests ==
    /\ given = "rest" /\ updates = "rest" /\ lo = "rest" /\ hi = "rest"
    /\ buffer = "rest" /\ fed = "rest"

HashesRest ==
    /\ alg = "rest" /\ key = "rest" /\ consumed = "rest" /\ hash = "rest"
    /\ requests = "rest" /\ next = "rest" /\ owners = "rest"

KeysInit ==
    \/ /\ call = "token_parse" /\ Parse!Init
       /\ JenkinsRests /\ size = "rest" /\ Md5Rests /\ HashesRest
    \/ /\ call = "hash_jenkins" /\ Jenkins!Init
       /\ ParseRests /\ Md5Rests /\ HashesRest
    \/ /\ call = "hash_md5" /\ Md5!Init
       /\ ParseRests /\ JenkinsRests /\ HashesRest
    \/ /\ call = "hash_func" /\ Hashes!Init
       /\ ParseRests /\ JenkinsRests /\ size = "rest" /\ Md5Rests

KeysNext ==
    /\ call' = call
    /\ \/ /\ call = "token_parse" /\ Parse!Next
          /\ UNCHANGED <<jenkinsVars, size, md5Vars, hashVars>>
       \/ /\ call = "hash_jenkins" /\ Jenkins!Next
          /\ UNCHANGED <<parseVars, md5Vars, hashVars>>
       \/ /\ call = "hash_md5" /\ Md5!Next
          /\ UNCHANGED <<parseVars, jenkinsVars, hashVars>>
       \/ /\ call = "hash_func" /\ Hashes!Next
          /\ UNCHANGED <<parseVars, jenkinsVars, size, md5Vars>>

KeysSpec == KeysInit /\ [][KeysNext]_keysVars

-----------------------------------------------------------------------------
(* The types of each function's state: the words and the position of       *)
(* token_parse, the stride of 12 bytes in hash_jenkins, the one block that *)
(* fits the buffer of hash_md5, and the width of h in the others.          *)
ParseTypeOK == call = "token_parse" => Parse!TypeOK
JenkinsTypeOK == call = "hash_jenkins" => Jenkins!TypeOK
Md5TypeOK == call = "hash_md5" => Md5!TypeOK
HashTypeOK == call = "hash_func" => Hashes!HashTypeOK
KeysTypeOK == ParseTypeOK /\ JenkinsTypeOK /\ Md5TypeOK /\ HashTypeOK

(* token_parse: of two token strings in range the larger number is the     *)
(* larger token, so that ring order is numeric order.                      *)
RingOrderIsNumeric == call = "token_parse" => Parse!RingOrderIsNumeric

(* token_parse: the groups of digits it reads cover the string once, from  *)
(* the first digit to the last, and nothing behind it.                     *)
GroupsTileString == call = "token_parse" => Parse!GroupsTileString

(* hash_jenkins: its word, half-word and byte branches mix the same bytes  *)
(* into the same registers, so the owner of a key does not depend on the   *)
(* address of its buffer.                                                  *)
AlignmentIrrelevant == call = "hash_jenkins" => Jenkins!AlignmentIrrelevant

(* hash_jenkins: loads behind the key stay in the aligned word that holds  *)
(* the last byte of the key.                                               *)
ReadsStayInWord == call = "hash_jenkins" => Jenkins!ReadsStayInWord

(* hash_md5: between two updates, the blocks fed and the bytes kept in the *)
(* buffer are the input so far, in order.                                  *)
NothingLost == call = "hash_md5" => Md5!NothingLost

(* hash_md5: the blocks fed are those of the padded message of RFC 1321,   *)
(* however the key is cut into updates.                                    *)
FeedsPaddedMessage == call = "hash_md5" => Md5!FeedsPaddedMessage

(* Whether the compiler's char is signed does not matter to the hash of an *)
(* ASCII key, nor with the CRCs, murmur and murmur3 to the hash of any     *)
(* key (on little endian machines; hash_murmur loads words as they are).   *)
PortableHash == call = "hash_func" => Hashes!PortableHash

(* The CRC functions compute the remainder of polynomial division.         *)
CrcIsRemainder == call = "hash_func" => Hashes!CrcIsRemainder

(* hash_fnv1a_64, which truncates before it multiplies, still returns the  *)
(* low word of the 64-bit hash.                                            *)
LowWordOfFnv1a == call = "hash_func" => Hashes!LowWordOfFnv1a

(* Evenly spaced nodes share the keys of the example with every hash       *)
(* function but crc32 and murmur3, which leave them all to one node.       *)
SpreadsKeys == call = "hash_func" => Hashes!SpreadsKeys
=============================================================================
