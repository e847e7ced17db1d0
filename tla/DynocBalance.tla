---------------------------- MODULE DynocBalance ----------------------------
(***************************************************************************)
(* Key after key through a hash function and the ring: the workers of      *)
(* examples/multi-thread-example.c set keys of their own, and each command *)
(* asks the node that owns the key's hash.  What a hash function is good   *)
(* for in this client is that the nodes share the keys.                    *)
(***************************************************************************)
EXTENDS DynocHash, FiniteSets

CONSTANTS
    Ring,       \* the tokens of a rack in ring order
    Workloads   \* sequences of keys, in the order of the commands

VARIABLES
    requests,   \* the workload
    next,       \* the request that is being hashed
    owners      \* history: the nodes that the requests so far went to

vars == <<hashVars, requests, next, owners>>

(* select_continuum, by what it returns: the first node whose token is not *)
(* less than the hash, the first of all behind the last token.             *)
Owner(value) ==
    LET behind == {n \in DOMAIN Ring : ~Less(Ring[n], value)} IN
    IF behind = {} THEN 1 ELSE CHOOSE n \in behind : \A m \in behind : n <= m

Init ==
    /\ requests \in Workloads
    /\ \E a \in Algs : Start(a, requests[1])
    /\ next = 1 /\ owners = {}

Hash == HashNext /\ UNCHANGED <<requests, next, owners>>

(* The command is sent, the next one hashes the next key.                  *)
Request ==
    /\ pc = "done" /\ next <= Len(requests)
    /\ owners' = owners \cup {Owner(h[TRUE])}
    /\ next' = next + 1
    /\ UNCHANGED <<alg, requests>>
    /\ IF next < Len(requests)
       THEN /\ key' = requests[next + 1] /\ x' = 0 /\ pc' = "loop"
            /\ h' = [signed \in BOOLEAN |-> Seed(alg, Len(key'))]
       ELSE UNCHANGED <<key, x, h, pc>>

Next == Hash \/ Request

Spec == Init /\ [][Next]_vars

-----------------------------------------------------------------------------
(* README.md:7 "Topology aware load balancing": with evenly spaced tokens  *)
(* the commands of a workload that is long enough to reach every node      *)
(* twice do not all end at one node, except with two hash functions that   *)
(* cannot balance any load: the 15 bits of crc32 lie before the first      *)
(* token (hash-crc32.c:112), and murmur3 is 0 for every key.               *)
SpreadsKeys ==
    next > Len(requests) /\ Len(requests) > 2 * Len(Ring) =>
        (Cardinality(owners) = 1 <=> alg \in {"crc32", "murmur3"})
=============================================================================
