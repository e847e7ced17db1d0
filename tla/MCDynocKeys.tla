---------------------------- MODULE MCDynocKeys ----------------------------
(***************************************************************************)
(* The functions on the way from a key or a token string to a node: those  *)
(* of DynocKeys and the lookup in a ring.  They share no state either, so  *)
(* `call` says here too which of them runs.                                *)
(***************************************************************************)
EXTENDS DynocRing, DynocKeys, MCKeySamples

TestedAlgs ==
    {"one_at_a_time", "crc16", "crc32", "crc32a", "fnv1_64", "fnv1a_64",
     "fnv1_32", "fnv1a_32", "hsieh", "murmur", "murmur3"}
TestedWorkloads == SingleKeys \cup {ThreadKeys}

allVars == <<vars, keysVars>>

MCInit ==
    /\ Init
    /\ \/ /\ call = "select_continuum" /\ at = "rest" /\ size = "rest"
          /\ ParseRests /\ JenkinsRests /\ Md5Rests /\ HashesRest
       \/ KeysInit

(* Words at the ends of their range, in the middle, and next to each other. *)
SampleWords == {0, 1, 15, UINT_MOD - 1}
OneWord(s, w) == [signum |-> s, length |-> 1, mag |-> [i \in 0..3 |-> IF i = 0 THEN w ELSE 0]]
SampleTokens ==
    {OneWord(0, 0)} \cup {OneWord(s, w) : s \in {1, NEGATIVE}, w \in SampleWords}

Lookup ==
    /\ call = "select_continuum"
    /\ \/ \E t \in SampleTokens : dynoc_add_node(t)
       \/ redis_connection_pool_init
       \/ \E w \in SampleWords : select_connection(w)
       \/ Search
    /\ UNCHANGED keysVars

MCNext ==
    \/ Lookup
    \/ KeysNext /\ UNCHANGED vars

(* As in DynocRing, the searching thread keeps running.                    *)
MCSpec == MCInit /\ [][MCNext]_allVars /\ WF_allVars(Lookup /\ Search)
=============================================================================
