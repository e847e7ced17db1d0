----------------------------- MODULE DynocSetup -----------------------------
(***************************************************************************)
(* Configuring a client: the calls between dynoc_init and dynoc_start, in  *)
(* any order the caller likes, over the C arrays they fill in.  Most of    *)
(* the calls return 0 whatever they do: a second datacenter, a rack too    *)
(* many and a node for a rack nobody named are dropped in silence, racks   *)
(* with equal names share their nodes, and nothing compares ncontinuum     *)
(* with node_count.  Undefined behaviour ends a behaviour of this module.  *)
(* Left out are failing copies of a datacenter's name, which is only       *)
(* logged, and of a node's host and password, which no array depends on:   *)
(* the node then has no host, or is used without password.                 *)
(***************************************************************************)
EXTENDS Naturals, Sequences

CONSTANTS
    DCs,        \* dc_type arguments
    Names,      \* rc_name arguments
    Counts,     \* rack_count and node_count arguments
    HashNames,  \* hash_name arguments
    NULL,
    MaxSetup,   \* bound: configuration calls
    MaxFailures \* bound: allocations that fail

LOCAL_DC  == "LOCAL_DC"
REMOTE_DC == "REMOTE_DC"

(* HASH_CODEC expands to the enumeration, to the names and to the          *)
(* functions, in this order; functions are called by their names here.     *)
HASH_CODEC ==
    <<"one_at_a_time", "md5", "crc16", "crc32", "crc32a", "fnv1_64", "fnv1a_64",
      "fnv1_32", "fnv1a_32", "hsieh", "murmur", "jenkins", "murmur3">>
HASH_INVALID == Len(HASH_CODEC)
DEFAULT_HASH == 10

hash_strings == [i \in 0..(HASH_INVALID - 1) |-> HASH_CODEC[i + 1]]
hash_algos   == [i \in 0..(HASH_INVALID - 1) |-> HASH_CODEC[i + 1]]

get_hash_func(type) == IF type \in DOMAIN hash_algos THEN hash_algos[type] ELSE NULL

(* Mutant: the search starts after the first entry.                        *)
get_hash_type_FromSecond(name) ==
    IF \E i \in 1..(HASH_INVALID - 1) : hash_strings[i] = name
    THEN CHOOSE i \in 1..(HASH_INVALID - 1) : hash_strings[i] = name
    ELSE HASH_INVALID

get_hash_type(name) ==
    IF \E i \in DOMAIN hash_strings : hash_strings[i] = name
    THEN CHOOSE i \in DOMAIN hash_strings : hash_strings[i] = name
    ELSE HASH_INVALID

(* A struct rack.  `continuum` holds the filled entries, ncontinuum of     *)
(* them, each standing for the call that added it; NULL when the array was *)
(* not allocated.                                                          *)
Rack == [name : Names \cup {NULL}, node_count : Nat, continuum : Seq(Nat) \cup {NULL}]
RackArrays == UNION {[1..n -> Rack] : n \in Counts}
Datacenter == [rack_count : Counts, rack : RackArrays \cup {NULL}]

ASSUME SetupAssumption ==
    /\ DCs \subseteq {LOCAL_DC, REMOTE_DC}
    /\ Counts \subseteq Nat \ {0}
    /\ MaxSetup \in Nat /\ MaxFailures \in Nat

(* NULL differs from every pointer to something.                           *)
ASSUME NullAssumption ==
    /\ NULL \notin Names /\ NULL \notin Seq(Nat)
    /\ \A n \in Counts : NULL \notin [1..n -> Rack]
    /\ NULL \notin Datacenter
    /\ \A i \in DOMAIN HASH_CODEC : NULL # HASH_CODEC[i]

VARIABLES
    dc,         \* local_dc and remote_dc: NULL, or rack_count and the rack array
    hash_type, hash_func,
    phase,      \* "setup", "running" (after dynoc_start) or "undefined"
    calls,
    failures,
    asked,      \* history: what the caller asked of each datacenter: racks, the
                \* nodes of each name, how often, and whether too early
    hashAsked   \* history: the last hash_name that was not NULL

vars == <<dc, hash_type, hash_func, phase, calls, failures, asked, hashAsked>>
historyVars == <<asked, hashAsked>>

BlankRack == [name |-> NULL, node_count |-> 0, continuum |-> NULL]
ncontinuum(rack) == IF rack.continuum = NULL THEN 0 ELSE Len(rack.continuum)

Init ==
    /\ dc = [t \in DCs |-> NULL]
    /\ hash_type = DEFAULT_HASH /\ hash_func = NULL
    /\ phase = "setup" /\ calls = 0 /\ failures = 0
    /\ asked = [t \in DCs |-> [racks |-> <<>>, nodes |-> [name \in Names |-> <<>>],
                             dcs |-> 0, early |-> FALSE]]
    /\ hashAsked = NULL

Calling ==
    /\ phase = "setup" /\ calls < MaxSetup
    /\ calls' = calls + 1

(* One of the allocations of a call fails.                                 *)
OutOfMemory == failures < MaxFailures /\ failures' = failures + 1
Undefined == phase' = "undefined" /\ UNCHANGED <<dc, hash_type, hash_func>>
Defined == UNCHANGED <<hash_type, hash_func, phase>>

-----------------------------------------------------------------------------
(* A second call finds the datacenter and returns 0.  Without memory for   *)
(* the racks the datacenter claims racks it does not have.                 *)
dynoc_datacenter_init(t, rack_count) ==
    /\ Calling
    /\ asked' = [asked EXCEPT ![t].dcs = @ + 1]
    /\ Defined /\ UNCHANGED hashAsked
    /\ \/ /\ dc[t] # NULL
          /\ UNCHANGED <<dc, failures>>
       \/ /\ dc[t] = NULL
          /\ dc' = [dc EXCEPT ![t] = [rack_count |-> rack_count,
                                      rack |-> [i \in 1..rack_count |-> BlankRack]]]
          /\ UNCHANGED failures
       \/ /\ dc[t] = NULL /\ OutOfMemory
          /\ \/ UNCHANGED dc
             \/ dc' = [dc EXCEPT ![t] = [rack_count |-> rack_count, rack |-> NULL]]

HasRacks(t) == dc[t] # NULL /\ dc[t].rack # NULL

(* Mutant: the name is not tested.                                         *)
FirstUnnamed_First(t, i) == i = 1

(* `if (!rack->name)`: the first rack without a name.                      *)
FirstUnnamed(t, i) ==
    /\ dc[t].rack[i].name = NULL
    /\ \A j \in 1..(i - 1) : dc[t].rack[j].name # NULL

SetRack(t, i, rack) == dc' = [dc EXCEPT ![t].rack[i] = rack]
NewRack(name, node_count) ==
    [name |-> name, node_count |-> node_count, continuum |-> <<>>]

dynoc_rack_init(t, node_count, name) ==
    /\ Calling
    /\ asked' = [asked EXCEPT ![t].racks = Append(@, [name |-> name, node_count |-> node_count]),
                              ![t].early = @ \/ dc[t] = NULL]
    /\ UNCHANGED hashAsked
    /\ \/ ~HasRacks(t) /\ Undefined /\ UNCHANGED failures
       \/ /\ HasRacks(t) /\ Defined
          /\ \A i \in 1..dc[t].rack_count : dc[t].rack[i].name # NULL
          /\ UNCHANGED <<dc, failures>>
       \/ /\ HasRacks(t)
          /\ \E i \in 1..dc[t].rack_count :
               /\ FirstUnnamed(t, i)
               /\ \/ SetRack(t, i, NewRack(name, node_count)) /\ Defined /\ UNCHANGED failures
                  \/ /\ OutOfMemory
                     /\ \/ SetRack(t, i, NewRack(NULL, node_count)) /\ Defined
                        \/ SetRack(t, i, [NewRack(name, node_count) EXCEPT !.continuum = NULL])
                           /\ Defined
                        \/ Undefined

(* The write goes to continuum[ncontinuum].                                *)
Overruns(rack) == rack.continuum = NULL \/ ncontinuum(rack) >= rack.node_count

(* Mutant: ncontinuum stays where it is.                                   *)
AddTo_NoCount(rack, node) == [rack EXCEPT !.continuum = <<node>>]

AddTo(rack, node) == [rack EXCEPT !.continuum = Append(@, node)]

(* Mutant: only the last rack is considered.                               *)
Named_LastOnly(t, name) ==
    {i \in 1..dc[t].rack_count : dc[t].rack[i].name = name /\ i = dc[t].rack_count}

Named(t, name) == {i \in 1..dc[t].rack_count : dc[t].rack[i].name = name}

(* Every rack of that name gets the node, and none is no error.            *)
dynoc_add_node(t, name) ==
    /\ Calling
    /\ asked' = [asked EXCEPT ![t].nodes[name] = Append(@, calls),
                              ![t].early = \/ @ \/ dc[t] = NULL
                                           \/ \A i \in DOMAIN asked[t].racks :
                                                 asked[t].racks[i].name # name]
    /\ UNCHANGED hashAsked
    /\ \/ /\ HasRacks(t) => \E i \in Named(t, name) : Overruns(dc[t].rack[i])
          /\ Undefined /\ UNCHANGED failures
       \/ /\ HasRacks(t) /\ \A i \in Named(t, name) : ~Overruns(dc[t].rack[i])
          /\ dc' = [dc EXCEPT ![t].rack =
                       [i \in 1..dc[t].rack_count |->
                          IF i \in Named(t, name) THEN AddTo(@[i], calls) ELSE @[i]]]
          /\ Defined /\ UNCHANGED failures
       \/ /\ HasRacks(t) /\ Named(t, name) # {}     \* no memory for the token
          /\ OutOfMemory /\ Undefined

(* Mutant: an unknown name leaves HASH_INVALID.                            *)
dynoc_hash_type_init_Invalid(name) ==
    /\ Calling
    /\ hash_type' = IF name = NULL THEN hash_type ELSE get_hash_type(name)
    /\ hashAsked' = IF name = NULL THEN hashAsked ELSE name
    /\ UNCHANGED <<dc, hash_func, phase, failures, asked>>

dynoc_hash_type_init(name) ==
    /\ Calling
    /\ hash_type' = IF name = NULL THEN hash_type
                    ELSE IF get_hash_type(name) = HASH_INVALID THEN DEFAULT_HASH
                    ELSE get_hash_type(name)
    /\ hashAsked' = IF name = NULL THEN hashAsked ELSE name
    /\ UNCHANGED <<dc, hash_func, phase, failures, asked>>

(* redis_connection_pool_init touches every rack the datacenter claims.    *)
dynoc_start ==
    /\ phase = "setup"
    /\ UNCHANGED <<calls, failures, historyVars>>
    /\ IF \E t \in DCs : dc[t] # NULL /\ dc[t].rack = NULL
       THEN Undefined
       ELSE /\ hash_func' = get_hash_func(hash_type)
            /\ phase' = "running"
            /\ UNCHANGED <<dc, hash_type>>

(* A command reaches every local rack and the first remote one; without a  *)
(* local datacenter it fails at once.  select_continuum reads the last     *)
(* entry of the ring it searches, which an empty ring does not have.       *)
SelectsEmptyRing(t, i) ==
    /\ phase = "running"
    /\ LOCAL_DC \in DCs /\ dc[LOCAL_DC] # NULL /\ dc[t] # NULL
    /\ t = REMOTE_DC => i = 1
    /\ ncontinuum(dc[t].rack[i]) = 0
    /\ Undefined
    /\ UNCHANGED <<calls, failures, historyVars>>

(* The first pass of reconnect_thread visits node_count slots of every     *)
(* rack, all of them INVALID where no continuum was allocated, and reads   *)
(* the host of each through that NULL pointer.                             *)
ReconnectsNowhere(t, i) ==
    /\ phase = "running" /\ dc[t] # NULL
    /\ dc[t].rack[i].continuum = NULL /\ dc[t].rack[i].node_count > 0
    /\ Undefined
    /\ UNCHANGED <<calls, failures, historyVars>>

Next ==
    \/ \E t \in DCs, n \in Counts : dynoc_datacenter_init(t, n)
    \/ \E t \in DCs, n \in Counts, name \in Names : dynoc_rack_init(t, n, name)
    \/ \E t \in DCs, name \in Names : dynoc_add_node(t, name)
    \/ \E name \in HashNames : dynoc_hash_type_init(name)
    \/ dynoc_start
    \/ \E t \in DCs :
          dc[t] # NULL /\ \E i \in 1..dc[t].rack_count :
                              SelectsEmptyRing(t, i) \/ ReconnectsNowhere(t, i)

Spec == Init /\ [][Next]_vars

-----------------------------------------------------------------------------
(* What the caller has to do, in terms of the calls alone.                 *)
NodesAsked(t, name) == asked[t].nodes[name]

(* So far: one dynoc_datacenter_init first, racks with distinct names and  *)
(* no more than rack_count, each before its nodes, and no more than        *)
(* node_count nodes for any of them.                                       *)
LegalFor(t) ==
    LET racks == asked[t].racks IN
    /\ ~asked[t].early /\ asked[t].dcs <= 1
    /\ Len(racks) <= IF dc[t] = NULL THEN 0 ELSE dc[t].rack_count
    /\ \A i, j \in DOMAIN racks : racks[i].name = racks[j].name => i = j
    /\ \A i \in DOMAIN racks : Len(NodesAsked(t, racks[i].name)) <= racks[i].node_count

LegalSoFar == \A t \in DCs : LegalFor(t)

(* At dynoc_start: all racks asked for, none of them without a node.       *)
Complete ==
    \A t \in DCs :
        dc[t] # NULL =>
            /\ Len(asked[t].racks) = dc[t].rack_count
            /\ \A i \in DOMAIN asked[t].racks : NodesAsked(t, asked[t].racks[i].name) # <<>>

(* Types only.  That no array overruns is no type: an overrun is one of    *)
(* the ways to `undefined`, which ContractSuffices is about.               *)
SetupTypeOK ==
    /\ hash_type \in DOMAIN hash_algos
    /\ hash_func \in {hash_algos[i] : i \in DOMAIN hash_algos} \cup {NULL}
    /\ phase \in {"setup", "running", "undefined"}
    /\ calls \in 0..MaxSetup /\ failures \in 0..MaxFailures
    /\ \A t \in DCs : HasRacks(t) =>
          \A i \in 1..dc[t].rack_count : dc[t].rack[i] \in Rack

(* The contract is sufficient: a caller who keeps to it meets no undefined *)
(* behaviour, neither in the configuration calls nor in the commands after *)
(* dynoc_start, although no call checks an index, a pointer or the order.  *)
ContractSuffices ==
    (phase = "undefined" /\ failures = 0) =>
        ~LegalSoFar \/ (hash_func # NULL /\ ~Complete)

(* It establishes what DynocPool assumes of its topology: every rack has a *)
(* name of its own and between one and node_count nodes.                   *)
EstablishesTopology ==
    (phase = "running" /\ LegalSoFar /\ Complete /\ failures = 0) =>
        \A t \in DCs : dc[t] # NULL =>
            \A i \in 1..dc[t].rack_count :
                LET rack == dc[t].rack[i] IN
                /\ rack.name # NULL
                /\ \A j \in 1..dc[t].rack_count : dc[t].rack[j].name = rack.name => i = j
                /\ ncontinuum(rack) \in 1..rack.node_count

(* No ring with a hole: a rack that serves keys at all has every node that *)
(* was asked for its name, in the order of the calls, also after a failed  *)
(* allocation that no return code told of.                                 *)
RingsComplete ==
    (phase = "running" /\ LegalSoFar) =>
        \A t \in DCs : dc[t] # NULL =>
            \A i \in 1..dc[t].rack_count :
                LET rack == dc[t].rack[i] IN
                ncontinuum(rack) > 0 => rack.continuum = NodesAsked(t, rack.name)

(* Keys are hashed by the function the caller named last before            *)
(* dynoc_start, by murmur if that name is unknown or there was none, and   *)
(* never through a NULL pointer.                                           *)
HashFollowsCaller ==
    phase = "running" =>
        hash_func = IF \E i \in DOMAIN HASH_CODEC : HASH_CODEC[i] = hashAsked
                    THEN hashAsked ELSE "murmur"
=============================================================================
