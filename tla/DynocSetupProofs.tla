-------------------------- MODULE DynocSetupProofs --------------------------
(***************************************************************************)
(* What the configuration calls leave behind, for any number of calls,     *)
(* racks, nodes, names and failing allocations.                            *)
(***************************************************************************)
EXTENDS DynocSetup, TLAPS

AskedRack == [name : Names, node_count : Counts]
Wish == [racks : Seq(AskedRack), nodes : [Names -> Seq(Nat)], dcs : Nat, early : BOOLEAN]

Types ==
    /\ dc \in [DCs -> Datacenter \cup {NULL}]
    /\ \A t \in DCs : HasRacks(t) => dc[t].rack \in [1..dc[t].rack_count -> Rack]
    /\ asked \in [DCs -> Wish]
    /\ phase \in {"setup", "running", "undefined"}
    /\ calls \in 0..MaxSetup /\ failures \in 0..MaxFailures

(* hash_type selects the function that the caller has asked for.           *)
HashAsked ==
    IF \E i \in DOMAIN HASH_CODEC : HASH_CODEC[i] = hashAsked THEN hashAsked ELSE "murmur"

HashChosen ==
    /\ hash_type \in DOMAIN hash_algos /\ hash_algos[hash_type] = HashAsked
    /\ hash_func \in {hash_algos[i] : i \in DOMAIN hash_algos} \cup {NULL}
    /\ phase = "setup" => hash_func = NULL
    /\ phase = "running" => hash_func = HashAsked

-----------------------------------------------------------------------------
(* The hash functions.                                                     *)

(* The three expansions of HASH_CODEC agree.                               *)
LEMMA CodecTables ==
    /\ HASH_INVALID = 13 /\ DOMAIN HASH_CODEC = 1..13
    /\ DOMAIN hash_algos = 0..12 /\ DOMAIN hash_strings = 0..12
    /\ \A i \in 0..12 : hash_algos[i] = HASH_CODEC[i + 1] /\ hash_strings[i] = HASH_CODEC[i + 1]
    /\ DEFAULT_HASH \in 0..12 /\ hash_algos[DEFAULT_HASH] = "murmur"
<1>1. Len(HASH_CODEC) = 13 /\ DOMAIN HASH_CODEC = 1..13
  BY DEF HASH_CODEC
<1>2. HASH_INVALID = 13
  BY <1>1 DEF HASH_INVALID
<1>3. HASH_CODEC[11] = "murmur"
  BY DEF HASH_CODEC
<1> HIDE DEF HASH_CODEC
<1>4. /\ DOMAIN hash_algos = 0..12 /\ DOMAIN hash_strings = 0..12
      /\ \A i \in 0..12 : hash_algos[i] = HASH_CODEC[i + 1] /\ hash_strings[i] = HASH_CODEC[i + 1]
  BY <1>2 DEF hash_algos, hash_strings
<1> QED BY <1>1, <1>2, <1>3, <1>4 DEF DEFAULT_HASH

(* get_hash_type finds the number of a known name.                         *)
LEMMA HashTypeFound ==
    ASSUME NEW name
    PROVE  IF \E i \in DOMAIN HASH_CODEC : HASH_CODEC[i] = name
           THEN get_hash_type(name) \in 0..12 /\ hash_algos[get_hash_type(name)] = name
           ELSE get_hash_type(name) = HASH_INVALID
<1>1. CASE \E i \in DOMAIN HASH_CODEC : HASH_CODEC[i] = name
  <2>1. PICK j \in 1..13 : HASH_CODEC[j] = name
    BY <1>1, CodecTables
  <2>2. j - 1 \in 0..12 /\ hash_strings[j - 1] = name
    <3>1. j - 1 \in 0..12 /\ (j - 1) + 1 = j
      OBVIOUS
    <3> QED BY <2>1, <3>1, CodecTables
  <2>3. \E i \in DOMAIN hash_strings : hash_strings[i] = name
    BY <2>2, CodecTables
  <2>4. get_hash_type(name) \in DOMAIN hash_strings /\ hash_strings[get_hash_type(name)] = name
    BY <2>3 DEF get_hash_type
  <2> QED BY <1>1, <2>4, CodecTables
<1>2. CASE ~\E i \in DOMAIN HASH_CODEC : HASH_CODEC[i] = name
  <2>1. ~\E i \in DOMAIN hash_strings : hash_strings[i] = name
    <3> SUFFICES ASSUME NEW i \in 0..12, hash_strings[i] = name PROVE FALSE
      BY CodecTables
    <3>1. i + 1 \in 1..13 /\ HASH_CODEC[i + 1] = name
      BY CodecTables
    <3> QED BY <1>2, <3>1, CodecTables
  <2> QED BY <1>2, <2>1 DEF get_hash_type
<1> QED BY <1>1, <1>2

(* get_hash_func finds a function for every number hash_type can have.     *)
LEMMA HashFuncFound ==
    ASSUME HashChosen
    PROVE  get_hash_func(hash_type) = HashAsked /\ HashAsked # NULL
<1>1. hash_type \in 0..12 /\ hash_algos[hash_type] = HashAsked
  BY CodecTables DEF HashChosen
<1>2. hash_type + 1 \in DOMAIN HASH_CODEC
  BY <1>1, CodecTables
<1> QED BY <1>1, <1>2, CodecTables, NullAssumption DEF get_hash_func

LEMMA HashInit == Init => HashChosen
<1> SUFFICES ASSUME Init PROVE HashChosen
  OBVIOUS
<1>1. hashAsked = NULL /\ hash_type = DEFAULT_HASH /\ hash_func = NULL /\ phase = "setup"
  BY DEF Init
<1>2. HashAsked = "murmur"
  BY <1>1, NullAssumption DEF HashAsked
<1> QED BY <1>1, <1>2, CodecTables DEF HashChosen

LEMMA HashStep ==
    ASSUME HashChosen, [Next]_vars
    PROVE  HashChosen'
<1>1. ASSUME NEW name \in HashNames, dynoc_hash_type_init(name) PROVE HashChosen'
  <2>1. phase = "setup" /\ phase' = phase /\ hash_func' = hash_func
    BY <1>1 DEF dynoc_hash_type_init, Calling
  <2>2. CASE name = NULL
    <3>1. UNCHANGED <<hash_type, hash_func, phase, hashAsked>>
      BY <1>1, <2>1, <2>2 DEF dynoc_hash_type_init
    <3> QED BY <3>1 DEF HashChosen, HashAsked
  <2>3. CASE name # NULL
    <3>1. /\ hash_type' = IF get_hash_type(name) = HASH_INVALID THEN DEFAULT_HASH
                         ELSE get_hash_type(name)
          /\ hashAsked' = name
      BY <1>1, <2>3 DEF dynoc_hash_type_init
    <3>2. hash_type' \in 0..12 /\ hash_algos[hash_type'] = HashAsked'
      <4>1. CASE \E i \in DOMAIN HASH_CODEC : HASH_CODEC[i] = name
        <5>1. get_hash_type(name) \in 0..12 /\ hash_algos[get_hash_type(name)] = name
          BY <4>1, HashTypeFound
        <5>2. hash_type' = get_hash_type(name)
          BY <3>1, <5>1, CodecTables
        <5> QED BY <3>1, <4>1, <5>1, <5>2 DEF HashAsked
      <4>2. CASE ~\E i \in DOMAIN HASH_CODEC : HASH_CODEC[i] = name
        <5>1. hash_type' = DEFAULT_HASH
          BY <3>1, <4>2, HashTypeFound
        <5> QED BY <3>1, <4>2, <5>1, CodecTables DEF HashAsked
      <4> QED BY <4>1, <4>2
    <3> QED BY <2>1, <3>2, CodecTables DEF HashChosen
  <2> QED BY <2>2, <2>3
<1>2. CASE dynoc_start
  <2>1. UNCHANGED <<hash_type, hashAsked>> /\ phase = "setup" /\ phase' \in {"running", "undefined"}
    BY <1>2 DEF dynoc_start, Undefined, historyVars
  <2>2. IF phase' = "running" THEN hash_func' = get_hash_func(hash_type) ELSE hash_func' = hash_func
    BY <1>2 DEF dynoc_start, Undefined
  <2>3. HashAsked' = HashAsked
    BY <2>1 DEF HashAsked
  <2>4. get_hash_func(hash_type) = HashAsked /\ HashAsked \in {hash_algos[i] : i \in DOMAIN hash_algos}
    BY HashFuncFound DEF HashChosen
  <2>5. CASE phase' = "running"
    BY <2>1, <2>2, <2>3, <2>4, <2>5 DEF HashChosen
  <2>6. CASE phase' = "undefined"
    <3>1. hash_func' = hash_func /\ phase' # "setup" /\ phase' # "running"
      BY <2>2, <2>6
    <3> QED BY <2>1, <2>3, <3>1 DEF HashChosen
  <2> QED BY <2>1, <2>5, <2>6
<1>3. CASE \/ \E t \in DCs, n \in Counts : dynoc_datacenter_init(t, n)
           \/ \E t \in DCs, n \in Counts, name \in Names : dynoc_rack_init(t, n, name)
           \/ \E t \in DCs, name \in Names : dynoc_add_node(t, name)
           \/ \E t \in DCs, i \in Nat : SelectsEmptyRing(t, i) \/ ReconnectsNowhere(t, i)
           \/ UNCHANGED vars
  <2>1. UNCHANGED <<hash_type, hash_func, hashAsked>> /\ (phase' = phase \/ phase' = "undefined")
    <3>1. ASSUME NEW t \in DCs, NEW n \in Counts,
                 \/ dynoc_datacenter_init(t, n)
                 \/ \E name \in Names : dynoc_rack_init(t, n, name)
          PROVE  /\ UNCHANGED <<hash_type, hash_func, hashAsked>>
                 /\ phase' = phase \/ phase' = "undefined"
      BY <3>1 DEF dynoc_datacenter_init, dynoc_rack_init, Defined, Undefined, historyVars
    <3>2. ASSUME NEW t \in DCs, NEW name \in Names, dynoc_add_node(t, name)
          PROVE  /\ UNCHANGED <<hash_type, hash_func, hashAsked>>
                 /\ phase' = phase \/ phase' = "undefined"
      BY <3>2 DEF dynoc_add_node, Defined, Undefined
    <3>3. ASSUME \/ \E t \in DCs, i \in Nat : SelectsEmptyRing(t, i) \/ ReconnectsNowhere(t, i)
                 \/ UNCHANGED vars
          PROVE  /\ UNCHANGED <<hash_type, hash_func, hashAsked>>
                 /\ phase' = phase \/ phase' = "undefined"
      BY <3>3 DEF SelectsEmptyRing, ReconnectsNowhere, Undefined, historyVars, vars
    <3> QED BY <1>3, <3>1, <3>2, <3>3
  <2> QED BY <2>1 DEF HashChosen, HashAsked
<1>4. \A t \in DCs : \A i \in 1..dc[t].rack_count : i \in Nat
  OBVIOUS
<1> QED BY <1>1, <1>2, <1>3, <1>4 DEF Next

-----------------------------------------------------------------------------
(* What the calls do, call by call.                                        *)
LEMMA BlankRacks ==
    ASSUME NEW n \in Counts
    PROVE  [i \in 1..n |-> BlankRack] \in [1..n -> Rack]
BY DEF BlankRack, Rack

(* A datacenter is no NULL pointer, and a rack array is none.              *)
LEMMA NotNull ==
    /\ \A n \in Counts, r \in RackArrays \cup {NULL} : [rack_count |-> n, rack |-> r] # NULL
    /\ \A n \in Counts : \A r \in [1..n -> Rack] : r # NULL /\ r \in RackArrays
BY NullAssumption DEF Datacenter, RackArrays

(* Noting one more wish of the caller.                                      *)
WithDcs(w, d) == [w EXCEPT !.dcs = d]
WithRacks(w, r, e) == [w EXCEPT !.racks = r, !.early = e]
WithNodes(w, f, e) == [w EXCEPT !.nodes = f, !.early = e]

LEMMA WithDcsField ==
    ASSUME NEW w \in Wish, NEW d \in Nat
    PROVE  /\ WithDcs(w, d) \in Wish /\ WithDcs(w, d).dcs = d
           /\ WithDcs(w, d).racks = w.racks /\ WithDcs(w, d).nodes = w.nodes
           /\ WithDcs(w, d).early = w.early
BY DEF Wish, WithDcs

LEMMA WithRacksField ==
    ASSUME NEW w \in Wish, NEW r \in Seq(AskedRack), NEW e \in BOOLEAN
    PROVE  /\ WithRacks(w, r, e) \in Wish
           /\ WithRacks(w, r, e).racks = r /\ WithRacks(w, r, e).early = e
           /\ WithRacks(w, r, e).nodes = w.nodes /\ WithRacks(w, r, e).dcs = w.dcs
BY DEF Wish, WithRacks

LEMMA WithNodesField ==
    ASSUME NEW w \in Wish, NEW f \in [Names -> Seq(Nat)], NEW e \in BOOLEAN
    PROVE  /\ WithNodes(w, f, e) \in Wish
           /\ WithNodes(w, f, e).nodes = f /\ WithNodes(w, f, e).early = e
           /\ WithNodes(w, f, e).racks = w.racks /\ WithNodes(w, f, e).dcs = w.dcs
BY DEF Wish, WithNodes

LEMMA DatacenterInitEffect ==
    ASSUME Types, NEW t \in DCs, NEW n \in Counts, dynoc_datacenter_init(t, n)
    PROVE  /\ \A u \in DCs : u # t => dc'[u] = dc[u] /\ asked'[u] = asked[u]
           /\ asked' \in [DCs -> Wish]
           /\ asked'[t].racks = asked[t].racks /\ asked'[t].nodes = asked[t].nodes
           /\ asked'[t].early = asked[t].early /\ asked'[t].dcs = asked[t].dcs + 1
           /\ phase = "setup" /\ phase' = phase
           /\ \/ dc'[t] = dc[t] /\ (dc[t] # NULL \/ failures' # 0)
              \/ /\ dc[t] = NULL /\ dc'[t] # NULL /\ dc'[t].rack_count = n
                 /\ dc'[t].rack = [i \in 1..n |-> BlankRack] /\ HasRacks(t)'
              \/ /\ dc[t] = NULL /\ dc'[t] # NULL /\ dc'[t].rack_count = n
                 /\ dc'[t].rack = NULL /\ failures' # 0
<1> USE DEF dynoc_datacenter_init, Calling, Defined
<1>1. asked \in [DCs -> Wish] /\ dc \in [DCs -> Datacenter \cup {NULL}] /\ failures \in Nat
  BY DEF Types
<1>2. asked' = [asked EXCEPT ![t] = WithDcs(asked[t], asked[t].dcs + 1)]
  BY DEF WithDcs
<1>3. asked[t] \in Wish
  BY <1>1
<1>4. /\ WithDcs(asked[t], asked[t].dcs + 1) \in Wish
      /\ \A u \in DCs : u # t => asked'[u] = asked[u]
      /\ asked'[t].racks = asked[t].racks /\ asked'[t].nodes = asked[t].nodes
      /\ asked'[t].early = asked[t].early /\ asked'[t].dcs = asked[t].dcs + 1
  <2>1. asked[t].dcs + 1 \in Nat
    BY <1>3 DEF Wish
  <2>2. /\ asked'[t] = WithDcs(asked[t], asked[t].dcs + 1)
        /\ \A u \in DCs : u # t => asked'[u] = asked[u]
    BY <1>1, <1>2
  <2> QED BY <1>3, <2>1, <2>2, WithDcsField
<1>5. asked' \in [DCs -> Wish]
  BY <1>1, <1>2, <1>4
<1>6. \A u \in DCs : u # t => dc'[u] = dc[u]
  BY <1>1
<1>7. OutOfMemory => failures' # 0
  BY <1>1 DEF OutOfMemory
<1>8. CASE dc[t] # NULL /\ dc' = dc
  BY <1>4, <1>5, <1>8
<1>9. CASE /\ dc[t] = NULL
           /\ dc' = [dc EXCEPT ![t] = [rack_count |-> n, rack |-> [i \in 1..n |-> BlankRack]]]
  <2>1. dc'[t] = [rack_count |-> n, rack |-> [i \in 1..n |-> BlankRack]]
    BY <1>1, <1>9
  <2>2. [i \in 1..n |-> BlankRack] # NULL /\ dc'[t] # NULL
    BY <2>1, BlankRacks, NotNull
  <2> QED BY <1>4, <1>5, <1>6, <1>9, <2>1, <2>2 DEF HasRacks
<1>10. CASE /\ dc[t] = NULL /\ failures' # 0
            /\ dc' = [dc EXCEPT ![t] = [rack_count |-> n, rack |-> NULL]]
  <2>1. dc'[t] = [rack_count |-> n, rack |-> NULL]
    BY <1>1, <1>10
  <2>2. dc'[t] # NULL
    BY <2>1, NotNull
  <2> QED BY <1>4, <1>5, <1>6, <1>10, <2>1, <2>2
<1>11. CASE dc[t] = NULL /\ dc' = dc /\ failures' # 0
  BY <1>4, <1>5, <1>11
<1> QED BY <1>7, <1>8, <1>9, <1>10, <1>11

(* Storing a rack.                                                         *)
LEMMA SetRackEffect ==
    ASSUME Types, NEW t \in DCs, HasRacks(t), NEW i \in 1..dc[t].rack_count, NEW rack \in Rack,
           SetRack(t, i, rack)
    PROVE  /\ \A u \in DCs : u # t => dc'[u] = dc[u]
           /\ HasRacks(t)' /\ dc'[t].rack_count = dc[t].rack_count
           /\ dc'[t].rack[i] = rack
           /\ \A j \in 1..dc[t].rack_count : j # i => dc'[t].rack[j] = dc[t].rack[j]
           /\ dc' \in [DCs -> Datacenter \cup {NULL}]
           /\ dc'[t].rack \in [1..dc[t].rack_count -> Rack]
<1> DEFINE new == [dc[t].rack EXCEPT ![i] = rack]
<1>1. /\ dc \in [DCs -> Datacenter \cup {NULL}] /\ dc[t] \in Datacenter
      /\ dc[t].rack \in [1..dc[t].rack_count -> Rack] /\ dc[t].rack_count \in Counts
  BY DEF Types, HasRacks, Datacenter
<1>2. dc' = [dc EXCEPT ![t] = [dc[t] EXCEPT !.rack = new]]
  BY DEF SetRack
<1>3. /\ new[i] = rack /\ \A j \in 1..dc[t].rack_count : j # i => new[j] = dc[t].rack[j]
      /\ new \in [1..dc[t].rack_count -> Rack]
  BY <1>1
<1> HIDE DEF new
<1>4. new \in RackArrays /\ new # NULL
  BY <1>1, <1>3, NotNull
<1>5. /\ [dc[t] EXCEPT !.rack = new] \in Datacenter
      /\ [dc[t] EXCEPT !.rack = new].rack = new
      /\ [dc[t] EXCEPT !.rack = new].rack_count = dc[t].rack_count
  BY <1>1, <1>4 DEF Datacenter
<1>6. dc'[t] = [dc[t] EXCEPT !.rack = new] /\ \A u \in DCs : u # t => dc'[u] = dc[u]
  BY <1>1, <1>2
<1>7. dc' \in [DCs -> Datacenter \cup {NULL}]
  BY <1>1, <1>2, <1>5
<1>8. HasRacks(t)'
  BY <1>4, <1>5, <1>6, NullAssumption DEF HasRacks
<1> QED BY <1>3, <1>5, <1>6, <1>7, <1>8

(* What a call of dynoc_rack_init does with the rack.                      *)
RackInitUndefined(t) == dc' = dc /\ (~HasRacks(t) \/ failures' # 0) /\ phase' = "undefined"
RackDropped(t) ==
    /\ dc' = dc /\ HasRacks(t) /\ phase' = "setup"
    /\ \A i \in 1..dc[t].rack_count : dc[t].rack[i].name # NULL
RackMade(t, n, name) ==
    /\ HasRacks(t) /\ phase' = "setup"
    /\ \E i \in 1..dc[t].rack_count, rack \in Rack :
          /\ FirstUnnamed(t, i) /\ SetRack(t, i, rack)
          /\ ncontinuum(rack) = 0 /\ rack.node_count = n
          /\ rack.continuum \in {<<>>, NULL} /\ rack.name \in {name, NULL}
          /\ rack = NewRack(name, n) \/ failures' # 0

LEMMA RackInitEffect ==
    ASSUME Types, NEW t \in DCs, NEW n \in Counts, NEW name \in Names, dynoc_rack_init(t, n, name)
    PROVE  /\ \A u \in DCs : u # t => dc'[u] = dc[u] /\ asked'[u] = asked[u]
           /\ asked' \in [DCs -> Wish]
           /\ asked'[t].racks = Append(asked[t].racks, [name |-> name, node_count |-> n])
           /\ asked'[t].nodes = asked[t].nodes /\ asked'[t].dcs = asked[t].dcs
           /\ asked'[t].early = (asked[t].early \/ dc[t] = NULL)
           /\ phase = "setup" /\ phase' \in {"setup", "undefined"}
           /\ RackInitUndefined(t) \/ RackDropped(t) \/ RackMade(t, n, name)
<1> USE DEF dynoc_rack_init, Calling
<1>1. /\ asked \in [DCs -> Wish] /\ asked[t] \in Wish /\ failures \in Nat
      /\ dc \in [DCs -> Datacenter \cup {NULL}]
  BY DEF Types
<1>2. asked' = [asked EXCEPT ![t] =
                  [asked[t] EXCEPT !.racks = Append(asked[t].racks, [name |-> name, node_count |-> n]),
                                   !.early = asked[t].early \/ dc[t] = NULL]]
  OBVIOUS
<1>3. Append(asked[t].racks, [name |-> name, node_count |-> n]) \in Seq(AskedRack)
  BY <1>1 DEF Wish, AskedRack
<1>4. /\ \A u \in DCs : u # t => asked'[u] = asked[u]
      /\ asked'[t].racks = Append(asked[t].racks, [name |-> name, node_count |-> n])
      /\ asked'[t].nodes = asked[t].nodes /\ asked'[t].dcs = asked[t].dcs
      /\ asked'[t].early = (asked[t].early \/ dc[t] = NULL)
      /\ asked'[t] \in Wish /\ asked' \in [DCs -> Wish]
  <2> DEFINE early == asked[t].early \/ dc[t] = NULL
             racks == Append(asked[t].racks, [name |-> name, node_count |-> n])
             wish == WithRacks(asked[t], racks, early)
  <2>1. early \in BOOLEAN
    BY <1>1 DEF Wish
  <2>2. asked' = [asked EXCEPT ![t] = wish]
    BY <1>2 DEF WithRacks
  <2>3. /\ wish \in Wish /\ wish.early = early
        /\ wish.racks = racks /\ wish.nodes = asked[t].nodes /\ wish.dcs = asked[t].dcs
    <3>1. racks \in Seq(AskedRack)
      BY <1>3
    <3> HIDE DEF early, racks
    <3> QED BY <1>1, <2>1, <3>1, WithRacksField
  <2>4. (asked[t].early \/ dc[t] = NULL) = early
    OBVIOUS
  <2> HIDE DEF early, wish
  <2>5. asked'[t] = wish /\ asked' \in [DCs -> Wish] /\ \A u \in DCs : u # t => asked'[u] = asked[u]
    BY <1>1, <2>2, <2>3
  <2>6. asked'[t].early = (asked[t].early \/ dc[t] = NULL)
    BY <2>3, <2>4, <2>5, Zenon
  <2> QED BY <2>3, <2>5, <2>6
<1>5. /\ NewRack(name, n) \in Rack /\ NewRack(NULL, n) \in Rack
      /\ [NewRack(name, n) EXCEPT !.continuum = NULL] \in Rack
  BY SetupAssumption DEF NewRack, Rack
<1>6. OutOfMemory => failures' # 0
  BY <1>1 DEF OutOfMemory
<1>7. ASSUME NEW i \in 1..dc[t].rack_count, NEW rack \in Rack, HasRacks(t), SetRack(t, i, rack)
      PROVE  \A u \in DCs : u # t => dc'[u] = dc[u]
  BY <1>1, <1>7 DEF SetRack
<1>8. CASE ~HasRacks(t) /\ Undefined
  BY <1>4, <1>8 DEF Undefined, RackInitUndefined
<1>9. CASE /\ HasRacks(t) /\ Defined
           /\ \A i \in 1..dc[t].rack_count : dc[t].rack[i].name # NULL
           /\ UNCHANGED <<dc, failures>>
  BY <1>4, <1>9 DEF Defined, RackDropped
<1>10. ASSUME HasRacks(t), NEW i \in 1..dc[t].rack_count, FirstUnnamed(t, i),
              \/ SetRack(t, i, NewRack(name, n)) /\ Defined /\ UNCHANGED failures
              \/ /\ OutOfMemory
                 /\ \/ SetRack(t, i, NewRack(NULL, n)) /\ Defined
                    \/ SetRack(t, i, [NewRack(name, n) EXCEPT !.continuum = NULL]) /\ Defined
                    \/ Undefined
       PROVE  /\ RackInitUndefined(t) \/ RackMade(t, n, name)
              /\ \A u \in DCs : u # t => dc'[u] = dc[u]
  <2>1. CASE SetRack(t, i, NewRack(name, n)) /\ Defined
    BY <1>5, <1>7, <1>10, <2>1 DEF Defined, RackMade, NewRack, ncontinuum
  <2>2. CASE OutOfMemory /\ SetRack(t, i, NewRack(NULL, n)) /\ Defined
    BY <1>5, <1>6, <1>7, <1>10, <2>2 DEF Defined, RackMade, NewRack, ncontinuum
  <2>3. CASE OutOfMemory /\ SetRack(t, i, [NewRack(name, n) EXCEPT !.continuum = NULL]) /\ Defined
    BY <1>5, <1>6, <1>7, <1>10, <2>3 DEF Defined, RackMade, NewRack, ncontinuum
  <2>4. CASE OutOfMemory /\ Undefined
    BY <1>6, <2>4 DEF Undefined, RackInitUndefined
  <2> QED BY <1>10, <2>1, <2>2, <2>3, <2>4
<1>11. CASE \E i \in 1..dc[t].rack_count :
               /\ HasRacks(t) /\ FirstUnnamed(t, i)
               /\ \/ SetRack(t, i, NewRack(name, n)) /\ Defined /\ UNCHANGED failures
                  \/ /\ OutOfMemory
                     /\ \/ SetRack(t, i, NewRack(NULL, n)) /\ Defined
                        \/ SetRack(t, i, [NewRack(name, n) EXCEPT !.continuum = NULL]) /\ Defined
                        \/ Undefined
  <2>1. RackInitUndefined(t) \/ RackMade(t, n, name)
    BY <1>10, <1>11
  <2>2. \A u \in DCs : u # t => dc'[u] = dc[u]
    BY <1>10, <1>11
  <2>3. phase' \in {"setup", "undefined"}
    BY <2>1 DEF RackInitUndefined, RackMade
  <2> QED BY <1>4, <2>1, <2>2, <2>3
<1> QED BY <1>8, <1>9, <1>11

(* What a rack is after one more node.                                     *)
LEMMA AddToRack ==
    ASSUME NEW r \in Rack, r.continuum \in Seq(Nat), NEW node \in Nat
    PROVE  /\ AddTo(r, node) = [name |-> r.name, node_count |-> r.node_count,
                                continuum |-> Append(r.continuum, node)]
           /\ Append(r.continuum, node) \in Seq(Nat)
           /\ Len(Append(r.continuum, node)) = Len(r.continuum) + 1
           /\ ncontinuum(AddTo(r, node)) = Len(r.continuum) + 1
           /\ ncontinuum(r) = Len(r.continuum) /\ Len(r.continuum) \in Nat
<1>1. PICK c \in Seq(Nat) : c = r.continuum
  OBVIOUS
<1>2. PICK e : e = Append(c, node)
  OBVIOUS
<1>3. e \in Seq(Nat) /\ Len(e) = Len(c) + 1 /\ Len(c) \in Nat
  BY <1>2
<1>4. [r EXCEPT !.continuum = e] = [name |-> r.name, node_count |-> r.node_count, continuum |-> e]
  <2>1. PICK A, B : Rack = [name : A, node_count : Nat, continuum : B]
    BY DEF Rack
  <2>2. r \in [name : A, node_count : Nat, continuum : B]
    BY <2>1
  <2>3. PICK s, n, d : r = [name |-> s, node_count |-> n, continuum |-> d]
    BY <2>2
  <2> QED BY <2>3
<1>5. AddTo(r, node) = [r EXCEPT !.continuum = e]
  BY <1>1, <1>2 DEF AddTo
<1>6. AddTo(r, node).continuum = e
  BY <1>4, <1>5
<1> QED BY <1>1, <1>2, <1>3, <1>4, <1>5, <1>6, NullAssumption DEF ncontinuum

(* What a call of dynoc_add_node does with the racks.                      *)
AddNodeUndefined(t, name) ==
    /\ dc' = dc /\ phase' = "undefined"
    /\ \/ ~HasRacks(t) \/ failures' # 0
       \/ \E i \in Named(t, name) : Overruns(dc[t].rack[i])
NodeAdded(t, name) ==
    /\ HasRacks(t) /\ phase' = "setup" /\ \A i \in Named(t, name) : ~Overruns(dc[t].rack[i])
    /\ HasRacks(t)' /\ dc'[t].rack_count = dc[t].rack_count
    /\ \A i \in 1..dc[t].rack_count :
          dc'[t].rack[i] = IF i \in Named(t, name) THEN AddTo(dc[t].rack[i], calls)
                          ELSE dc[t].rack[i]
    /\ dc' \in [DCs -> Datacenter \cup {NULL}]
    /\ dc'[t].rack \in [1..dc[t].rack_count -> Rack]

LEMMA AddNodeEffect ==
    ASSUME Types, NEW t \in DCs, NEW name \in Names, dynoc_add_node(t, name)
    PROVE  /\ \A u \in DCs : u # t => dc'[u] = dc[u] /\ asked'[u] = asked[u]
           /\ asked' \in [DCs -> Wish]
           /\ asked'[t].racks = asked[t].racks /\ asked'[t].dcs = asked[t].dcs
           /\ asked'[t].nodes = [asked[t].nodes EXCEPT ![name] = Append(asked[t].nodes[name], calls)]
           /\ asked'[t].early = \/ asked[t].early \/ dc[t] = NULL
                                \/ \A k \in DOMAIN asked[t].racks : asked[t].racks[k].name # name
           /\ phase = "setup" /\ phase' \in {"setup", "undefined"}
           /\ AddNodeUndefined(t, name) \/ NodeAdded(t, name)
<1> USE DEF dynoc_add_node, Calling
<1>1. /\ asked \in [DCs -> Wish] /\ asked[t] \in Wish /\ failures \in Nat /\ calls \in Nat
      /\ dc \in [DCs -> Datacenter \cup {NULL}]
  BY SetupAssumption DEF Types
<1>2. asked' = [asked EXCEPT ![t] =
                  [asked[t] EXCEPT !.nodes = [asked[t].nodes EXCEPT
                                                 ![name] = Append(asked[t].nodes[name], calls)],
                                   !.early = \/ asked[t].early \/ dc[t] = NULL
                                             \/ \A k \in DOMAIN asked[t].racks :
                                                   asked[t].racks[k].name # name]]
  OBVIOUS
<1>3. [asked[t].nodes EXCEPT ![name] = Append(asked[t].nodes[name], calls)] \in [Names -> Seq(Nat)]
  BY <1>1 DEF Wish
<1>4. /\ \A u \in DCs : u # t => asked'[u] = asked[u]
      /\ asked'[t].racks = asked[t].racks /\ asked'[t].dcs = asked[t].dcs
      /\ asked'[t].nodes = [asked[t].nodes EXCEPT ![name] = Append(asked[t].nodes[name], calls)]
      /\ asked'[t].early = \/ asked[t].early \/ dc[t] = NULL
                           \/ \A k \in DOMAIN asked[t].racks : asked[t].racks[k].name # name
      /\ asked' \in [DCs -> Wish]
  <2> DEFINE early == \/ asked[t].early \/ dc[t] = NULL
                      \/ \A k \in DOMAIN asked[t].racks : asked[t].racks[k].name # name
             nodes == [asked[t].nodes EXCEPT ![name] = Append(asked[t].nodes[name], calls)]
             wish == WithNodes(asked[t], nodes, early)
  <2>1. early \in BOOLEAN
    BY <1>1 DEF Wish
  <2>2. asked' = [asked EXCEPT ![t] = wish]
    BY <1>2 DEF WithNodes
  <2>3. /\ wish \in Wish /\ wish.early = early /\ wish.nodes = nodes
        /\ wish.racks = asked[t].racks /\ wish.dcs = asked[t].dcs
    <3>1. nodes \in [Names -> Seq(Nat)]
      BY <1>3
    <3> HIDE DEF early, nodes
    <3> QED BY <1>1, <2>1, <3>1, WithNodesField
  <2>4. (\/ asked[t].early \/ dc[t] = NULL
         \/ \A k \in DOMAIN asked[t].racks : asked[t].racks[k].name # name) = early
    BY ZenonT(30)
  <2> HIDE DEF early, wish, dynoc_add_node, Calling
  <2>5. asked'[t] = wish /\ asked' \in [DCs -> Wish] /\ \A u \in DCs : u # t => asked'[u] = asked[u]
    BY <1>1, <2>2, <2>3
  <2>6. asked'[t].early = \/ asked[t].early \/ dc[t] = NULL
                          \/ \A k \in DOMAIN asked[t].racks : asked[t].racks[k].name # name
    BY <2>3, <2>4, <2>5, Zenon
  <2> QED BY <2>3, <2>5, <2>6
<1>5. OutOfMemory => failures' # 0
  BY <1>1 DEF OutOfMemory
<1>6. CASE (HasRacks(t) => \E i \in Named(t, name) : Overruns(dc[t].rack[i])) /\ Undefined
  BY <1>4, <1>6 DEF Undefined, AddNodeUndefined
<1>7. CASE OutOfMemory /\ Undefined
  BY <1>4, <1>5, <1>7 DEF Undefined, AddNodeUndefined
<1>8. CASE /\ HasRacks(t) /\ \A i \in Named(t, name) : ~Overruns(dc[t].rack[i])
           /\ dc' = [dc EXCEPT ![t].rack =
                       [i \in 1..dc[t].rack_count |->
                          IF i \in Named(t, name) THEN AddTo(dc[t].rack[i], calls) ELSE dc[t].rack[i]]]
           /\ Defined
  <2> DEFINE new == [i \in 1..dc[t].rack_count |->
                       IF i \in Named(t, name) THEN AddTo(dc[t].rack[i], calls) ELSE dc[t].rack[i]]
  <2>1. /\ dc[t] \in Datacenter /\ dc[t].rack_count \in Counts
        /\ dc[t].rack \in [1..dc[t].rack_count -> Rack]
    BY <1>8 DEF Types, HasRacks, Datacenter
  <2>2. new \in [1..dc[t].rack_count -> Rack]
    <3> SUFFICES ASSUME NEW i \in 1..dc[t].rack_count
                 PROVE  (IF i \in Named(t, name) THEN AddTo(dc[t].rack[i], calls) ELSE dc[t].rack[i])
                           \in Rack
      OBVIOUS
    <3>1. dc[t].rack[i] \in Rack
      BY <2>1
    <3>2. CASE i \in Named(t, name)
      <4>1. dc[t].rack[i].continuum \in Seq(Nat)
        BY <1>8, <3>1, <3>2 DEF Overruns, Rack
      <4>2. Append(dc[t].rack[i].continuum, calls) \in Seq(Nat)
        BY <1>1, <4>1
      <4>3. AddTo(dc[t].rack[i], calls) \in Rack
        BY <3>1, <4>2 DEF AddTo, Rack
      <4> QED BY <3>2, <4>3
    <3> QED BY <3>1, <3>2
  <2>3. \A i \in 1..dc[t].rack_count :
           new[i] = IF i \in Named(t, name) THEN AddTo(dc[t].rack[i], calls) ELSE dc[t].rack[i]
    OBVIOUS
  <2>4. dc' = [dc EXCEPT ![t] = [dc[t] EXCEPT !.rack = new]]
    BY <1>8
  <2> HIDE DEF new
  <2>5. new \in RackArrays /\ new # NULL
    BY <2>1, <2>2, NotNull
  <2>6. /\ [dc[t] EXCEPT !.rack = new] \in Datacenter
        /\ [dc[t] EXCEPT !.rack = new].rack = new
        /\ [dc[t] EXCEPT !.rack = new].rack_count = dc[t].rack_count
    <3>1. PICK d \in Datacenter : d = dc[t]
      BY <2>1
    <3> QED BY <2>5, <3>1 DEF Datacenter
  <2>7. dc'[t] = [dc[t] EXCEPT !.rack = new] /\ \A u \in DCs : u # t => dc'[u] = dc[u]
    BY <1>1, <2>4
  <2>8. dc' \in [DCs -> Datacenter \cup {NULL}]
    BY <1>1, <2>4, <2>6
  <2>9. HasRacks(t)'
    BY <2>5, <2>6, <2>7, NullAssumption DEF HasRacks
  <2>10. dc'[t].rack = new /\ dc'[t].rack_count = dc[t].rack_count
    BY <2>6, <2>7
  <2>11. phase' = "setup"
    BY <1>8 DEF Defined
  <2>12. NodeAdded(t, name)
    <3> HIDE DEF dynoc_add_node, Calling
    <3>1. HasRacks(t) /\ \A i \in Named(t, name) : ~Overruns(dc[t].rack[i])
      BY <1>8
    <3>2. dc'[t].rack \in [1..dc[t].rack_count -> Rack] /\ dc'[t].rack_count = dc[t].rack_count
      BY <2>2, <2>10
    <3>3. \A i \in 1..dc[t].rack_count :
             dc'[t].rack[i] = IF i \in Named(t, name) THEN AddTo(dc[t].rack[i], calls)
                             ELSE dc[t].rack[i]
      BY <2>3, <2>10
    <3> QED BY <2>8, <2>9, <2>11, <3>1, <3>2, <3>3, Zenon DEF NodeAdded
  <2>13. phase = "setup"
    OBVIOUS
  <2> HIDE DEF dynoc_add_node, Calling
  <2> QED BY <1>4, <2>7, <2>11, <2>12, <2>13, Zenon
<1> QED BY <1>6, <1>7, <1>8

-----------------------------------------------------------------------------
(* What holds of a datacenter between two calls.                           *)
AskedFor(t, name) == \E k \in DOMAIN asked[t].racks : asked[t].racks[k].name = name

(* As long as the behaviour is defined, no array has been overrun, and a   *)
(* rack without name holds nothing.                                        *)
Fits(t) ==
    HasRacks(t) =>
        \A i \in 1..dc[t].rack_count :
            /\ ncontinuum(dc[t].rack[i]) <= dc[t].rack[i].node_count
            /\ dc[t].rack[i].name = NULL => ncontinuum(dc[t].rack[i]) = 0

(* A caller who kept the order asked for nothing before its datacenter and *)
(* for no node before its rack.                                            *)
Orderly(t) ==
    ~asked[t].early =>
        /\ dc[t] = NULL => asked[t].racks = <<>>
        /\ \A name \in Names : ~AskedFor(t, name) => asked[t].nodes[name] = <<>>

(* Every rack with a name is one the caller asked for, and its continuum   *)
(* was never allocated or holds all nodes of that name.                    *)
Remembers(t) ==
    LegalFor(t) /\ HasRacks(t) =>
        \A i \in 1..dc[t].rack_count :
            dc[t].rack[i].name # NULL =>
                /\ AskedFor(t, dc[t].rack[i].name)
                /\ dc[t].rack[i].continuum \in {NULL, asked[t].nodes[dc[t].rack[i].name]}

(* Without a failed allocation the racks are those the caller asked for,   *)
(* in that order, and the rest has no name yet.                            *)
RackOf(t, i) ==
    [name |-> asked[t].racks[i].name, node_count |-> asked[t].racks[i].node_count,
     continuum |-> asked[t].nodes[asked[t].racks[i].name]]

Exact(t) ==
    LegalFor(t) /\ failures = 0 /\ dc[t] # NULL =>
        /\ dc[t].rack # NULL
        /\ \A i \in 1..dc[t].rack_count :
              IF i <= Len(asked[t].racks) THEN dc[t].rack[i] = RackOf(t, i)
                                         ELSE dc[t].rack[i].name = NULL

(* A call of dynoc_datacenter_init keeps all of it.                        *)
LEMMA DatacenterInitKeeps ==
    ASSUME Types, NEW t \in DCs, NEW n \in Counts, dynoc_datacenter_init(t, n),
           Fits(t), Orderly(t), Remembers(t), Exact(t), failures' = 0 => failures = 0
    PROVE  Fits(t)' /\ Orderly(t)' /\ Remembers(t)' /\ Exact(t)'
<1>1. /\ asked'[t].racks = asked[t].racks /\ asked'[t].nodes = asked[t].nodes
      /\ asked'[t].early = asked[t].early /\ asked'[t].dcs = asked[t].dcs + 1
  BY DatacenterInitEffect
<1>2. /\ asked[t].dcs \in Nat /\ asked[t].racks \in Seq(AskedRack)
      /\ asked[t] \in Wish
  BY DEF Types, Wish
<1>3. CASE dc'[t] = dc[t] /\ (dc[t] # NULL \/ failures' # 0)
  <2>1. LegalFor(t)' => LegalFor(t)
    BY <1>1, <1>2, <1>3 DEF LegalFor, NodesAsked
  <2>2. Fits(t)'
    BY <1>3 DEF Fits, HasRacks
  <2>3. Orderly(t)'
    BY <1>1, <1>3 DEF Orderly, AskedFor
  <2>4. Remembers(t)'
    BY <1>1, <1>3, <2>1 DEF Remembers, AskedFor, HasRacks
  <2>5. Exact(t)'
    BY <1>1, <1>3, <2>1 DEF Exact, RackOf
  <2> QED BY <2>2, <2>3, <2>4, <2>5
<1>4. CASE /\ dc[t] = NULL /\ dc'[t] # NULL /\ dc'[t].rack_count = n
           /\ dc'[t].rack = [i \in 1..n |-> BlankRack] /\ HasRacks(t)'
  <2>1. \A i \in 1..n : dc'[t].rack[i] = BlankRack
    BY <1>4
  <2>2. BlankRack.name = NULL /\ ncontinuum(BlankRack) = 0 /\ BlankRack.node_count = 0
    BY DEF BlankRack, ncontinuum
  <2>3. Orderly(t)'
    BY <1>1, <1>4 DEF Orderly, AskedFor
  <2>4. Fits(t)' /\ Remembers(t)'
    BY <1>4, <2>1, <2>2 DEF Fits, Remembers
  <2>5. LegalFor(t)' => Len(asked'[t].racks) = 0
    <3>1. LegalFor(t)' => ~asked[t].early
      BY <1>1 DEF LegalFor
    <3>2. ~asked[t].early => asked[t].racks = <<>>
      BY <1>4 DEF Orderly
    <3> QED BY <1>1, <3>1, <3>2
  <2>6. Exact(t)'
    BY <1>4, <2>1, <2>2, <2>5 DEF Exact, HasRacks
  <2> QED BY <2>3, <2>4, <2>6
<1>5. CASE /\ dc[t] = NULL /\ dc'[t] # NULL /\ dc'[t].rack_count = n
           /\ dc'[t].rack = NULL /\ failures' # 0
  <2>1. Orderly(t)'
    BY <1>1, <1>5 DEF Orderly, AskedFor
  <2> QED BY <1>5, <2>1 DEF Fits, Remembers, Exact, HasRacks
<1> QED BY <1>3, <1>4, <1>5, DatacenterInitEffect

(* So does a call of dynoc_rack_init; a caller who kept to the contract    *)
(* meets undefined behaviour in it only without memory.                    *)
LEMMA RackInitKeeps ==
    ASSUME Types, NEW t \in DCs, NEW n \in Counts, NEW name \in Names, dynoc_rack_init(t, n, name),
           Fits(t), Orderly(t), Remembers(t), Exact(t), failures' = 0 => failures = 0
    PROVE  /\ Fits(t)' /\ Orderly(t)'
           /\ phase' # "undefined" => Remembers(t)' /\ Exact(t)'
           /\ phase' = "undefined" /\ failures' = 0 => ~LegalFor(t)'
<1> DEFINE wanted == [name |-> name, node_count |-> n]
           L == Len(asked[t].racks)
<1>1. /\ asked'[t].racks = Append(asked[t].racks, wanted)
      /\ asked'[t].nodes = asked[t].nodes /\ asked'[t].dcs = asked[t].dcs
  BY RackInitEffect
<1>2. ~asked'[t].early => ~asked[t].early /\ dc[t] # NULL
  <2>1. asked'[t].early = (asked[t].early \/ dc[t] = NULL)
    BY RackInitEffect
  <2> QED BY <2>1, Zenon
<1>3. asked[t].dcs \in Nat /\ asked[t].racks \in Seq(AskedRack) /\ wanted \in AskedRack
  BY DEF Types, Wish, AskedRack
<1>4. wanted.name = name /\ wanted.node_count = n
  OBVIOUS
<1> HIDE DEF wanted
<1>5. /\ L \in Nat /\ Len(asked'[t].racks) = L + 1 /\ asked'[t].racks[L + 1] = wanted
      /\ DOMAIN asked'[t].racks = 1..(L + 1) /\ DOMAIN asked[t].racks = 1..L
      /\ \A k \in 1..L : asked'[t].racks[k] = asked[t].racks[k]
  BY <1>1, <1>3
<1> HIDE DEF L
<1>6. \A x : AskedFor(t, x)' <=> AskedFor(t, x) \/ x = name
  <2> SUFFICES ASSUME NEW x PROVE AskedFor(t, x)' <=> AskedFor(t, x) \/ x = name
    OBVIOUS
  <2>1. 1..L \subseteq 1..(L + 1) /\ L + 1 \in 1..(L + 1) /\ \A k \in 1..(L + 1) : k \in 1..L \/ k = L + 1
    BY <1>5
  <2> QED BY <1>4, <1>5, <2>1 DEF AskedFor
<1>7. Orderly(t)'
  <2> SUFFICES ASSUME ~asked'[t].early
               PROVE  /\ dc'[t] # NULL
                      /\ \A x \in Names : ~AskedFor(t, x)' => asked'[t].nodes[x] = <<>>
    BY DEF Orderly
  <2>1. dc'[t] # NULL
    <3>1. HasRacks(t) => dc[t] # NULL
      BY DEF HasRacks
    <3>2. CASE dc' = dc
      BY <1>2, <3>2
    <3>3. CASE RackMade(t, n, name)
      BY <3>3, SetRackEffect DEF RackMade, HasRacks
    <3> QED BY <3>2, <3>3, RackInitEffect DEF RackInitUndefined, RackDropped
  <2> QED BY <1>1, <1>2, <1>6, <2>1 DEF Orderly
<1>8. (dc'[t] = dc[t] \/ (dc[t] # NULL /\ dc'[t] # NULL /\ dc'[t].rack_count = dc[t].rack_count)) =>
      (LegalFor(t)' => /\ LegalFor(t) /\ ~asked[t].early /\ dc[t] # NULL /\ L + 1 <= dc[t].rack_count
                       /\ ~AskedFor(t, name) /\ asked[t].nodes[name] = <<>>)
  <2> SUFFICES ASSUME LegalFor(t)',
                      dc'[t] = dc[t] \/ (dc[t] # NULL /\ dc'[t] # NULL /\ dc'[t].rack_count = dc[t].rack_count)
               PROVE  /\ LegalFor(t) /\ ~asked[t].early /\ dc[t] # NULL /\ L + 1 <= dc[t].rack_count
                      /\ ~AskedFor(t, name) /\ asked[t].nodes[name] = <<>>
    OBVIOUS
  <2>1. ~asked[t].early /\ dc[t] # NULL /\ dc'[t] # NULL
    BY <1>2 DEF LegalFor
  <2>2. /\ asked[t].dcs <= 1 /\ L + 1 <= dc'[t].rack_count
        /\ \A i, j \in 1..(L + 1) : asked'[t].racks[i].name = asked'[t].racks[j].name => i = j
        /\ \A i \in 1..(L + 1) :
              Len(asked[t].nodes[asked'[t].racks[i].name]) <= asked'[t].racks[i].node_count
    BY <1>1, <1>5, <2>1 DEF LegalFor, NodesAsked
  <2>3. L + 1 <= dc[t].rack_count /\ dc[t].rack_count \in Nat
    <3>1. dc[t].rack_count \in Nat
      BY <2>1, SetupAssumption DEF Types, Datacenter
    <3> QED BY <2>2, <3>1
  <2>4. ~AskedFor(t, name)
    <3> SUFFICES ASSUME NEW k \in 1..L, asked[t].racks[k].name = name PROVE FALSE
      BY <1>5 DEF AskedFor
    <3>1. k \in 1..(L + 1) /\ L + 1 \in 1..(L + 1) /\ k # L + 1
      BY <1>5
    <3> QED BY <1>4, <1>5, <2>2, <3>1
  <2>5. LegalFor(t)
    <3>1. 1..L \subseteq 1..(L + 1)
      BY <1>5
    <3>2. Len(asked[t].racks) <= dc[t].rack_count
      BY <1>5, <2>3 DEF L
    <3> QED BY <1>5, <2>1, <2>2, <3>1, <3>2 DEF LegalFor, NodesAsked
  <2> QED BY <2>1, <2>3, <2>4, <2>5 DEF Orderly
<1>9. CASE RackInitUndefined(t)
  <2>1. Fits(t)'
    BY <1>9 DEF Fits, HasRacks, RackInitUndefined
  <2>2. failures' = 0 => ~LegalFor(t)'
    BY <1>8, <1>9 DEF Exact, HasRacks, RackInitUndefined
  <2> QED BY <1>7, <1>9, <2>1, <2>2 DEF RackInitUndefined
<1>10. CASE RackDropped(t)
  <2>1. Fits(t)'
    BY <1>10 DEF Fits, HasRacks, RackDropped
  <2>2. Remembers(t)'
    BY <1>1, <1>6, <1>8, <1>10 DEF Remembers, HasRacks, RackDropped
  <2>3. failures' = 0 => ~LegalFor(t)'
    <3> SUFFICES ASSUME failures = 0, LegalFor(t)' PROVE FALSE
      OBVIOUS
    <3>1. LegalFor(t) /\ dc[t] # NULL /\ L + 1 <= dc[t].rack_count
      BY <1>8, <1>10 DEF RackDropped
    <3>2. dc[t].rack_count \in Nat
      BY <3>1, SetupAssumption DEF Types, Datacenter
    <3>3. L + 1 \in 1..dc[t].rack_count /\ ~(L + 1 <= L)
      BY <1>5, <3>1, <3>2
    <3>4. dc[t].rack[L + 1].name = NULL
      BY <3>1, <3>3 DEF Exact, L
    <3> QED BY <1>10, <3>3, <3>4 DEF RackDropped
  <2> QED BY <1>7, <1>10, <2>1, <2>2, <2>3 DEF Exact, RackDropped
<1>11. CASE RackMade(t, n, name)
  <2>1. PICK i \in 1..dc[t].rack_count, rack \in Rack :
           /\ FirstUnnamed(t, i) /\ SetRack(t, i, rack)
           /\ ncontinuum(rack) = 0 /\ rack.node_count = n
           /\ rack.continuum \in {<<>>, NULL} /\ rack.name \in {name, NULL}
           /\ rack = NewRack(name, n) \/ failures' # 0
    BY <1>11 DEF RackMade
  <2>2. /\ HasRacks(t)' /\ dc[t] # NULL /\ dc'[t] # NULL /\ dc'[t].rack_count = dc[t].rack_count
        /\ dc'[t].rack[i] = rack
        /\ \A j \in 1..dc[t].rack_count : j # i => dc'[t].rack[j] = dc[t].rack[j]
    BY <1>11, <2>1, SetRackEffect DEF HasRacks, RackMade
  <2>3. n \in Nat /\ 0 <= n
    BY SetupAssumption
  <2>4. Fits(t)'
    <3> SUFFICES ASSUME NEW j \in 1..dc[t].rack_count
                 PROVE  /\ ncontinuum(dc'[t].rack[j]) <= dc'[t].rack[j].node_count
                        /\ dc'[t].rack[j].name = NULL => ncontinuum(dc'[t].rack[j]) = 0
      BY <2>2 DEF Fits, ncontinuum
    <3>1. CASE j = i
      BY <2>1, <2>2, <2>3, <3>1
    <3>2. CASE j # i
      BY <1>11, <2>2, <3>2 DEF Fits, RackMade
    <3> QED BY <3>1, <3>2
  <2>5. Remembers(t)'
    <3> SUFFICES ASSUME LegalFor(t)', NEW j \in 1..dc[t].rack_count, dc'[t].rack[j].name # NULL
                 PROVE  /\ AskedFor(t, dc[t].rack[j].name)'
                        /\ dc'[t].rack[j].continuum \in {NULL, asked'[t].nodes[dc'[t].rack[j].name]}
      BY <2>2 DEF Remembers, AskedFor
    <3>1. LegalFor(t) /\ asked[t].nodes[name] = <<>>
      BY <1>8, <2>2
    <3>2. CASE j = i
      BY <1>1, <1>6, <2>1, <2>2, <3>1, <3>2 DEF AskedFor
    <3>3. CASE j # i
      <4>1. dc'[t].rack[j] = dc[t].rack[j]
        BY <2>2, <3>3
      <4>2. PICK x : x = dc[t].rack[j].name
        OBVIOUS
      <4>3. AskedFor(t, x) /\ dc[t].rack[j].continuum \in {NULL, asked[t].nodes[x]}
        BY <1>11, <3>1, <4>1, <4>2 DEF Remembers, RackMade
      <4>4. AskedFor(t, x)'
        BY <1>6, <4>3
      <4> QED BY <1>1, <4>1, <4>2, <4>3, <4>4 DEF AskedFor
    <3> QED BY <3>2, <3>3
  <2>6. Exact(t)'
    <3> SUFFICES ASSUME LegalFor(t)', failures' = 0, NEW j \in 1..dc[t].rack_count
                 PROVE  IF j <= L + 1 THEN dc'[t].rack[j] = RackOf(t, j)'
                                      ELSE dc'[t].rack[j].name = NULL
      BY <1>5, <2>2 DEF Exact, HasRacks
    <3>1. /\ LegalFor(t) /\ asked[t].nodes[name] = <<>> /\ failures = 0 /\ L + 1 <= dc[t].rack_count
          /\ dc[t].rack_count \in Nat
      BY <1>8, <2>2, SetupAssumption DEF Types, Datacenter
    <3>2. \A k \in 1..dc[t].rack_count : IF k <= L THEN dc[t].rack[k] = RackOf(t, k)
                                                   ELSE dc[t].rack[k].name = NULL
      BY <2>2, <3>1 DEF Exact, L
    <3>3. \A k \in 1..L : RackOf(t, k).name # NULL /\ RackOf(t, k)' = RackOf(t, k)
      <4> SUFFICES ASSUME NEW k \in 1..L PROVE RackOf(t, k).name # NULL /\ RackOf(t, k)' = RackOf(t, k)
        OBVIOUS
      <4>1. asked[t].racks[k] \in AskedRack
        BY <1>3, <1>5
      <4> QED BY <1>1, <1>5, <4>1, NullAssumption DEF RackOf, AskedRack
    <3>4. i = L + 1
      <4>1. dc[t].rack[i].name = NULL /\ \A k \in 1..(i - 1) : dc[t].rack[k].name # NULL
        BY <2>1 DEF FirstUnnamed
      <4>2. ~(i <= L)
        <5> SUFFICES ASSUME i <= L PROVE FALSE
          OBVIOUS
        <5>1. i \in 1..L
          BY <1>5
        <5> QED BY <3>2, <3>3, <4>1, <5>1
      <4>3. ~(L + 1 < i)
        <5> SUFFICES ASSUME L + 1 < i PROVE FALSE
          OBVIOUS
        <5>1. L + 1 \in 1..(i - 1) /\ L + 1 \in 1..dc[t].rack_count /\ ~(L + 1 <= L)
          BY <1>5, <3>1
        <5> QED BY <3>2, <4>1, <5>1
      <4> QED BY <1>5, <4>2, <4>3
    <3>5. CASE j = i
      <4>1. dc'[t].rack[j] = NewRack(name, n)
        BY <2>1, <2>2, <3>5
      <4>2. asked'[t].racks[j] = wanted
        BY <1>5, <3>4, <3>5
      <4>3. RackOf(t, j)' = NewRack(name, n)
        BY <1>1, <1>4, <3>1, <4>2 DEF RackOf, NewRack
      <4> QED BY <1>5, <3>4, <3>5, <4>1, <4>3
    <3>6. CASE j # i
      <4>1. dc'[t].rack[j] = dc[t].rack[j]
        BY <2>2, <3>6
      <4>2. CASE j <= L
        <5>1. j \in 1..L /\ j <= L + 1
          BY <1>5, <4>2
        <5> QED BY <3>2, <3>3, <4>1, <4>2, <5>1
      <4>3. CASE ~(j <= L)
        <5>1. ~(j <= L + 1)
          BY <1>5, <3>4, <3>6, <4>3
        <5> QED BY <3>2, <4>1, <4>3, <5>1
      <4> QED BY <4>2, <4>3
    <3> QED BY <3>5, <3>6
  <2> QED BY <1>7, <1>11, <2>4, <2>5, <2>6 DEF RackMade
<1> QED BY <1>9, <1>10, <1>11, RackInitEffect

(* And a call of dynoc_add_node: the caller who kept to the contract also  *)
(* meets no write behind the end of a continuum.                           *)
LEMMA AddNodeKeeps ==
    ASSUME Types, NEW t \in DCs, NEW name \in Names, dynoc_add_node(t, name),
           Fits(t), Orderly(t), Remembers(t), Exact(t), failures' = 0 => failures = 0
    PROVE  /\ Fits(t)' /\ Orderly(t)'
           /\ phase' # "undefined" => Remembers(t)' /\ Exact(t)'
           /\ phase' = "undefined" /\ failures' = 0 => ~LegalFor(t)'
<1> DEFINE nodes == asked[t].nodes
           more == Append(asked[t].nodes[name], calls)
<1>1. /\ asked'[t].racks = asked[t].racks /\ asked'[t].dcs = asked[t].dcs
      /\ asked'[t].nodes = [nodes EXCEPT ![name] = more]
  BY AddNodeEffect
<1>2. ~asked'[t].early => ~asked[t].early /\ dc[t] # NULL /\ AskedFor(t, name)
  <2>1. asked'[t].early = \/ asked[t].early \/ dc[t] = NULL
                          \/ \A k \in DOMAIN asked[t].racks : asked[t].racks[k].name # name
    BY AddNodeEffect
  <2>2. (\A k \in DOMAIN asked[t].racks : asked[t].racks[k].name # name) \/ AskedFor(t, name)
    BY DEF AskedFor
  <2> QED BY <2>1, <2>2, Zenon
<1>3. /\ asked[t].dcs \in Nat /\ asked[t].racks \in Seq(AskedRack) /\ nodes \in [Names -> Seq(Nat)]
      /\ calls \in Nat
  BY SetupAssumption DEF Types, Wish
<1>4. /\ more \in Seq(Nat) /\ nodes[name] \in Seq(Nat) /\ Len(more) = Len(nodes[name]) + 1
      /\ asked'[t].nodes[name] = more
      /\ \A x \in Names : x # name => asked'[t].nodes[x] = nodes[x]
  BY <1>1, <1>3
<1>5. \A k \in DOMAIN asked[t].racks :
         asked[t].racks[k].name \in Names /\ asked[t].racks[k].node_count \in Nat
  <2> SUFFICES ASSUME NEW k \in DOMAIN asked[t].racks
               PROVE  asked[t].racks[k].name \in Names /\ asked[t].racks[k].node_count \in Nat
    OBVIOUS
  <2>1. asked[t].racks[k] \in AskedRack
    BY <1>3
  <2> QED BY <2>1, SetupAssumption DEF AskedRack
<1>6. LegalFor(t)' /\ (dc'[t] = dc[t] \/ (dc'[t] # NULL /\ dc'[t].rack_count = dc[t].rack_count)) =>
      LegalFor(t) /\ dc[t] # NULL
  <2> SUFFICES ASSUME LegalFor(t)',
                      dc'[t] = dc[t] \/ (dc'[t] # NULL /\ dc'[t].rack_count = dc[t].rack_count)
               PROVE  LegalFor(t) /\ dc[t] # NULL
    OBVIOUS
  <2>1. ~asked[t].early /\ dc[t] # NULL /\ dc'[t] # NULL
    BY <1>2 DEF LegalFor
  <2>2. /\ asked[t].dcs <= 1 /\ Len(asked[t].racks) <= dc[t].rack_count
        /\ \A i, j \in DOMAIN asked[t].racks : asked[t].racks[i].name = asked[t].racks[j].name => i = j
        /\ \A i \in DOMAIN asked[t].racks :
              Len(asked'[t].nodes[asked[t].racks[i].name]) <= asked[t].racks[i].node_count
    BY <1>1, <2>1 DEF LegalFor, NodesAsked
  <2>3. \A i \in DOMAIN asked[t].racks : Len(nodes[asked[t].racks[i].name]) <= asked[t].racks[i].node_count
    <3> SUFFICES ASSUME NEW i \in DOMAIN asked[t].racks
                 PROVE  Len(nodes[asked[t].racks[i].name]) <= asked[t].racks[i].node_count
      OBVIOUS
    <3>1. CASE asked[t].racks[i].name = name
      <4>1. Len(nodes[name]) \in Nat /\ asked[t].racks[i].node_count \in Nat
        BY <1>4, <1>5
      <4>2. Len(more) <= asked[t].racks[i].node_count
        BY <1>4, <2>2, <3>1
      <4>3. Len(nodes[name]) <= asked[t].racks[i].node_count
        <5>1. Len(nodes[name]) + 1 <= asked[t].racks[i].node_count
          BY <1>4, <4>2
        <5> HIDE DEF nodes
        <5> QED BY <4>1, <5>1
      <4> QED BY <3>1, <4>3
    <3>2. CASE asked[t].racks[i].name # name
      BY <1>4, <1>5, <2>2, <3>2
    <3> QED BY <3>1, <3>2
  <2> QED BY <2>1, <2>2, <2>3 DEF LegalFor, NodesAsked
<1>7. Orderly(t)'
  <2> SUFFICES ASSUME ~asked'[t].early
               PROVE  /\ dc'[t] # NULL
                      /\ \A x \in Names : ~AskedFor(t, x) => asked'[t].nodes[x] = <<>>
    BY <1>1 DEF Orderly, AskedFor
  <2>1. dc'[t] # NULL
    <3>1. CASE dc' = dc
      BY <1>2, <3>1
    <3> QED BY <3>1, AddNodeEffect DEF AddNodeUndefined, NodeAdded, HasRacks
  <2> QED BY <1>2, <1>4, <2>1 DEF Orderly
<1>8. CASE AddNodeUndefined(t, name)
  <2>1. dc' = dc /\ phase' = "undefined"
    BY <1>8 DEF AddNodeUndefined
  <2>2. Fits(t)'
    BY <2>1 DEF Fits, HasRacks
  <2>3. failures' = 0 => ~LegalFor(t)'
    <3> SUFFICES ASSUME failures' = 0, LegalFor(t)' PROVE FALSE
      OBVIOUS
    <3>1. LegalFor(t) /\ dc[t] # NULL /\ failures = 0
      BY <1>6, <2>1
    <3>2. HasRacks(t)
      BY <3>1 DEF Exact, HasRacks
    <3>3. PICK i \in 1..dc[t].rack_count : dc[t].rack[i].name = name /\ Overruns(dc[t].rack[i])
      BY <1>8, <3>2 DEF AddNodeUndefined, Named
    <3>4. /\ i \in DOMAIN asked[t].racks /\ dc[t].rack[i] = RackOf(t, i)
      <4>1. i <= Len(asked[t].racks)
        BY <3>1, <3>3, NullAssumption DEF Exact
      <4>2. i \in Nat /\ 1 <= i
        OBVIOUS
      <4> QED BY <1>3, <3>1, <4>1, <4>2 DEF Exact
    <3>5. asked[t].racks[i].name = name /\ asked[t].racks[i].node_count \in Nat
      BY <1>5, <3>3, <3>4 DEF RackOf
    <3>6. dc[t].rack[i].continuum = nodes[name] /\ dc[t].rack[i].node_count = asked[t].racks[i].node_count
      BY <3>4, <3>5 DEF RackOf
    <3>7. Len(nodes[name]) >= asked[t].racks[i].node_count
      BY <1>4, <3>3, <3>6, NullAssumption DEF Overruns, ncontinuum
    <3>8. Len(more) <= asked[t].racks[i].node_count
      BY <1>1, <1>4, <3>4, <3>5 DEF LegalFor, NodesAsked
    <3>9. Len(nodes[name]) \in Nat
      BY <1>4
    <3> QED BY <1>4, <3>5, <3>7, <3>8, <3>9
  <2> QED BY <1>7, <2>1, <2>2, <2>3
<1>9. CASE NodeAdded(t, name)
  <2>1. /\ HasRacks(t) /\ HasRacks(t)' /\ phase' = "setup" /\ dc[t] # NULL /\ dc'[t] # NULL
        /\ dc'[t].rack_count = dc[t].rack_count
        /\ \A i \in Named(t, name) : ~Overruns(dc[t].rack[i])
        /\ \A i \in 1..dc[t].rack_count :
              dc'[t].rack[i] = IF i \in Named(t, name) THEN AddTo(dc[t].rack[i], calls)
                              ELSE dc[t].rack[i]
    BY <1>9 DEF NodeAdded, HasRacks
  <2>2. ASSUME NEW i \in 1..dc[t].rack_count, dc[t].rack[i].name = name
        PROVE  /\ dc'[t].rack[i].name = name /\ dc'[t].rack[i].node_count = dc[t].rack[i].node_count
               /\ dc[t].rack[i].continuum \in Seq(Nat)
               /\ dc'[t].rack[i].continuum = Append(dc[t].rack[i].continuum, calls)
               /\ dc'[t].rack[i] = [name |-> name, node_count |-> dc[t].rack[i].node_count,
                                   continuum |-> Append(dc[t].rack[i].continuum, calls)]
               /\ ncontinuum(dc'[t].rack[i]) <= dc[t].rack[i].node_count
    <3>1. PICK r \in Rack : r = dc[t].rack[i]
      BY <2>1 DEF Types
    <3>2. i \in Named(t, name)
      BY <2>2 DEF Named
    <3>3. /\ r.continuum \in Seq(Nat) /\ ~(Len(r.continuum) >= r.node_count)
          /\ r.node_count \in Nat /\ r.name = name
      BY <2>1, <2>2, <3>1, <3>2 DEF Overruns, ncontinuum, Rack
    <3>4. dc'[t].rack[i] = AddTo(r, calls)
      BY <2>1, <3>1, <3>2
    <3>5. /\ AddTo(r, calls) = [name |-> r.name, node_count |-> r.node_count,
                                continuum |-> Append(r.continuum, calls)]
          /\ ncontinuum(AddTo(r, calls)) = Len(r.continuum) + 1 /\ Len(r.continuum) \in Nat
      BY <1>3, <3>3, AddToRack
    <3>6. ncontinuum(dc'[t].rack[i]) <= r.node_count
      <4>1. Len(r.continuum) + 1 <= r.node_count
        BY <3>3, <3>5
      <4> QED BY <3>4, <3>5, <4>1
    <3>7. dc'[t].rack[i] = [name |-> name, node_count |-> r.node_count,
                           continuum |-> Append(r.continuum, calls)]
      BY <3>3, <3>4, <3>5
    <3>8. /\ dc'[t].rack[i].name = name /\ dc'[t].rack[i].node_count = r.node_count
          /\ dc'[t].rack[i].continuum = Append(r.continuum, calls)
      BY <3>7
    <3> QED BY <3>1, <3>3, <3>6, <3>7, <3>8, Zenon
  <2>3. ASSUME NEW i \in 1..dc[t].rack_count, dc[t].rack[i].name # name
        PROVE  dc'[t].rack[i] = dc[t].rack[i]
    BY <2>1, <2>3 DEF Named
  <2>4. Fits(t)'
    <3> SUFFICES ASSUME NEW i \in 1..dc[t].rack_count
                 PROVE  /\ ncontinuum(dc'[t].rack[i]) <= dc'[t].rack[i].node_count
                        /\ dc'[t].rack[i].name = NULL => ncontinuum(dc'[t].rack[i]) = 0
      BY <2>1 DEF Fits, ncontinuum
    <3>1. CASE dc[t].rack[i].name = name
      <4>1. /\ dc'[t].rack[i].name = name
            /\ ncontinuum(dc'[t].rack[i]) <= dc'[t].rack[i].node_count
        <5>1. /\ dc'[t].rack[i].name = name
              /\ dc'[t].rack[i].node_count = dc[t].rack[i].node_count
              /\ ncontinuum(dc'[t].rack[i]) <= dc[t].rack[i].node_count
          BY <2>2, <3>1
        <5> QED BY <5>1
      <4>2. name # NULL
        BY NullAssumption
      <4> QED BY <4>1, <4>2
    <3>2. CASE dc[t].rack[i].name # name
      <4>1. dc'[t].rack[i] = dc[t].rack[i]
        BY <2>3, <3>2
      <4>2. /\ ncontinuum(dc[t].rack[i]) <= dc[t].rack[i].node_count
            /\ dc[t].rack[i].name = NULL => ncontinuum(dc[t].rack[i]) = 0
        BY <2>1 DEF Fits
      <4> QED BY <4>1, <4>2, Zenon
    <3> QED BY <3>1, <3>2
  <2>5. Remembers(t)'
    <3> SUFFICES ASSUME LegalFor(t)', NEW i \in 1..dc'[t].rack_count, dc'[t].rack[i].name # NULL
                 PROVE  /\ AskedFor(t, dc[t].rack[i].name)'
                        /\ dc'[t].rack[i].continuum \in {NULL, asked'[t].nodes[dc'[t].rack[i].name]}
      BY DEF Remembers
    <3>0. i \in 1..dc[t].rack_count
      BY <2>1
    <3> SUFFICES /\ \E k \in DOMAIN asked[t].racks : asked[t].racks[k].name = dc'[t].rack[i].name
                 /\ dc'[t].rack[i].continuum \in {NULL, asked'[t].nodes[dc'[t].rack[i].name]}
      BY <1>1 DEF AskedFor
    <3>1. LegalFor(t)
      BY <1>6, <2>1
    <3>2. CASE dc[t].rack[i].name = name
      <4>1. AskedFor(t, dc[t].rack[i].name) /\ dc[t].rack[i].continuum \in {NULL, nodes[name]}
        <5>1. dc[t].rack[i].name # NULL
          BY <3>2, NullAssumption
        <5> QED BY <2>1, <3>0, <3>1, <3>2, <5>1 DEF Remembers
      <4>2. dc[t].rack[i].continuum # NULL
        <5>1. dc[t].rack[i].continuum \in Seq(Nat)
          BY <2>2, <3>0, <3>2
        <5> QED BY <5>1, NullAssumption
      <4>3. AskedFor(t, name) /\ dc[t].rack[i].continuum = nodes[name]
        BY <3>2, <4>1, <4>2
      <4> QED BY <1>4, <2>2, <3>0, <3>2, <4>3 DEF AskedFor
    <3>3. CASE dc[t].rack[i].name # name
      <4>1. dc'[t].rack[i] = dc[t].rack[i] /\ dc[t].rack[i] \in Rack
        BY <2>1, <2>3, <3>3 DEF Types
      <4>2. PICK x \in Names : x = dc[t].rack[i].name
        BY <4>1 DEF Rack
      <4>3. AskedFor(t, x) /\ dc[t].rack[i].continuum \in {NULL, nodes[x]}
        BY <2>1, <3>1, <4>1, <4>2 DEF Remembers
      <4> QED BY <1>4, <3>3, <4>1, <4>2, <4>3 DEF AskedFor
    <3> QED BY <3>2, <3>3
  <2>6. Exact(t)'
    <3> SUFFICES ASSUME LegalFor(t)', failures' = 0, NEW i \in 1..dc[t].rack_count
                 PROVE  IF i <= Len(asked[t].racks) THEN dc'[t].rack[i] = RackOf(t, i)'
                                                   ELSE dc'[t].rack[i].name = NULL
      BY <1>1, <2>1 DEF Exact, HasRacks
    <3>1. IF i <= Len(asked[t].racks) THEN dc[t].rack[i] = RackOf(t, i)
                                     ELSE dc[t].rack[i].name = NULL
      BY <1>6, <2>1 DEF Exact
    <3>2. CASE i <= Len(asked[t].racks)
      <4>1. i \in DOMAIN asked[t].racks
        BY <1>3, <3>2
      <4>2. PICK x \in Names : x = asked[t].racks[i].name
        BY <1>5, <4>1
      <4>3. /\ dc[t].rack[i].name = x /\ dc[t].rack[i].node_count = asked[t].racks[i].node_count
            /\ dc[t].rack[i].continuum = nodes[x]
        BY <3>1, <3>2, <4>2 DEF RackOf
      <4>4. RackOf(t, i)' = [name |-> x, node_count |-> asked[t].racks[i].node_count,
                            continuum |-> asked'[t].nodes[x]]
        BY <1>1, <4>2 DEF RackOf
      <4>5. CASE x = name
        <5>1. dc'[t].rack[i] = [name |-> name, node_count |-> dc[t].rack[i].node_count,
                               continuum |-> Append(dc[t].rack[i].continuum, calls)]
          BY <2>2, <4>3, <4>5
        <5>2. Append(dc[t].rack[i].continuum, calls) = asked'[t].nodes[x]
          BY <1>4, <4>3, <4>5
        <5>3. dc'[t].rack[i] = RackOf(t, i)'
          BY <4>3, <4>4, <4>5, <5>1, <5>2
        <5> QED BY <3>2, <5>3
      <4>6. CASE x # name
        BY <1>4, <2>3, <3>1, <3>2, <4>2, <4>3, <4>4, <4>6 DEF RackOf
      <4> QED BY <4>5, <4>6
    <3>3. CASE ~(i <= Len(asked[t].racks))
      BY <2>3, <3>1, <3>3, NullAssumption
    <3> QED BY <3>2, <3>3
  <2> QED BY <1>7, <2>1, <2>4, <2>5, <2>6
<1> QED BY <1>8, <1>9, AddNodeEffect

(* A datacenter that a step leaves alone.                                  *)
LEMMA UntouchedKeeps ==
    ASSUME NEW t \in DCs, dc'[t] = dc[t], asked'[t] = asked[t], failures' = 0 => failures = 0
    PROVE  /\ Fits(t) => Fits(t)'
           /\ Orderly(t) => Orderly(t)'
           /\ Remembers(t) => Remembers(t)'
           /\ Exact(t) => Exact(t)'
           /\ LegalFor(t)' <=> LegalFor(t)
<1>1. LegalFor(t)' <=> LegalFor(t)
  BY DEF LegalFor, NodesAsked
<1>2. Fits(t) => Fits(t)'
  BY DEF Fits, HasRacks
<1>3. Orderly(t) => Orderly(t)'
  BY DEF Orderly, AskedFor
<1>4. Remembers(t) => Remembers(t)'
  BY <1>1 DEF Remembers, AskedFor, HasRacks
<1>5. Exact(t) => Exact(t)'
  BY <1>1 DEF Exact, RackOf
<1> QED BY <1>1, <1>2, <1>3, <1>4, <1>5

-----------------------------------------------------------------------------
(* The inductive invariant.  ContractSuffices is part of it: it is decided *)
(* by the step that ends in undefined behaviour, and then nothing moves.   *)
Started == phase = "running" => \A t \in DCs : dc[t] # NULL => dc[t].rack # NULL

SetupInv ==
    /\ Types /\ HashChosen /\ Started /\ ContractSuffices
    /\ \A t \in DCs :
          /\ Fits(t) /\ Orderly(t)
          /\ phase # "undefined" => Remembers(t) /\ Exact(t)

LEMMA SetupInit == Init => SetupInv
<1> SUFFICES ASSUME Init PROVE SetupInv
  OBVIOUS
<1>1. /\ dc = [t \in DCs |-> NULL] /\ phase = "setup" /\ calls = 0 /\ failures = 0
      /\ asked = [t \in DCs |-> [racks |-> <<>>, nodes |-> [name \in Names |-> <<>>],
                               dcs |-> 0, early |-> FALSE]]
  BY DEF Init
<1>2. \A t \in DCs : dc[t] = NULL
  BY <1>1
<1>3. asked \in [DCs -> Wish]
  <2>1. [name \in Names |-> <<>>] \in [Names -> Seq(Nat)]
    OBVIOUS
  <2>2. [racks |-> <<>>, nodes |-> [name \in Names |-> <<>>], dcs |-> 0, early |-> FALSE] \in Wish
    BY <2>1 DEF Wish
  <2> QED BY <1>1, <2>2
<1>4. Types
  <2>1. dc \in [DCs -> Datacenter \cup {NULL}]
    BY <1>1
  <2>2. calls \in 0..MaxSetup /\ failures \in 0..MaxFailures
    BY <1>1, SetupAssumption
  <2> QED BY <1>1, <1>2, <1>3, <2>1, <2>2 DEF Types, HasRacks
<1>5. \A t \in DCs : asked[t].racks = <<>> /\ \A name \in Names : asked[t].nodes[name] = <<>>
  BY <1>1
<1>6. \A t \in DCs : Fits(t) /\ Remembers(t) /\ Exact(t)
  BY <1>2 DEF Fits, Remembers, Exact, HasRacks
<1>7. \A t \in DCs : Orderly(t)
  BY <1>5 DEF Orderly
<1> QED BY <1>1, <1>4, <1>6, <1>7, HashInit DEF SetupInv, Started, ContractSuffices

(* What every call does to the counters.                                   *)
LEMMA CountersStep ==
    ASSUME Types,
           \/ \E t \in DCs, n \in Counts : dynoc_datacenter_init(t, n)
           \/ \E t \in DCs, n \in Counts, name \in Names : dynoc_rack_init(t, n, name)
           \/ \E t \in DCs, name \in Names : dynoc_add_node(t, name)
    PROVE  /\ calls' \in 0..MaxSetup /\ failures' \in 0..MaxFailures
           /\ failures' = 0 => failures = 0
<1>1. calls < MaxSetup /\ calls' = calls + 1
  BY DEF dynoc_datacenter_init, dynoc_rack_init, dynoc_add_node, Calling
<1>2. failures' = failures \/ OutOfMemory
  BY DEF dynoc_datacenter_init, dynoc_rack_init, dynoc_add_node
<1> QED BY <1>1, <1>2, SetupAssumption DEF Types, OutOfMemory

LEMMA DatacenterInitTypes ==
    ASSUME Types, NEW t \in DCs, NEW n \in Counts, dynoc_datacenter_init(t, n)
    PROVE  Types'
<1>1. /\ dc \in [DCs -> Datacenter \cup {NULL}]
      /\ \A u \in DCs : HasRacks(u) => dc[u].rack \in [1..dc[u].rack_count -> Rack]
  BY DEF Types
<1>2. /\ asked' \in [DCs -> Wish] /\ phase' \in {"setup", "running", "undefined"}
      /\ calls' \in 0..MaxSetup /\ failures' \in 0..MaxFailures
  BY DatacenterInitEffect, CountersStep
<1>3. CASE dc' = dc
  BY <1>1, <1>2, <1>3 DEF Types, HasRacks
<1>4. ASSUME NEW r \in [1..n -> Rack] \cup {NULL},
             dc' = [dc EXCEPT ![t] = [rack_count |-> n, rack |-> r]]
      PROVE  Types'
  <2>1. [rack_count |-> n, rack |-> r] \in Datacenter
    BY <1>4, NotNull DEF Datacenter
  <2>2. /\ dc'[t] = [rack_count |-> n, rack |-> r] /\ \A u \in DCs : u # t => dc'[u] = dc[u]
        /\ dc' \in [DCs -> Datacenter \cup {NULL}]
    BY <1>1, <1>4, <2>1
  <2>3. ASSUME NEW u \in DCs, HasRacks(u)' PROVE dc'[u].rack \in [1..dc'[u].rack_count -> Rack]
    <3>1. CASE u = t
      BY <2>2, <2>3, <3>1 DEF HasRacks
    <3>2. CASE u # t
      BY <1>1, <2>2, <2>3, <3>2 DEF HasRacks
    <3> QED BY <3>1, <3>2
  <2> QED BY <1>2, <2>2, <2>3 DEF Types
<1>5. \/ dc' = dc
      \/ dc' = [dc EXCEPT ![t] = [rack_count |-> n, rack |-> [i \in 1..n |-> BlankRack]]]
      \/ dc' = [dc EXCEPT ![t] = [rack_count |-> n, rack |-> NULL]]
  BY DEF dynoc_datacenter_init
<1>6. [i \in 1..n |-> BlankRack] \in [1..n -> Rack]
  BY BlankRacks
<1> QED BY <1>3, <1>4, <1>5, <1>6

LEMMA RackInitTypes ==
    ASSUME Types, NEW t \in DCs, NEW n \in Counts, NEW name \in Names, dynoc_rack_init(t, n, name)
    PROVE  Types'
<1>1. /\ dc \in [DCs -> Datacenter \cup {NULL}]
      /\ \A u \in DCs : HasRacks(u) => dc[u].rack \in [1..dc[u].rack_count -> Rack]
  BY DEF Types
<1>2. /\ asked' \in [DCs -> Wish] /\ phase' \in {"setup", "running", "undefined"}
      /\ calls' \in 0..MaxSetup /\ failures' \in 0..MaxFailures
      /\ \A u \in DCs : u # t => dc'[u] = dc[u]
  BY RackInitEffect, CountersStep
<1>3. CASE dc' = dc
  BY <1>1, <1>2, <1>3 DEF Types, HasRacks
<1>4. CASE RackMade(t, n, name)
  <2>1. /\ dc' \in [DCs -> Datacenter \cup {NULL}] /\ dc'[t].rack_count = dc[t].rack_count
        /\ dc'[t].rack \in [1..dc[t].rack_count -> Rack]
    BY <1>4, SetRackEffect DEF RackMade
  <2>2. ASSUME NEW u \in DCs, HasRacks(u)' PROVE dc'[u].rack \in [1..dc'[u].rack_count -> Rack]
    <3>1. CASE u # t
      BY <1>1, <1>2, <2>2, <3>1 DEF HasRacks
    <3> QED BY <2>1, <3>1
  <2> QED BY <1>2, <2>1, <2>2 DEF Types
<1> QED BY <1>3, <1>4, RackInitEffect DEF RackInitUndefined, RackDropped

LEMMA AddNodeTypes ==
    ASSUME Types, NEW t \in DCs, NEW name \in Names, dynoc_add_node(t, name)
    PROVE  Types'
<1>1. /\ dc \in [DCs -> Datacenter \cup {NULL}]
      /\ \A u \in DCs : HasRacks(u) => dc[u].rack \in [1..dc[u].rack_count -> Rack]
  BY DEF Types
<1>2. /\ asked' \in [DCs -> Wish] /\ phase' \in {"setup", "running", "undefined"}
      /\ calls' \in 0..MaxSetup /\ failures' \in 0..MaxFailures
      /\ \A u \in DCs : u # t => dc'[u] = dc[u]
  BY AddNodeEffect, CountersStep
<1>3. CASE dc' = dc
  BY <1>1, <1>2, <1>3 DEF Types, HasRacks
<1>4. CASE NodeAdded(t, name)
  <2>1. /\ dc' \in [DCs -> Datacenter \cup {NULL}] /\ dc'[t].rack_count = dc[t].rack_count
        /\ dc'[t].rack \in [1..dc[t].rack_count -> Rack]
    BY <1>4 DEF NodeAdded
  <2>2. ASSUME NEW u \in DCs, HasRacks(u)' PROVE dc'[u].rack \in [1..dc'[u].rack_count -> Rack]
    <3>1. CASE u # t
      BY <1>1, <1>2, <2>2, <3>1 DEF HasRacks
    <3> QED BY <2>1, <3>1
  <2> QED BY <1>2, <2>1, <2>2 DEF Types
<1> QED BY <1>3, <1>4, AddNodeEffect DEF AddNodeUndefined

LEMMA DatacenterInitStep ==
    ASSUME SetupInv, HashChosen', NEW t \in DCs, NEW n \in Counts, dynoc_datacenter_init(t, n)
    PROVE  SetupInv'
<1>1. /\ \A u \in DCs : u # t => dc'[u] = dc[u] /\ asked'[u] = asked[u]
      /\ phase = "setup" /\ phase' = phase
      /\ failures' = 0 => failures = 0
  BY DatacenterInitEffect, CountersStep DEF SetupInv
<1>2. Types'
  BY DatacenterInitTypes DEF SetupInv
<1>3. Fits(t)' /\ Orderly(t)' /\ Remembers(t)' /\ Exact(t)'
  BY <1>1, DatacenterInitKeeps DEF SetupInv
<1>4. ASSUME NEW u \in DCs, u # t PROVE Fits(u)' /\ Orderly(u)' /\ Remembers(u)' /\ Exact(u)'
  BY <1>1, <1>4, UntouchedKeeps DEF SetupInv
<1>5. Started' /\ ContractSuffices'
  BY <1>1 DEF Started, ContractSuffices
<1> QED BY <1>2, <1>3, <1>4, <1>5 DEF SetupInv

LEMMA RackInitStep ==
    ASSUME SetupInv, HashChosen', NEW t \in DCs, NEW n \in Counts, NEW name \in Names,
           dynoc_rack_init(t, n, name)
    PROVE  SetupInv'
<1>1. /\ \A u \in DCs : u # t => dc'[u] = dc[u] /\ asked'[u] = asked[u]
      /\ phase = "setup" /\ phase' \in {"setup", "undefined"}
      /\ failures' = 0 => failures = 0
  BY RackInitEffect, CountersStep DEF SetupInv
<1>2. Types'
  BY RackInitTypes DEF SetupInv
<1>3. /\ Fits(t)' /\ Orderly(t)'
      /\ phase' # "undefined" => Remembers(t)' /\ Exact(t)'
      /\ phase' = "undefined" /\ failures' = 0 => ~LegalFor(t)'
  BY <1>1, RackInitKeeps DEF SetupInv
<1>4. ASSUME NEW u \in DCs, u # t PROVE Fits(u)' /\ Orderly(u)' /\ Remembers(u)' /\ Exact(u)'
  BY <1>1, <1>4, UntouchedKeeps DEF SetupInv
<1>5. Started' /\ ContractSuffices'
  BY <1>1, <1>3 DEF Started, ContractSuffices, LegalSoFar
<1> QED BY <1>2, <1>3, <1>4, <1>5 DEF SetupInv

LEMMA AddNodeStep ==
    ASSUME SetupInv, HashChosen', NEW t \in DCs, NEW name \in Names, dynoc_add_node(t, name)
    PROVE  SetupInv'
<1>1. /\ \A u \in DCs : u # t => dc'[u] = dc[u] /\ asked'[u] = asked[u]
      /\ phase = "setup" /\ phase' \in {"setup", "undefined"}
      /\ failures' = 0 => failures = 0
  BY AddNodeEffect, CountersStep DEF SetupInv
<1>2. Types'
  BY AddNodeTypes DEF SetupInv
<1>3. /\ Fits(t)' /\ Orderly(t)'
      /\ phase' # "undefined" => Remembers(t)' /\ Exact(t)'
      /\ phase' = "undefined" /\ failures' = 0 => ~LegalFor(t)'
  BY <1>1, AddNodeKeeps DEF SetupInv
<1>4. ASSUME NEW u \in DCs, u # t PROVE Fits(u)' /\ Orderly(u)' /\ Remembers(u)' /\ Exact(u)'
  BY <1>1, <1>4, UntouchedKeeps DEF SetupInv
<1>5. Started' /\ ContractSuffices'
  BY <1>1, <1>3 DEF Started, ContractSuffices, LegalSoFar
<1> QED BY <1>2, <1>3, <1>4, <1>5 DEF SetupInv

(* dynoc_start, and the first access to an empty ring or to one that was   *)
(* never allocated.                                                        *)
LEMMA StartStep ==
    ASSUME SetupInv, HashChosen',
           dynoc_start \/ \E t \in DCs : dc[t] # NULL /\
                             \E i \in 1..dc[t].rack_count :
                                 SelectsEmptyRing(t, i) \/ ReconnectsNowhere(t, i)
    PROVE  SetupInv'
<1>1. UNCHANGED <<dc, asked, calls, failures>>
  BY DEF dynoc_start, SelectsEmptyRing, ReconnectsNowhere, Undefined, historyVars
<1>2. phase # "undefined" /\ phase' \in {"running", "undefined"}
  BY DEF dynoc_start, SelectsEmptyRing, ReconnectsNowhere, Undefined
<1>3. Types'
  BY <1>1, <1>2 DEF SetupInv, Types, HasRacks
<1>4. ASSUME NEW u \in DCs
      PROVE  Fits(u)' /\ Orderly(u)' /\ Remembers(u)' /\ Exact(u)' /\ (LegalFor(u)' <=> LegalFor(u))
  BY <1>1, <1>2, <1>4, UntouchedKeeps DEF SetupInv
<1>5. Started'
  <2>1. CASE dynoc_start
    BY <1>1, <2>1 DEF Started, dynoc_start, Undefined
  <2>2. CASE \E t \in DCs : dc[t] # NULL /\
               \E i \in 1..dc[t].rack_count : SelectsEmptyRing(t, i) \/ ReconnectsNowhere(t, i)
    BY <2>2 DEF Started, SelectsEmptyRing, ReconnectsNowhere, Undefined
  <2> QED BY <2>1, <2>2
<1>6. ContractSuffices'
  <2> SUFFICES ASSUME phase' = "undefined", failures = 0, \A u \in DCs : LegalFor(u),
                      hash_func' = NULL \/ Complete'
               PROVE  FALSE
    BY <1>1, <1>4 DEF ContractSuffices, LegalSoFar
  <2>1. \A u \in DCs : dc[u] # NULL => dc[u].rack # NULL
    BY <1>2 DEF SetupInv, Exact
  <2>2. CASE dynoc_start
    BY <2>1, <2>2 DEF dynoc_start
  <2>3. ASSUME NEW t \in DCs, dc[t] # NULL, NEW i \in 1..dc[t].rack_count,
               SelectsEmptyRing(t, i) \/ ReconnectsNowhere(t, i)
        PROVE  FALSE
    <3>1. phase = "running" /\ ncontinuum(dc[t].rack[i]) = 0 /\ hash_func' = hash_func
      BY <2>3 DEF SelectsEmptyRing, ReconnectsNowhere, ncontinuum, Undefined
    <3>2. hash_func # NULL
      BY <3>1, HashFuncFound DEF SetupInv, HashChosen
    <3>3. Complete
      BY <1>1, <3>1, <3>2 DEF Complete, NodesAsked
    <3>4. /\ asked[t].racks \in Seq(AskedRack) /\ asked[t].nodes \in [Names -> Seq(Nat)]
          /\ dc[t].rack_count \in Nat
      BY <2>3, SetupAssumption DEF SetupInv, Types, Wish, Datacenter
    <3>5. i \in DOMAIN asked[t].racks /\ i <= Len(asked[t].racks)
      BY <2>3, <3>3, <3>4 DEF Complete
    <3>6. asked[t].racks[i] \in AskedRack
      BY <3>4, <3>5
    <3>7. PICK e \in Seq(Nat) : e = asked[t].nodes[asked[t].racks[i].name] /\ e # <<>>
      BY <2>3, <3>3, <3>4, <3>5, <3>6 DEF Complete, NodesAsked, AskedRack
    <3>8. dc[t].rack[i] = RackOf(t, i)
      BY <1>2, <2>3, <3>5 DEF SetupInv, Exact
    <3>9. ncontinuum(dc[t].rack[i]) = Len(e)
      BY <3>7, <3>8, NullAssumption DEF RackOf, ncontinuum
    <3> QED BY <3>1, <3>7, <3>9
  <2> QED BY <2>2, <2>3
<1> QED BY <1>3, <1>4, <1>5, <1>6 DEF SetupInv

LEMMA SetupStep ==
    ASSUME SetupInv, [Next]_vars
    PROVE  SetupInv'
<1>1. HashChosen'
  BY HashStep DEF SetupInv
<1>2. ASSUME NEW name \in HashNames, dynoc_hash_type_init(name) PROVE SetupInv'
  <2>1. UNCHANGED <<dc, asked, phase, failures>> /\ phase = "setup"
    BY <1>2 DEF dynoc_hash_type_init, Calling
  <2>2. calls' \in 0..MaxSetup
    BY <1>2, SetupAssumption DEF dynoc_hash_type_init, Calling, SetupInv, Types
  <2>3. Types'
    BY <2>1, <2>2 DEF SetupInv, Types, HasRacks
  <2>4. ASSUME NEW u \in DCs PROVE Fits(u)' /\ Orderly(u)' /\ Remembers(u)' /\ Exact(u)'
    BY <2>1, <2>4, UntouchedKeeps DEF SetupInv
  <2>5. Started' /\ ContractSuffices'
    BY <2>1 DEF Started, ContractSuffices
  <2> QED BY <1>1, <2>3, <2>4, <2>5 DEF SetupInv
<1>3. CASE UNCHANGED vars
  <2>1. UNCHANGED <<dc, asked, phase, calls, failures, hash_func>>
    BY <1>3 DEF vars
  <2>2. Types' /\ Started'
    BY <2>1 DEF SetupInv, Types, HasRacks, Started
  <2>3. \A u \in DCs : /\ Fits(u)' /\ Orderly(u)'
                       /\ phase' # "undefined" => Remembers(u)' /\ Exact(u)'
    BY <2>1, UntouchedKeeps DEF SetupInv
  <2>4. ContractSuffices'
    BY <2>1 DEF SetupInv, ContractSuffices, LegalSoFar, LegalFor, Complete, NodesAsked
  <2> QED BY <1>1, <2>2, <2>3, <2>4 DEF SetupInv
<1> QED BY <1>1, <1>2, <1>3, DatacenterInitStep, RackInitStep, AddNodeStep, StartStep DEF Next

(* Whatever the caller configures, and whichever allocations fail, the     *)
(* invariant holds.                                                        *)
THEOREM SetupInvariant == Spec => []SetupInv
<1>1. Init => SetupInv
  BY SetupInit
<1>2. SetupInv /\ [Next]_vars => SetupInv'
  BY SetupStep
<1> QED BY <1>1, <1>2, PTL DEF Spec

-----------------------------------------------------------------------------
(* Types: every rack is a rack, and hash_type selects a function of the    *)
(* table whatever names the caller tried.                                  *)
THEOREM SetupTypeCorrect == Spec => []SetupTypeOK
<1>1. SetupInv => SetupTypeOK
  <2> SUFFICES ASSUME SetupInv PROVE SetupTypeOK
    OBVIOUS
  <2>1. ASSUME NEW t \in DCs, HasRacks(t), NEW i \in 1..dc[t].rack_count
        PROVE  dc[t].rack[i] \in Rack
    BY <2>1 DEF SetupInv, Types
  <2> QED BY <2>1 DEF SetupInv, Types, HashChosen, SetupTypeOK
<1> QED BY <1>1, SetupInvariant, PTL

(* Keys are hashed by the function the caller named last before            *)
(* dynoc_start, or by murmur, and never through a NULL pointer.            *)
THEOREM HashIsTheCallers == Spec => []HashFollowsCaller
<1>1. SetupInv => HashFollowsCaller
  BY DEF SetupInv, HashChosen, HashAsked, HashFollowsCaller
<1> QED BY <1>1, SetupInvariant, PTL

(* A caller who keeps to the contract meets no undefined behaviour.        *)
THEOREM ContractIsEnough == Spec => []ContractSuffices
<1>1. SetupInv => ContractSuffices
  BY DEF SetupInv
<1> QED BY <1>1, SetupInvariant, PTL

(* No ring of a started client has a hole, whichever allocations failed.   *)
THEOREM RingsHaveNoHoles == Spec => []RingsComplete
<1>1. SetupInv => RingsComplete
  <2> SUFFICES ASSUME SetupInv, phase = "running", LegalSoFar, NEW t \in DCs, dc[t] # NULL,
                      NEW i \in 1..dc[t].rack_count, ncontinuum(dc[t].rack[i]) > 0
               PROVE  dc[t].rack[i].continuum = NodesAsked(t, dc[t].rack[i].name)
    BY DEF RingsComplete
  <2>1. HasRacks(t) /\ LegalFor(t) /\ phase # "undefined"
    BY DEF SetupInv, Started, HasRacks, LegalSoFar
  <2>2. dc[t].rack[i].continuum # NULL
    BY DEF ncontinuum
  <2>3. dc[t].rack[i].name # NULL
    <3>1. Fits(t)
      BY DEF SetupInv
    <3> QED BY <2>1, <3>1 DEF Fits
  <2>4. Remembers(t)
    BY <2>1 DEF SetupInv
  <2> QED BY <2>1, <2>2, <2>3, <2>4 DEF Remembers, NodesAsked
<1> QED BY <1>1, SetupInvariant, PTL

(* A complete and legal configuration establishes the topology on which    *)
(* the commands rely: racks with names of their own, one to node_count     *)
(* nodes in each.                                                          *)
THEOREM TopologyEstablished == Spec => []EstablishesTopology
<1>1. SetupInv => EstablishesTopology
  <2> SUFFICES ASSUME SetupInv, phase = "running", LegalSoFar, Complete, failures = 0,
                      NEW t \in DCs, dc[t] # NULL
               PROVE  \A i \in 1..dc[t].rack_count :
                         /\ dc[t].rack[i].name # NULL
                         /\ \A j \in 1..dc[t].rack_count :
                               dc[t].rack[j].name = dc[t].rack[i].name => i = j
                         /\ ncontinuum(dc[t].rack[i]) \in 1..dc[t].rack[i].node_count
    BY DEF EstablishesTopology
  <2>1. LegalFor(t) /\ Exact(t)
    BY DEF SetupInv, LegalSoFar
  <2>2. /\ asked[t].racks \in Seq(AskedRack) /\ asked[t].nodes \in [Names -> Seq(Nat)]
        /\ dc[t].rack_count \in Nat /\ Len(asked[t].racks) = dc[t].rack_count
    BY SetupAssumption DEF SetupInv, Types, Wish, Datacenter, Complete
  <2>3. DOMAIN asked[t].racks = 1..dc[t].rack_count
    BY <2>2
  <2>4. ASSUME NEW i \in 1..dc[t].rack_count
        PROVE  /\ dc[t].rack[i] = RackOf(t, i) /\ asked[t].racks[i] \in AskedRack
               /\ dc[t].rack[i].name = asked[t].racks[i].name
    <3>1. i <= Len(asked[t].racks)
      BY <2>2
    <3>2. dc[t].rack[i] = RackOf(t, i)
      BY <2>1, <3>1 DEF Exact
    <3>3. asked[t].racks[i] \in AskedRack
      BY <2>2, <2>3
    <3> QED BY <3>2, <3>3 DEF RackOf
  <2>5. ASSUME NEW i \in 1..dc[t].rack_count
        PROVE  ncontinuum(dc[t].rack[i]) \in 1..dc[t].rack[i].node_count
    <3>1. PICK e \in Seq(Nat) : e = asked[t].nodes[asked[t].racks[i].name]
      BY <2>2, <2>4 DEF AskedRack
    <3>2. e # <<>> /\ Len(e) <= asked[t].racks[i].node_count
      <4>1. i \in DOMAIN asked[t].racks
        BY <2>3
      <4>2. \A k \in DOMAIN asked[t].racks : NodesAsked(t, asked[t].racks[k].name) # <<>>
        BY DEF Complete
      <4>3. \A k \in DOMAIN asked[t].racks :
               Len(NodesAsked(t, asked[t].racks[k].name)) <= asked[t].racks[k].node_count
        BY <2>1 DEF LegalFor
      <4> QED BY <3>1, <4>1, <4>2, <4>3 DEF NodesAsked
    <3>3. ncontinuum(dc[t].rack[i]) = Len(e) /\ dc[t].rack[i].node_count = asked[t].racks[i].node_count
      <4>1. /\ RackOf(t, i).continuum = e
            /\ RackOf(t, i).node_count = asked[t].racks[i].node_count
        BY <3>1 DEF RackOf
      <4>2. dc[t].rack[i].continuum = e /\ e # NULL
        BY <2>4, <4>1, NullAssumption
      <4> QED BY <2>4, <4>1, <4>2 DEF ncontinuum
    <3>4. asked[t].racks[i].node_count \in Nat
      BY <2>4, SetupAssumption DEF AskedRack
    <3>5. Len(e) \in Nat /\ Len(e) # 0
      BY <3>2
    <3> QED BY <3>2, <3>3, <3>4, <3>5
  <2>6. ASSUME NEW i \in 1..dc[t].rack_count
        PROVE  dc[t].rack[i].name # NULL
    BY <2>4, NullAssumption DEF AskedRack
  <2>7. ASSUME NEW i \in 1..dc[t].rack_count, NEW j \in 1..dc[t].rack_count,
               dc[t].rack[j].name = dc[t].rack[i].name
        PROVE  i = j
    BY <2>1, <2>3, <2>4, <2>7 DEF LegalFor
  <2> QED BY <2>5, <2>6, <2>7
<1> QED BY <1>1, SetupInvariant, PTL
=============================================================================
