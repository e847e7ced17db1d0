--------------------------- MODULE DynocPoolProofs ---------------------------
(***************************************************************************)
(* The connection pool is safe for every number of application threads,    *)
(* racks, nodes, keys and contexts, every routing and every password       *)
(* configuration.                                                          *)
(***************************************************************************)
EXTENDS DynocPool, TLAPS

(* A thread inside the critical section of a connection holds its mutex.   *)
LockHeld == \A s \in Slots, t \in Threads : Uses(t, s) => lock[s] = t

(* dynoc_start runs before any command.                                    *)
StartQuiet == Starting => \A c \in Clients : pc[c] = "idle"

(* A running command has a key, and the connection it has selected is that *)
(* of the key's owner in one of the racks.                                 *)
Routed ==
    \A c \in Clients :
        /\ pc[c] # "idle" => key[c] \in Keys
        /\ pc[c] \in {"lock", "locked", "wait"} =>
              conn[c] \in Slots /\ conn[c] = Owner(key[c], RackOf(conn[c]))

(* A connection stays VALID while a reply is awaited on it.                *)
WaitsOnValid == \A c \in Clients : pc[c] = "wait" => status[conn[c]] = VALID

(* Between connect and AUTH the new context belongs to the keeper alone.   *)
AuthContext ==
    kpc \in {"init_auth", "auth"} =>
        /\ kctx \in Contexts /\ heap[kctx] # "free" /\ peer[kctx] = kpos
        /\ \A s \in Slots : ctx[s] # kctx

IInv ==
    /\ TypeOK /\ LockHeld /\ StartQuiet /\ Routed /\ WaitsOnValid
    /\ AuthContext /\ ContextOwnership /\ ServedByOwner

-----------------------------------------------------------------------------
(* The topology: racks and slots are tuples of indices within bounds.      *)
LEMMA RackFields ==
    ASSUME NEW r \in Racks
    PROVE  /\ r = <<r[1], r[2]>> /\ r[1] \in DCs
           /\ r[2] \in Nat /\ r[2] < RackCount[r[1]]
<1>1. PICK d \in DCs : r \in {<<d, i>> : i \in 0..(RackCount[d] - 1)}
  BY DEF Racks
<1>2. PICK i \in 0..(RackCount[d] - 1) : r = <<d, i>>
  BY <1>1
<1>3. RackCount[d] \in Nat
  BY TopologyAssumption
<1> QED BY <1>2, <1>3

LEMMA RackIntro ==
    ASSUME NEW d \in DCs, NEW i \in Nat, i < RackCount[d]
    PROVE  <<d, i>> \in Racks
<1>1. i \in 0..(RackCount[d] - 1)
  BY TopologyAssumption
<1> QED BY <1>1 DEF Racks

LEMMA SlotFields ==
    ASSUME NEW s \in Slots
    PROVE  /\ s = <<s[1], s[2], s[3]>>
           /\ RackOf(s) \in Racks /\ s[1] \in DCs
           /\ s[2] \in Nat /\ s[2] < RackCount[s[1]]
           /\ s[3] \in Nat /\ s[3] < NodeCount[RackOf(s)]
<1>1. PICK r \in Racks : s \in {<<r[1], r[2], j>> : j \in 0..(NodeCount[r] - 1)}
  BY DEF Slots
<1>2. PICK j \in 0..(NodeCount[r] - 1) : s = <<r[1], r[2], j>>
  BY <1>1
<1>3. NodeCount[r] \in Nat
  BY TopologyAssumption
<1>4. r = <<r[1], r[2]>> /\ r[1] \in DCs /\ r[2] \in Nat /\ r[2] < RackCount[r[1]]
  BY RackFields
<1>5. RackOf(s) = r
  BY <1>2, <1>4 DEF RackOf
<1> QED BY <1>2, <1>3, <1>4, <1>5

LEMMA SlotIntro ==
    ASSUME NEW r \in Racks, NEW j \in Nat, j < NodeCount[r]
    PROVE  /\ <<r[1], r[2], j>> \in Slots
           /\ RackOf(<<r[1], r[2], j>>) = r
<1>1. j \in 0..(NodeCount[r] - 1)
  BY TopologyAssumption
<1> QED BY <1>1, RackFields DEF Slots, RackOf

(* The owner of a key in a rack is a slot of that rack.                    *)
LEMMA OwnerSlot ==
    ASSUME NEW k \in Keys, NEW r \in Racks
    PROVE  Owner(k, r) \in Slots /\ RackOf(Owner(k, r)) = r
<1>1. Route[k][r] \in Nat /\ Route[k][r] < NodeCount[r]
  BY RouteAssumption, TopologyAssumption
<1> QED BY <1>1, SlotIntro DEF Owner

LEMMA FirstSlotType == FirstSlot \in Slots
<1> DEFINE d == IF LOCAL_DC \in DCs THEN LOCAL_DC ELSE REMOTE_DC
<1>1. d \in DCs
  BY TopologyAssumption
<1>2. <<d, 0>> \in Racks
  BY <1>1, RackIntro, TopologyAssumption
<1>3. 0 < NodeCount[<<d, 0>>]
  BY <1>2, TopologyAssumption
<1> QED BY <1>2, <1>3, SlotIntro DEF FirstSlot

(* The nested loops of dynoc_start and of reconnect_datacenter stay within *)
(* the arrays.                                                             *)
LEMMA NextSlotType ==
    ASSUME NEW count \in [Racks -> Nat \ {0}], \A r \in Racks : count[r] <= NodeCount[r],
           NEW s \in Slots
    PROVE  NextSlot(count, s) \in Slots \cup {NULL}
<1>1. /\ RackOf(s) \in Racks /\ s[1] \in DCs
      /\ s[2] \in Nat /\ s[3] \in Nat
  BY SlotFields
<1>2. CASE s[3] + 1 < count[RackOf(s)]
  <2>1. s[3] + 1 \in Nat /\ s[3] + 1 < NodeCount[RackOf(s)]
    BY <1>1, <1>2, TopologyAssumption
  <2> QED BY <1>1, <1>2, <2>1, SlotIntro DEF NextSlot, RackOf
<1>3. CASE ~(s[3] + 1 < count[RackOf(s)]) /\ s[2] + 1 < RackCount[s[1]]
  <2>1. <<s[1], s[2] + 1>> \in Racks
    BY <1>1, <1>3, RackIntro
  <2>2. 0 < NodeCount[<<s[1], s[2] + 1>>]
    BY <2>1, TopologyAssumption
  <2> QED BY <1>3, <2>1, <2>2, SlotIntro DEF NextSlot
<1>4. CASE REMOTE_DC \in DCs
  <2>1. <<REMOTE_DC, 0>> \in Racks
    BY <1>4, RackIntro, TopologyAssumption
  <2>2. 0 < NodeCount[<<REMOTE_DC, 0>>]
    BY <2>1, TopologyAssumption
  <2>3. <<REMOTE_DC, 0, 0>> \in Slots
    BY <2>1, <2>2, SlotIntro
  <2> QED BY <2>3, <1>2, <1>3 DEF NextSlot
<1> QED BY <1>2, <1>3, <1>4 DEF NextSlot

-----------------------------------------------------------------------------
(* The order in which the nested loops come to the slots: the local        *)
(* datacenter before the remote one, racks in order, slots in order.       *)
Before(s, t) ==
    \/ s[1] = LOCAL_DC /\ t[1] = REMOTE_DC
    \/ s[1] = t[1] /\ (s[2] < t[2] \/ (s[2] = t[2] /\ s[3] < t[3]))

(* It is a strict order.                                                   *)
LEMMA BeforeOrder ==
    ASSUME NEW s \in Slots, NEW t \in Slots
    PROVE  /\ ~Before(s, s)
           /\ \A u \in Slots : Before(s, t) /\ Before(t, u) => Before(s, u)
<1>1. LOCAL_DC # REMOTE_DC
  BY DEF LOCAL_DC, REMOTE_DC
<1>2. \A u \in Slots : u[2] \in Nat /\ u[3] \in Nat
  BY SlotFields
<1> QED BY <1>1, <1>2 DEF Before

(* Either loop, over the filled nodes or over the whole array, goes        *)
(* forward.                                                                *)
LEMMA NextSlotForward ==
    ASSUME NEW count \in [Racks -> Nat \ {0}], NEW s \in Slots,
           NextSlot(count, s) # NULL
    PROVE  Before(s, NextSlot(count, s))
<1>1. s[2] \in Nat /\ s[3] \in Nat
  BY SlotFields
<1> QED BY <1>1 DEF NextSlot, Before

(* The loop over the whole array leaves out no slot.                       *)
LEMMA NextSlotExact ==
    ASSUME NEW s \in Slots, NEW t \in Slots
    PROVE  LET n == NextSlot(NodeCount, s) IN
           /\ n = NULL => t = s \/ Before(t, s)
           /\ n # NULL => (Before(t, n) => t = s \/ Before(t, s))
<1> DEFINE n == NextSlot(NodeCount, s)
<1>1. LOCAL_DC # REMOTE_DC /\ DCs \subseteq {LOCAL_DC, REMOTE_DC}
  BY TopologyAssumption DEF LOCAL_DC, REMOTE_DC
<1>2. /\ s = <<s[1], s[2], s[3]>> /\ s[1] \in DCs /\ s[2] \in Nat /\ s[3] \in Nat
      /\ RackOf(s) \in Racks /\ RackOf(s) = <<s[1], s[2]>>
      /\ t = <<t[1], t[2], t[3]>> /\ t[1] \in DCs /\ t[2] \in Nat /\ t[3] \in Nat
      /\ t[2] < RackCount[t[1]] /\ t[3] < NodeCount[RackOf(t)] /\ RackOf(t) = <<t[1], t[2]>>
  BY SlotFields DEF RackOf
<1>3. RackCount[s[1]] \in Nat /\ NodeCount[RackOf(s)] \in Nat
  BY <1>2, TopologyAssumption
<1>4. t[1] = s[1] /\ t[2] = s[2] /\ t[3] = s[3] => t = s
  BY <1>2
<1>5. CASE s[3] + 1 < NodeCount[RackOf(s)]
  <2>1. n = <<s[1], s[2], s[3] + 1>> /\ (n # NULL => (Before(t, n) => t = s \/ Before(t, s)))
    BY <1>1, <1>2, <1>4, <1>5 DEF NextSlot, Before
  <2>2. n # NULL
    <3>1. n \in Slots
      BY <1>2, <1>5, <2>1, SlotIntro
    <3> QED BY <3>1, NullAssumption
  <2> QED BY <2>1, <2>2
<1>6. CASE ~(s[3] + 1 < NodeCount[RackOf(s)]) /\ s[2] + 1 < RackCount[s[1]]
  <2>1. n = <<s[1], s[2] + 1, 0>> /\ (Before(t, n) => t = s \/ Before(t, s))
    BY <1>1, <1>2, <1>3, <1>4, <1>6 DEF NextSlot, Before
  <2>2. n # NULL
    <3>1. <<s[1], s[2] + 1>> \in Racks
      BY <1>2, <1>6, RackIntro
    <3>2. 0 < NodeCount[<<s[1], s[2] + 1>>]
      BY <3>1, TopologyAssumption
    <3>3. n \in Slots
      BY <2>1, <3>1, <3>2, SlotIntro
    <3> QED BY <3>3, NullAssumption
  <2> QED BY <2>1, <2>2
<1>7. CASE ~(s[3] + 1 < NodeCount[RackOf(s)]) /\ ~(s[2] + 1 < RackCount[s[1]])
  <2>1. t[1] = s[1] => t = s \/ Before(t, s)
    BY <1>2, <1>3, <1>4, <1>7 DEF Before
  <2>2. CASE s[1] = LOCAL_DC /\ REMOTE_DC \in DCs
    <3>1. n = <<REMOTE_DC, 0, 0>>
      BY <1>7, <2>2 DEF NextSlot
    <3>2. n # NULL
      <4>1. <<REMOTE_DC, 0>> \in Racks
        BY <2>2, RackIntro, TopologyAssumption
      <4>2. 0 < NodeCount[<<REMOTE_DC, 0>>]
        BY <4>1, TopologyAssumption
      <4>3. n \in Slots
        BY <3>1, <4>1, <4>2, SlotIntro
      <4> QED BY <4>3, NullAssumption
    <3>3. Before(t, n) => t[1] = s[1]
      BY <1>1, <1>2, <2>2, <3>1 DEF Before
    <3> QED BY <2>1, <3>2, <3>3
  <2>3. CASE ~(s[1] = LOCAL_DC /\ REMOTE_DC \in DCs)
    <3>1. n = NULL
      BY <1>7, <2>3 DEF NextSlot
    <3>2. t[1] = s[1] \/ Before(t, s)
      BY <1>1, <1>2, <2>3 DEF Before
    <3> QED BY <2>1, <3>1, <3>2
  <2> QED BY <2>2, <2>3
<1> QED BY <1>5, <1>6, <1>7

-----------------------------------------------------------------------------
(* Type correctness.                                                       *)
LEMMA InitTypeOK == Init => TypeOK
<1> SUFFICES ASSUME Init PROVE TypeOK
  OBVIOUS
<1>1. FirstSlot \in Slots
  BY FirstSlotType
<1>2. \A c \in Clients : <<>> \in Seq(Racks)
  OBVIOUS
<1>3. MaxCalls \in Nat /\ MaxCrashes \in Nat
  BY BoundAssumption
<1> QED BY <1>1, <1>2, <1>3 DEF Init, TypeOK, VALID, INVALID, LOCAL_DC, REMOTE_DC

LEMMA InitAdvanceType ==
    ASSUME TypeOK, NEW st \in {VALID, INVALID}, InitAdvance(st)
    PROVE  kpc' \in {"sleep", "init"} /\ kpos' \in Slots /\ kstatus' \in {VALID, INVALID}
<1>1. NextSlot(NContinuum, kpos) \in Slots \cup {NULL}
  BY NextSlotType, TopologyAssumption DEF TypeOK
<1> QED BY <1>1, FirstSlotType DEF InitAdvance

LEMMA PassAdvanceType ==
    ASSUME TypeOK, NEW st \in {VALID, INVALID}, PassAdvance(st)
    PROVE  /\ kpc' \in {"sleep", "lock"} /\ kpos' \in Slots /\ kstatus' \in {VALID, INVALID}
           /\ lock' = [lock EXCEPT ![kpos] = NULL]
<1>1. NextSlot(NodeCount, kpos) \in Slots \cup {NULL}
  <2>1. \A r \in Racks : NodeCount[r] <= NodeCount[r]
    BY TopologyAssumption
  <2> QED BY <2>1, NextSlotType, TopologyAssumption DEF TypeOK
<1> QED BY <1>1, FirstSlotType DEF PassAdvance, Unlock

LEMMA AuthStatusType == AuthStatus \in {VALID, INVALID}
BY DEF AuthStatus

LEMMA StartStepType == TypeOK /\ StartStep => TypeOK'
<1> SUFFICES ASSUME TypeOK, StartStep PROVE TypeOK'
  OBVIOUS
<1> USE DEF poolVars, netVars, srvVars, keeperVars, walkVars, clientVars
<1>1. CASE InitConnectFail
  <2>1. kpc' \in {"sleep", "init"} /\ kpos' \in Slots /\ kstatus' \in {VALID, INVALID}
    BY <1>1, InitAdvanceType DEF InitConnectFail, TypeOK
  <2> QED BY <1>1, <2>1 DEF InitConnectFail, TypeOK
<1>2. ASSUME NEW x \in Contexts, InitConnect(x) PROVE TypeOK'
  <2>1. kpc' \in {"sleep", "init"} /\ kpos' \in Slots /\ kstatus' \in {VALID, INVALID}
    BY <1>2, InitAdvanceType DEF InitConnect, TypeOK
  <2> QED BY <1>2, <2>1 DEF InitConnect, Connect, Store, TypeOK
<1>3. ASSUME NEW x \in Contexts, InitConnectForAuth(x) PROVE TypeOK'
  BY <1>3 DEF InitConnectForAuth, Connect, TypeOK
<1>4. CASE InitAuth
  <2>1. kpc' \in {"sleep", "init"} /\ kpos' \in Slots /\ kstatus' \in {VALID, INVALID}
    BY <1>4, InitAdvanceType, AuthStatusType DEF InitAuth
  <2> QED BY <1>4, <2>1, AuthStatusType DEF InitAuth, Store, TypeOK
<1> QED BY <1>1, <1>2, <1>3, <1>4 DEF StartStep

LEMMA KeeperStepType == TypeOK /\ (PassStep \/ KeeperLock) => TypeOK'
<1> SUFFICES ASSUME TypeOK, PassStep \/ KeeperLock PROVE TypeOK'
  OBVIOUS
<1> USE DEF poolVars, netVars, srvVars, keeperVars, walkVars, clientVars
<1>1. CASE Wake
  BY <1>1 DEF Wake, TypeOK
<1>2. CASE KeeperLock
  BY <1>2 DEF KeeperLock, TypeOK, Threads
<1>3. CASE PingAlive
  <2>1. /\ kpc' \in {"sleep", "lock"} /\ kpos' \in Slots /\ kstatus' \in {VALID, INVALID}
        /\ lock' = [lock EXCEPT ![kpos] = NULL]
    BY <1>3, PassAdvanceType DEF PingAlive, TypeOK
  <2> QED BY <1>3, <2>1 DEF PingAlive, TypeOK
<1>4. CASE PingDead
  BY <1>4 DEF PingDead, redisFree, TypeOK
<1>5. CASE ReconnectFail
  <2>1. /\ kpc' \in {"sleep", "lock"} /\ kpos' \in Slots /\ kstatus' \in {VALID, INVALID}
        /\ lock' = [lock EXCEPT ![kpos] = NULL]
    BY <1>5, PassAdvanceType DEF ReconnectFail, TypeOK
  <2> QED BY <1>5, <2>1 DEF ReconnectFail, TypeOK
<1>6. ASSUME NEW x \in Contexts, Reconnect(x) PROVE TypeOK'
  <2>1. /\ kpc' \in {"sleep", "lock"} /\ kpos' \in Slots /\ kstatus' \in {VALID, INVALID}
        /\ lock' = [lock EXCEPT ![kpos] = NULL]
    BY <1>6, PassAdvanceType DEF Reconnect, TypeOK
  <2> QED BY <1>6, <2>1 DEF Reconnect, Connect, Store, TypeOK
<1>7. ASSUME NEW x \in Contexts, ReconnectForAuth(x) PROVE TypeOK'
  BY <1>7 DEF ReconnectForAuth, Connect, TypeOK
<1>8. CASE ReconnectAuth
  <2>1. /\ kpc' \in {"sleep", "lock"} /\ kpos' \in Slots /\ kstatus' \in {VALID, INVALID}
        /\ lock' = [lock EXCEPT ![kpos] = NULL]
    BY <1>8, PassAdvanceType, AuthStatusType DEF ReconnectAuth
  <2> QED BY <1>8, <2>1, AuthStatusType DEF ReconnectAuth, Store, TypeOK
<1> QED BY <1>1, <1>2, <1>3, <1>4, <1>5, <1>6, <1>7, <1>8 DEF PassStep

(* Every one of the eleven commands starts the same walk.                  *)
LEMMA InvokeIsCommand ==
    ASSUME NEW c \in Clients, Invoke(c)
    PROVE  \E args : Command(c, args)
BY DEF Invoke, dynoc_set, dynoc_setex, dynoc_psetex, dynoc_get, dynoc_del, dynoc_hset,
       dynoc_hget, dynoc_incr, dynoc_incrby, dynoc_decr, dynoc_decrby

LEMMA InvokeType ==
    ASSUME TypeOK, NEW c \in Clients, Invoke(c)
    PROVE  TypeOK'
<1> USE DEF poolVars, netVars, srvVars, keeperVars, walkVars, clientVars
<1>1. PICK args : Command(c, args)
  BY InvokeIsCommand
<1>2. calls' \in [Clients -> 0..MaxCalls]
  BY <1>1, BoundAssumption DEF Command, TypeOK
<1>3. tried' \in [Clients -> Seq(Racks)]
  <2>1. <<>> \in Seq(Racks)
    OBVIOUS
  <2> QED BY <1>1, <2>1 DEF Command, TypeOK
<1>4. exec' \in [Clients -> [Slots -> Nat]]
  BY <1>1 DEF Command, TypeOK
<1>5. /\ key' \in [Clients -> Keys \cup {NULL}] /\ ret' \in [Clients -> {"none", "ok", "fail"}]
      /\ pc' \in [Clients -> {"idle", "select", "lock", "locked", "wait"}]
  <2>1. \/ \E k \in Keys : /\ key' = [key EXCEPT ![c] = k]
                          /\ pc' = [pc EXCEPT ![c] = "select"]
                          /\ ret' = [ret EXCEPT ![c] = "none"]
        \/ /\ key' = [key EXCEPT ![c] = NULL]
           /\ ret' = [ret EXCEPT ![c] = "fail"] /\ pc' = pc
    BY <1>1 DEF Command
  <2>2. /\ key \in [Clients -> Keys \cup {NULL}] /\ ret \in [Clients -> {"none", "ok", "fail"}]
        /\ pc \in [Clients -> {"idle", "select", "lock", "locked", "wait"}]
    BY DEF TypeOK
  <2> QED BY <2>1, <2>2
<1>6. dc_type' \in [Clients -> {LOCAL_DC, REMOTE_DC}] /\ rc_idx' \in [Clients -> Nat]
      /\ conn' \in [Clients -> Slots \cup {NULL}]
  BY <1>1 DEF Command, TypeOK
<1> QED BY <1>1, <1>2, <1>3, <1>4, <1>5, <1>6 DEF Command, TypeOK

LEMMA SelectedType ==
    ASSUME TypeOK, NEW c \in Clients, key[c] \in Keys,
           NEW r \in Racks, NEW dct \in {LOCAL_DC, REMOTE_DC}, NEW idx \in Nat,
           Selected(c, r, dct, idx)
    PROVE  TypeOK'
<1> USE DEF poolVars, netVars, srvVars, keeperVars, walkVars, clientVars
<1>1. conn' \in [Clients -> Slots \cup {NULL}]
  BY OwnerSlot DEF Selected, TypeOK
<1>2. tried' \in [Clients -> Seq(Racks)]
  BY DEF Selected, TypeOK
<1> QED BY <1>1, <1>2 DEF Selected, TypeOK

LEMMA SelectRemoteRack ==
    ASSUME NEW c \in Clients, SwitchesToRemote(c)
    PROVE  <<REMOTE_DC, 0>> \in Racks
BY RackIntro, TopologyAssumption DEF SwitchesToRemote

LEMMA SelectLocalRack ==
    ASSUME TypeOK, NEW c \in Clients, LOCAL_DC \in DCs, rc_idx[c] < RackCount[LOCAL_DC]
    PROVE  <<LOCAL_DC, rc_idx[c]>> \in Racks
BY RackIntro DEF TypeOK

(* Counting one execution changes one counter of one command.              *)
LEMMA ExecutedCount ==
    ASSUME exec \in [Clients -> [Slots -> Nat]], NEW c \in Clients, NEW s, Executed(c, s)
    PROVE  /\ exec' \in [Clients -> [Slots -> Nat]]
           /\ \A d \in Clients, t \in Slots :
                 (d # c \/ t # s) => exec'[d][t] = exec[d][t]
<1>1. exec[c] \in [Slots -> Nat]
  OBVIOUS
<1>2. Increment(exec[c], s) \in [Slots -> Nat]
  <2>1. CASE s \in Slots
    <3>1. exec[c][s] + 1 \in Nat
      BY <1>1, <2>1
    <3> QED BY <1>1, <2>1, <3>1 DEF Increment
  <2>2. CASE s \notin Slots
    <3>1. Increment(exec[c], s) = exec[c]
      BY <1>1, <2>2 DEF Increment
    <3> QED BY <1>1, <3>1
  <2> QED BY <2>1, <2>2
<1>3. \A t \in Slots : t # s => Increment(exec[c], s)[t] = exec[c][t]
  BY <1>1 DEF Increment
<1>4. exec' = [exec EXCEPT ![c] = Increment(exec[c], s)]
  BY DEF Executed
<1> HIDE DEF Increment
<1> QED BY <1>2, <1>3, <1>4

LEMMA ClientStepType ==
    ASSUME TypeOK, Routed, NEW c \in Clients, ClientStep(c) \/ ClientLock(c) \/ Serve(c)
    PROVE  TypeOK'
<1> USE DEF poolVars, netVars, srvVars, keeperVars, walkVars, clientVars
<1>1. CASE SelectLocal(c)
  <2>1. <<LOCAL_DC, rc_idx[c]>> \in Racks
    BY <1>1, SelectLocalRack DEF SelectLocal
  <2>2. key[c] \in Keys /\ dc_type[c] \in {LOCAL_DC, REMOTE_DC} /\ rc_idx[c] + 1 \in Nat
    BY <1>1 DEF SelectLocal, Routed, TypeOK
  <2> QED BY <1>1, <2>1, <2>2, SelectedType DEF SelectLocal
<1>2. CASE SelectRemote(c)
  <2>1. <<REMOTE_DC, 0>> \in Racks
    BY <1>2, SelectRemoteRack DEF SelectRemote
  <2>2. key[c] \in Keys
    BY <1>2 DEF SelectRemote, Routed
  <2> QED BY <1>2, <2>1, <2>2, SelectedType DEF SelectRemote
<1>3. CASE GiveUp(c)
  BY <1>3 DEF GiveUp, TypeOK
<1>4. CASE ClientLock(c)
  BY <1>4 DEF ClientLock, TypeOK, Threads
<1>5. CASE SkipInvalid(c)
  BY <1>5 DEF SkipInvalid, Unlock, TypeOK
<1>6. CASE Send(c)
  BY <1>6 DEF Send, TypeOK
<1>7. CASE Serve(c)
  <2>1. exec' \in [Clients -> [Slots -> Nat]]
    BY <1>7, ExecutedCount DEF Serve, TypeOK
  <2>2. answer' \in [Clients -> {"none", "ok", "error"}]
    <3>1. answer \in [Clients -> {"none", "ok", "error"}]
      BY DEF TypeOK
    <3>2. \/ answer' = [answer EXCEPT ![c] = "ok"]
          \/ answer' = [answer EXCEPT ![c] = "error"]
      BY <1>7 DEF Serve
    <3> QED BY <3>1, <3>2
  <2> QED BY <1>7, <2>1, <2>2 DEF Serve, TypeOK
<1>8. CASE Succeed(c)
  BY <1>8 DEF Succeed, Unlock, TypeOK
<1>9. CASE FailOver(c)
  BY <1>9 DEF FailOver, reset_redis_connection, redisFree, Unlock, TypeOK
<1> QED BY <1>1, <1>2, <1>3, <1>4, <1>5, <1>6, <1>7, <1>8, <1>9 DEF ClientStep

LEMMA ServerStepType ==
    ASSUME TypeOK, NEW s \in Filled, Crash(s) \/ Recover(s)
    PROVE  TypeOK'
<1> USE DEF poolVars, netVars, srvVars, keeperVars, walkVars, clientVars
<1>1. CASE Crash(s)
  <2>1. crashes' \in 0..MaxCrashes
    BY <1>1, BoundAssumption DEF Crash, TypeOK
  <2> QED BY <1>1, <2>1 DEF Crash, TypeOK
<1>2. CASE Recover(s)
  BY <1>2 DEF Recover, TypeOK
<1> QED BY <1>1, <1>2

LEMMA TypeStep == TypeOK /\ Routed /\ [Next]_vars => TypeOK'
<1> SUFFICES ASSUME TypeOK, Routed, [Next]_vars PROVE TypeOK'
  OBVIOUS
<1>1. CASE UNCHANGED vars
  BY <1>1 DEF vars, poolVars, netVars, srvVars, keeperVars, walkVars, clientVars, TypeOK
<1> QED BY <1>1, StartStepType, KeeperStepType, InvokeType, ClientStepType, ServerStepType
        DEF Next

-----------------------------------------------------------------------------
(* What each group of steps leaves alone.                                  *)
LEMMA StartFrame ==
    ASSUME StartStep
    PROVE  /\ Starting
           /\ UNCHANGED <<lock, up, crashes, clientVars>>
           /\ kpc' \in {"init", "init_auth", "sleep"}
BY DEF StartStep, InitConnectFail, InitConnect, InitConnectForAuth, InitAuth, InitAdvance,
       Starting, poolVars, srvVars

LEMMA PassFrame ==
    ASSUME PassStep \/ KeeperLock
    PROVE  /\ ~Starting /\ ~Starting'
           /\ UNCHANGED <<up, crashes, clientVars>>
BY DEF PassStep, KeeperLock, Wake, PingAlive, PingDead, Reconnecting, ReconnectFail, Reconnect,
       ReconnectForAuth, ReconnectAuth, PassAdvance, Starting, srvVars

LEMMA ClientFrame ==
    ASSUME NEW c \in Clients, Invoke(c) \/ ClientStep(c) \/ ClientLock(c) \/ Serve(c)
    PROVE  UNCHANGED <<up, crashes, keeperVars>>
<1>1. CASE Invoke(c)
  BY <1>1, InvokeIsCommand DEF Command, srvVars
<1> QED BY <1>1 DEF ClientStep, SelectLocal, SelectRemote, Selected, GiveUp, ClientLock,
        SkipInvalid, Send, Serve, Succeed, FailOver, srvVars

LEMMA ServerFrame ==
    ASSUME NEW s \in Filled, Crash(s) \/ Recover(s)
    PROVE  UNCHANGED <<poolVars, peer, keeperVars, clientVars>>
BY DEF Crash, Recover, netVars

(* A keeper step inside a pass either keeps the mutex of its slot and      *)
(* stays on that slot, or releases it and leaves the critical section.     *)
LEMMA PassLock ==
    ASSUME PassStep
    PROVE  \/ /\ lock' = [lock EXCEPT ![kpos] = NULL]
              /\ kpc \in {"locked", "connect", "auth"} /\ kpc' \in {"sleep", "lock"}
           \/ /\ lock' = lock /\ kpos' = kpos
              /\ kpc \in {"locked", "connect"} \/ kpc' = "lock"
BY DEF PassStep, Wake, PingAlive, PingDead, Reconnecting, ReconnectFail, Reconnect,
       ReconnectForAuth, ReconnectAuth, PassAdvance, Unlock, poolVars

LEMMA ClientStepFrame ==
    ASSUME TypeOK, NEW c \in Clients, ClientStep(c)
    PROVE  /\ pc[c] # "idle"
           /\ pc' \in [Clients -> {"idle", "select", "lock", "locked", "wait"}]
           /\ \A d \in Clients : d # c => pc'[d] = pc[d] /\ conn'[d] = conn[d]
           /\ UNCHANGED <<key, exec, calls>>
           /\ \/ /\ lock' = [lock EXCEPT ![conn[c]] = NULL]
                 /\ pc[c] \in {"locked", "wait"} /\ pc'[c] \in {"idle", "select"}
              \/ lock' = lock /\ pc'[c] \in {"idle", "lock"}
              \/ lock' = lock /\ conn' = conn /\ pc[c] = "locked" /\ pc'[c] = "wait"
<1>1. CASE SelectLocal(c) \/ SelectRemote(c) \/ GiveUp(c)
  BY <1>1 DEF SelectLocal, SelectRemote, Selected, GiveUp, poolVars, walkVars, TypeOK
<1>2. CASE SkipInvalid(c) \/ Succeed(c) \/ FailOver(c)
  BY <1>2 DEF SkipInvalid, Succeed, FailOver, Unlock, walkVars, TypeOK
<1>3. CASE Send(c)
  BY <1>3 DEF Send, poolVars, walkVars, TypeOK
<1> QED BY <1>1, <1>2, <1>3 DEF ClientStep

-----------------------------------------------------------------------------
(* Mutual exclusion on a connection.                                       *)
LEMMA LockHeldStep ==
    ASSUME TypeOK, Routed, LockHeld, Next
    PROVE  LockHeld'
<1> USE DEF LockHeld, Threads
<1>0. Keeper \notin Clients /\ NULL \notin Clients /\ NULL # Keeper
  BY NullAssumption
<1>1. CASE StartStep
  BY <1>0, <1>1, StartFrame DEF Uses, clientVars, walkVars
<1>2. CASE PassStep
  <2>1. UNCHANGED <<pc, conn>>
    BY <1>2, PassFrame DEF clientVars, walkVars
  <2>2. CASE /\ lock' = [lock EXCEPT ![kpos] = NULL]
             /\ kpc \in {"locked", "connect", "auth"} /\ kpc' \in {"sleep", "lock"}
    <3>1. lock[kpos] = Keeper
      BY <2>2 DEF Uses, TypeOK
    <3> QED BY <1>0, <2>1, <2>2, <3>1 DEF Uses, TypeOK
  <2>3. CASE /\ lock' = lock /\ kpos' = kpos
             /\ kpc \in {"locked", "connect"} \/ kpc' = "lock"
    BY <1>0, <2>1, <2>3 DEF Uses
  <2> QED BY <1>2, <2>2, <2>3, PassLock
<1>3. CASE KeeperLock
  BY <1>0, <1>3 DEF KeeperLock, Uses, TypeOK, clientVars, walkVars
<1>4. ASSUME NEW c \in Clients, Invoke(c) PROVE LockHeld'
  <2>1. PICK args : Command(c, args)
    BY <1>4, InvokeIsCommand
  <2>2. /\ UNCHANGED <<lock, kpc, kpos>> /\ pc'[c] \in {"idle", "select"}
        /\ \A d \in Clients : d # c => pc'[d] = pc[d] /\ conn'[d] = conn[d]
    BY <2>1 DEF Command, poolVars, keeperVars, TypeOK
  <2> QED BY <1>0, <2>2 DEF Uses
<1>5. ASSUME NEW c \in Clients, ClientStep(c) PROVE LockHeld'
  <2>1. UNCHANGED <<kpc, kpos>>
    BY <1>5, ClientFrame DEF keeperVars
  <2>2. CASE /\ lock' = [lock EXCEPT ![conn[c]] = NULL]
             /\ pc[c] \in {"locked", "wait"} /\ pc'[c] \in {"idle", "select"}
    <3>1. conn[c] \in Slots
      BY <2>2 DEF Routed
    <3>2. lock[conn[c]] = c
      BY <2>2, <3>1 DEF Uses
    <3>3. ASSUME NEW s \in Slots, NEW t \in Threads, Uses(t, s)'
          PROVE  lock'[s] = t
      <4>1. t # c /\ Uses(t, s)
        BY <1>0, <1>5, <2>1, <2>2, <3>3, ClientStepFrame DEF Uses
      <4>2. s # conn[c]
        BY <4>1, <3>2
      <4> QED BY <2>2, <3>1, <4>1, <4>2 DEF TypeOK
    <3> QED BY <3>3
  <2>3. CASE lock' = lock /\ pc'[c] \in {"idle", "lock"}
    BY <1>0, <1>5, <2>1, <2>3, ClientStepFrame DEF Uses
  <2>4. CASE lock' = lock /\ conn' = conn /\ pc[c] = "locked" /\ pc'[c] = "wait"
    BY <1>0, <1>5, <2>1, <2>4, ClientStepFrame DEF Uses
  <2> QED BY <1>5, <2>2, <2>3, <2>4, ClientStepFrame
<1>6. ASSUME NEW c \in Clients, ClientLock(c) PROVE LockHeld'
  <2>1. conn[c] \in Slots
    BY <1>6 DEF ClientLock, Routed
  <2> QED BY <1>0, <1>6, <2>1 DEF ClientLock, Uses, TypeOK, keeperVars, walkVars
<1>7. ASSUME NEW c \in Clients, Serve(c) PROVE LockHeld'
  BY <1>7 DEF Serve, Uses, poolVars, keeperVars, walkVars
<1>8. ASSUME NEW s \in Filled, Crash(s) \/ Recover(s) PROVE LockHeld'
  BY <1>8, ServerFrame DEF Uses, poolVars, keeperVars, clientVars, walkVars
<1> QED BY <1>1, <1>2, <1>3, <1>4, <1>5, <1>6, <1>7, <1>8 DEF Next

LEMMA StartQuietStep ==
    ASSUME StartQuiet, TypeOK, Next
    PROVE  StartQuiet'
<1>1. CASE StartStep
  BY <1>1, StartFrame DEF StartQuiet, clientVars
<1>2. CASE PassStep \/ KeeperLock
  BY <1>2, PassFrame DEF StartQuiet
<1>3. ASSUME NEW c \in Clients, Invoke(c) PROVE StartQuiet'
  BY <1>3, InvokeIsCommand DEF Command, Starting, StartQuiet, keeperVars
<1>4. ASSUME NEW c \in Clients, ClientStep(c) PROVE StartQuiet'
  BY <1>4, ClientFrame, ClientStepFrame DEF Starting, StartQuiet, keeperVars
<1>5. ASSUME NEW c \in Clients, ClientLock(c) \/ Serve(c) PROVE StartQuiet'
  BY <1>5, ClientFrame DEF ClientLock, Serve, Starting, StartQuiet, keeperVars
<1>6. ASSUME NEW s \in Filled, Crash(s) \/ Recover(s) PROVE StartQuiet'
  BY <1>6, ServerFrame DEF Starting, StartQuiet, keeperVars, clientVars
<1> QED BY <1>1, <1>2, <1>3, <1>4, <1>5, <1>6 DEF Next

(* A selection picks the owner of the command's key.                       *)
LEMMA SelectedRouted ==
    ASSUME TypeOK, Routed, NEW c \in Clients, pc[c] = "select",
           NEW r \in Racks, NEW dct, NEW idx, Selected(c, r, dct, idx)
    PROVE  Routed'
<1>1. key[c] \in Keys
  BY DEF Routed
<1>2. Owner(key[c], r) \in Slots /\ RackOf(Owner(key[c], r)) = r
  BY <1>1, OwnerSlot
<1>3. /\ key' = key /\ conn'[c] = Owner(key[c], r)
      /\ \A d \in Clients : d # c => conn'[d] = conn[d] /\ pc'[d] = pc[d]
  BY DEF Selected, TypeOK
<1>4. ASSUME NEW d \in Clients, d # c
      PROVE  /\ pc'[d] # "idle" => key'[d] \in Keys
             /\ pc'[d] \in {"lock", "locked", "wait"} =>
                   conn'[d] \in Slots /\ conn'[d] = Owner(key'[d], RackOf(conn'[d]))
  BY <1>3, <1>4 DEF Routed
<1>5. /\ key'[c] \in Keys
      /\ conn'[c] \in Slots /\ conn'[c] = Owner(key'[c], RackOf(conn'[c]))
  BY <1>1, <1>2, <1>3
<1> QED BY <1>4, <1>5 DEF Routed

LEMMA RoutedStep ==
    ASSUME TypeOK, Routed, Next
    PROVE  Routed'
<1>1. CASE StartStep \/ PassStep \/ KeeperLock
  BY <1>1, StartFrame, PassFrame DEF Routed, clientVars, walkVars
<1>2. ASSUME NEW c \in Clients, Invoke(c) PROVE Routed'
  <2>1. PICK args : Command(c, args)
    BY <1>2, InvokeIsCommand
  <2>2. \A d \in Clients : d # c => key'[d] = key[d] /\ pc'[d] = pc[d] /\ conn'[d] = conn[d]
    BY <2>1 DEF Command, TypeOK
  <2>3. pc'[c] = "idle" \/ (pc'[c] = "select" /\ key'[c] \in Keys)
    BY <2>1 DEF Command, TypeOK
  <2> QED BY <2>2, <2>3 DEF Routed
<1>3. ASSUME NEW c \in Clients, ClientStep(c) PROVE Routed'
  <2>1. CASE SelectLocal(c)
    <3>1. <<LOCAL_DC, rc_idx[c]>> \in Racks
      BY <2>1, SelectLocalRack DEF SelectLocal
    <3> QED BY <2>1, <3>1, SelectedRouted DEF SelectLocal
  <2>2. CASE SelectRemote(c)
    <3>1. <<REMOTE_DC, 0>> \in Racks
      BY <2>2, SelectRemoteRack DEF SelectRemote
    <3> QED BY <2>2, <3>1, SelectedRouted DEF SelectRemote
  <2>3. CASE GiveUp(c) \/ SkipInvalid(c) \/ Send(c) \/ Succeed(c) \/ FailOver(c)
    <3>1. /\ UNCHANGED <<key, conn>>
          /\ \A d \in Clients : d # c => pc'[d] = pc[d]
          /\ pc[c] # "idle" /\ pc'[c] \in {"idle", "select", "wait"}
          /\ pc'[c] = "wait" => pc[c] = "locked"
      BY <2>3 DEF GiveUp, SkipInvalid, Send, Succeed, FailOver, walkVars, TypeOK
    <3> QED BY <3>1 DEF Routed
  <2> QED BY <1>3, <2>1, <2>2, <2>3 DEF ClientStep
<1>4. ASSUME NEW c \in Clients, ClientLock(c) \/ Serve(c) PROVE Routed'
  BY <1>4 DEF ClientLock, Serve, walkVars, Routed, TypeOK
<1>5. ASSUME NEW s \in Filled, Crash(s) \/ Recover(s) PROVE Routed'
  BY <1>5, ServerFrame DEF Routed, clientVars, walkVars
<1> QED BY <1>1, <1>2, <1>3, <1>4, <1>5 DEF Next

-----------------------------------------------------------------------------
(* Who may change a connection: its user, or dynoc_start before any        *)
(* command runs.                                                           *)
LEMMA KeeperChanges ==
    ASSUME TypeOK, StartStep \/ PassStep \/ KeeperLock, NEW s \in Slots, s # kpos
    PROVE  status'[s] = status[s] /\ ctx'[s] = ctx[s]
<1>1. CASE StartStep
  BY <1>1 DEF StartStep, InitConnectFail, InitConnect, InitConnectForAuth, InitAuth, Store,
     poolVars, TypeOK
<1>2. CASE PassStep \/ KeeperLock
  BY <1>2 DEF PassStep, KeeperLock, Wake, PingAlive, PingDead, ReconnectFail, Reconnect,
     ReconnectForAuth, ReconnectAuth, Store, poolVars, TypeOK
<1> QED BY <1>1, <1>2

LEMMA KeeperChangesUsed ==
    ASSUME TypeOK, PassStep \/ KeeperLock, ~Uses(Keeper, kpos)
    PROVE  status' = status /\ ctx' = ctx
BY DEF PassStep, KeeperLock, Wake, PingAlive, PingDead, Reconnecting, ReconnectFail, Reconnect,
   ReconnectForAuth, ReconnectAuth, Uses, poolVars, TypeOK

LEMMA ClientChanges ==
    ASSUME TypeOK, NEW c \in Clients,
           Invoke(c) \/ ClientStep(c) \/ ClientLock(c) \/ Serve(c)
    PROVE  \/ status' = status /\ ctx' = ctx /\ UNCHANGED netVars
           \/ FailOver(c)
<1>1. CASE Invoke(c)
  BY <1>1, InvokeIsCommand DEF Command, poolVars
<1>2. CASE ClientStep(c) \/ ClientLock(c) \/ Serve(c)
  BY <1>2 DEF ClientStep, SelectLocal, SelectRemote, Selected, GiveUp, ClientLock,
     SkipInvalid, Send, Serve, Succeed, poolVars
<1> QED BY <1>1, <1>2

(* FailOver touches the connection the command uses, and no other.         *)
LEMMA FailOverUses ==
    ASSUME TypeOK, Routed, LockHeld, NEW c \in Clients, FailOver(c)
    PROVE  /\ conn[c] \in Slots /\ Uses(c, conn[c]) /\ lock[conn[c]] = c
           /\ \A s \in Slots : s # conn[c] => status'[s] = status[s] /\ ctx'[s] = ctx[s]
<1>1. conn[c] \in Slots /\ Uses(c, conn[c])
  BY DEF FailOver, Routed, Uses
<1>2. lock[conn[c]] = c
  BY <1>1 DEF LockHeld, Threads
<1> QED BY <1>1, <1>2 DEF FailOver, reset_redis_connection, TypeOK

(* A connection changes only under its mutex, or inside dynoc_start.       *)
LEMMA ChangedByHolderStep ==
    ASSUME TypeOK, Routed, LockHeld, [Next]_vars, NEW s \in Slots,
           status'[s] # status[s] \/ ctx'[s] # ctx[s]
    PROVE  Starting \/ (lock[s] # NULL /\ Uses(lock[s], s))
<1>0. \A t \in Threads : t # NULL
  BY NullAssumption DEF Threads
<1>1. CASE StartStep
  BY <1>1, StartFrame
<1>2. CASE PassStep \/ KeeperLock
  <2>1. s = kpos
    BY <1>2, KeeperChanges
  <2>2. Uses(Keeper, s)
    BY <1>2, <2>1, KeeperChangesUsed
  <2> QED BY <1>0, <2>2 DEF LockHeld, Threads
<1>3. ASSUME NEW c \in Clients, Invoke(c) \/ ClientStep(c) \/ ClientLock(c) \/ Serve(c)
      PROVE  lock[s] # NULL /\ Uses(lock[s], s)
  <2>1. FailOver(c)
    BY <1>3, ClientChanges
  <2>2. s = conn[c]
    BY <2>1, FailOverUses
  <2> QED BY <1>0, <2>1, <2>2, FailOverUses DEF Threads
<1>4. ASSUME NEW n \in Filled, Crash(n) \/ Recover(n) PROVE FALSE
  BY <1>4, ServerFrame DEF poolVars
<1>5. CASE UNCHANGED vars
  BY <1>5 DEF vars, poolVars
<1> QED BY <1>1, <1>2, <1>3, <1>4, <1>5 DEF Next

LEMMA WaitsOnValidStep ==
    ASSUME TypeOK, Routed, LockHeld, StartQuiet, WaitsOnValid, Next
    PROVE  WaitsOnValid'
<1> SUFFICES ASSUME NEW d \in Clients, pc'[d] = "wait"
             PROVE  status'[conn'[d]] = VALID
  BY DEF WaitsOnValid
<1>0. Keeper \notin Clients
  BY NullAssumption
<1>1. CASE StartStep
  BY <1>1, StartFrame DEF StartQuiet, clientVars
<1>2. CASE PassStep \/ KeeperLock
  <2>1. pc' = pc /\ conn' = conn
    BY <1>2, PassFrame DEF clientVars, walkVars
  <2>2. conn[d] \in Slots /\ Uses(d, conn[d])
    BY <2>1 DEF Routed, Uses
  <2>3. lock[conn[d]] = d
    BY <2>2 DEF LockHeld, Threads
  <2>4. status'[conn[d]] = status[conn[d]]
    <3>1. CASE conn[d] # kpos
      BY <1>2, <2>2, <3>1, KeeperChanges
    <3>2. CASE conn[d] = kpos
      <4>1. ~Uses(Keeper, kpos)
        BY <1>0, <2>2, <2>3, <3>2 DEF LockHeld, Threads
      <4> QED BY <1>2, <4>1, KeeperChangesUsed
    <3> QED BY <3>1, <3>2
  <2> QED BY <2>1, <2>4 DEF WaitsOnValid
<1>3. ASSUME NEW c \in Clients, Invoke(c) PROVE status'[conn'[d]] = VALID
  <2>1. PICK args : Command(c, args)
    BY <1>3, InvokeIsCommand
  <2>2. d # c /\ conn'[d] = conn[d] /\ pc'[d] = pc[d] /\ status' = status
    BY <2>1 DEF Command, poolVars, TypeOK
  <2> QED BY <2>2 DEF WaitsOnValid
<1>4. ASSUME NEW c \in Clients, ClientStep(c) PROVE status'[conn'[d]] = VALID
  <2>1. CASE Send(c)
    BY <2>1 DEF Send, poolVars, walkVars, WaitsOnValid, TypeOK
  <2>2. CASE FailOver(c)
    <3>1. d # c /\ pc[d] = "wait" /\ conn' = conn
      BY <2>2 DEF FailOver, walkVars, TypeOK
    <3>2. conn[d] \in Slots /\ Uses(d, conn[d])
      BY <3>1 DEF Routed, Uses
    <3>3. conn[d] # conn[c]
      BY <2>2, <3>1, <3>2, FailOverUses DEF LockHeld, Threads
    <3> QED BY <2>2, <3>1, <3>2, <3>3, FailOverUses DEF WaitsOnValid
  <2>3. CASE SelectLocal(c) \/ SelectRemote(c) \/ GiveUp(c) \/ SkipInvalid(c) \/ Succeed(c)
    <3>1. /\ status' = status /\ pc[d] = "wait" /\ conn'[d] = conn[d]
      BY <2>3 DEF SelectLocal, SelectRemote, Selected, GiveUp, SkipInvalid, Succeed,
         poolVars, walkVars, TypeOK
    <3> QED BY <3>1 DEF WaitsOnValid
  <2> QED BY <1>4, <2>1, <2>2, <2>3 DEF ClientStep
<1>5. ASSUME NEW c \in Clients, ClientLock(c) \/ Serve(c) PROVE status'[conn'[d]] = VALID
  BY <1>5 DEF ClientLock, Serve, poolVars, walkVars, WaitsOnValid, TypeOK
<1>6. ASSUME NEW s \in Filled, Crash(s) \/ Recover(s) PROVE status'[conn'[d]] = VALID
  BY <1>6, ServerFrame DEF WaitsOnValid, poolVars, clientVars, walkVars
<1> QED BY <1>1, <1>2, <1>3, <1>4, <1>5, <1>6 DEF Next

-----------------------------------------------------------------------------
(* Connecting gives a context that nobody refers to yet.                   *)
LEMMA ConnectFresh ==
    ASSUME TypeOK, ContextOwnership, NEW s \in Slots, NEW x \in Contexts, Connect(s, x)
    PROVE  /\ \A t \in Slots : ctx[t] # x
           /\ heap'[x] = "open" /\ peer'[x] = s
           /\ \A y \in Contexts : y # x => heap'[y] = heap[y] /\ peer'[y] = peer[y]
<1>1. heap[x] = "free" /\ heap' = [heap EXCEPT ![x] = "open"] /\ peer' = [peer EXCEPT ![x] = s]
  BY DEF Connect
<1>2. heap \in [Contexts -> {"free", "open", "broken"}] /\ peer \in [Contexts -> Slots \cup {NULL}]
  BY DEF TypeOK
<1>3. x # NULL
  BY NullAssumption
<1>4. \A t \in Slots : ctx[t] # x
  BY <1>1, <1>3 DEF ContextOwnership
<1> QED BY <1>1, <1>2, <1>4

(* Storing a context nobody else refers to keeps the ownership.            *)
LEMMA StoreOwned ==
    ASSUME TypeOK, ContextOwnership, NEW x \in Contexts, NEW st \in {VALID, INVALID},
           Store(x, st), heap'[x] # "free", peer'[x] = kpos,
           \A t \in Slots : ctx[t] # x,
           \A y \in Contexts : y # x => heap'[y] = heap[y] /\ peer'[y] = peer[y]
    PROVE  ContextOwnership'
<1>1. x # NULL /\ kpos \in Slots
  BY NullAssumption DEF TypeOK
<1>2. /\ ctx'[kpos] = x
      /\ \A t \in Slots : t # kpos => ctx'[t] = ctx[t] /\ status'[t] = status[t]
      /\ \A t \in Slots : ctx[t] \in Contexts \cup {NULL}
  BY <1>1 DEF Store, TypeOK
<1>3. \A t \in Slots : status'[t] = VALID => ctx'[t] # NULL
  BY <1>1, <1>2 DEF ContextOwnership
<1>4. \A t \in Slots : ctx'[t] # NULL => heap'[ctx'[t]] # "free" /\ peer'[ctx'[t]] = t
  BY <1>1, <1>2 DEF ContextOwnership
<1>5. \A t, u \in Slots : ctx'[t] # NULL /\ ctx'[t] = ctx'[u] => t = u
  BY <1>1, <1>2 DEF ContextOwnership
<1> QED BY <1>3, <1>4, <1>5 DEF ContextOwnership

(* Freeing the context of a connection and forgetting it keeps it too.     *)
LEMMA ResetOwned ==
    ASSUME TypeOK, ContextOwnership, NEW s \in Slots, ctx[s] # NULL,
           reset_redis_connection(s)
    PROVE  /\ ContextOwnership'
           /\ \A x \in Contexts : x # ctx[s] => heap'[x] = heap[x] /\ peer'[x] = peer[x]
           /\ \A t \in Slots : t # s => ctx'[t] = ctx[t]
           /\ ctx'[s] = NULL
<1>1. ctx[s] \in Contexts
  BY DEF TypeOK
<1>2. \A x \in Contexts : x # ctx[s] => heap'[x] = heap[x] /\ peer'[x] = peer[x]
  BY <1>1 DEF reset_redis_connection, redisFree, TypeOK
<1>3. /\ ctx'[s] = NULL /\ status'[s] = INVALID
      /\ \A t \in Slots : t # s => ctx'[t] = ctx[t] /\ status'[t] = status[t]
      /\ \A t \in Slots : ctx[t] \in Contexts \cup {NULL}
  BY DEF reset_redis_connection, TypeOK
<1>4. INVALID # VALID
  BY DEF VALID, INVALID
<1>5. \A t \in Slots : status'[t] = VALID => ctx'[t] # NULL
  BY <1>3, <1>4 DEF ContextOwnership
<1>6. \A t \in Slots : ctx'[t] # NULL => heap'[ctx'[t]] # "free" /\ peer'[ctx'[t]] = t
  BY <1>2, <1>3 DEF ContextOwnership
<1>7. \A t, u \in Slots : ctx'[t] # NULL /\ ctx'[t] = ctx'[u] => t = u
  BY <1>3 DEF ContextOwnership
<1> QED BY <1>2, <1>3, <1>5, <1>6, <1>7 DEF ContextOwnership

(* A command that waits has a context.                                     *)
LEMMA WaitHasContext ==
    ASSUME TypeOK, Routed, WaitsOnValid, ContextOwnership,
           NEW c \in Clients, pc[c] = "wait"
    PROVE  /\ conn[c] \in Slots /\ ctx[conn[c]] \in Contexts /\ ctx[conn[c]] # NULL
           /\ heap[ctx[conn[c]]] # "free" /\ peer[ctx[conn[c]]] = conn[c]
<1>1. conn[c] \in Slots /\ status[conn[c]] = VALID
  BY DEF Routed, WaitsOnValid
<1>2. ctx[conn[c]] # NULL
  BY <1>1 DEF ContextOwnership
<1>3. ctx[conn[c]] \in Contexts
  BY <1>1, <1>2 DEF TypeOK
<1> QED BY <1>1, <1>2, <1>3 DEF ContextOwnership

(* PING without an answer resets the connection as a failed command does.  *)
LEMMA PingDeadResets ==
    ASSUME TypeOK, ContextOwnership, PingDead
    PROVE  reset_redis_connection(kpos) /\ kpos \in Slots /\ ctx[kpos] # NULL
<1>1. kpos \in Slots
  BY DEF TypeOK
<1>2. ctx[kpos] # NULL
  BY <1>1 DEF PingDead, ContextOwnership
<1> QED BY <1>1, <1>2 DEF PingDead, reset_redis_connection

LEMMA CrashOwned ==
    ASSUME TypeOK, NEW s \in Filled, Crash(s) \/ Recover(s)
    PROVE  \A x \in Contexts : peer'[x] = peer[x] /\ (heap'[x] = "free" <=> heap[x] = "free")
BY DEF Crash, Recover, netVars, TypeOK

LEMMA ContextOwnershipStep ==
    ASSUME TypeOK, Routed, WaitsOnValid, AuthContext, ContextOwnership, Next
    PROVE  ContextOwnership'
<1>0. kpos \in Slots /\ kstatus \in {VALID, INVALID}
  BY DEF TypeOK
<1>1. ASSUME NEW x \in Contexts, InitConnect(x) \/ Reconnect(x) PROVE ContextOwnership'
  <2>1. Connect(kpos, x) /\ Store(x, kstatus)
    BY <1>1 DEF InitConnect, Reconnect
  <2> QED BY <1>0, <2>1, ConnectFresh, StoreOwned
<1>2. ASSUME NEW x \in Contexts, InitConnectForAuth(x) \/ ReconnectForAuth(x)
      PROVE  ContextOwnership'
  <2>1. Connect(kpos, x) /\ status' = status /\ ctx' = ctx
    BY <1>2 DEF InitConnectForAuth, ReconnectForAuth, poolVars
  <2>2. \A s \in Slots : ctx[s] # NULL => ctx[s] \in Contexts /\ ctx[s] # x
    BY <1>0, <2>1, ConnectFresh DEF TypeOK
  <2> QED BY <1>0, <2>1, <2>2, ConnectFresh DEF ContextOwnership
<1>3. CASE InitAuth \/ ReconnectAuth
  <2>1. /\ Store(kctx, AuthStatus) /\ kctx \in Contexts
        /\ heap[kctx] # "free" /\ peer[kctx] = kpos
        /\ \A s \in Slots : ctx[s] # kctx
        /\ heap' = heap /\ peer' = peer
    BY <1>3 DEF InitAuth, ReconnectAuth, AuthContext, netVars
  <2> QED BY <2>1, AuthStatusType, StoreOwned
<1>4. CASE PingDead
  BY <1>4, PingDeadResets, ResetOwned
<1>5. CASE InitConnectFail \/ Wake \/ KeeperLock \/ PingAlive \/ ReconnectFail
  BY <1>5 DEF InitConnectFail, Wake, KeeperLock, PingAlive, ReconnectFail, poolVars, netVars,
     ContextOwnership
<1>6. ASSUME NEW c \in Clients,
             Invoke(c) \/ ClientStep(c) \/ ClientLock(c) \/ Serve(c)
      PROVE  ContextOwnership'
  <2>1. CASE FailOver(c)
    <3>1. pc[c] = "wait" /\ reset_redis_connection(conn[c])
      BY <2>1 DEF FailOver
    <3> QED BY <3>1, WaitHasContext, ResetOwned
  <2>2. CASE status' = status /\ ctx' = ctx /\ UNCHANGED netVars
    BY <2>2 DEF ContextOwnership, netVars
  <2> QED BY <1>6, <2>1, <2>2, ClientChanges
<1>7. ASSUME NEW s \in Filled, Crash(s) \/ Recover(s) PROVE ContextOwnership'
  <2>1. status' = status /\ ctx' = ctx
    BY <1>7, ServerFrame DEF poolVars
  <2>2. \A t \in Slots : ctx[t] # NULL => ctx[t] \in Contexts
    BY DEF TypeOK
  <2> QED BY <1>7, <2>1, <2>2, CrashOwned DEF ContextOwnership
<1> QED BY <1>1, <1>2, <1>3, <1>4, <1>5, <1>6, <1>7 DEF Next, StartStep, PassStep

LEMMA AuthContextStep ==
    ASSUME TypeOK, Routed, WaitsOnValid, AuthContext, ContextOwnership, Next
    PROVE  AuthContext'
<1>0. kpos \in Slots
  BY DEF TypeOK
<1>1. ASSUME NEW x \in Contexts, InitConnectForAuth(x) \/ ReconnectForAuth(x)
      PROVE  AuthContext'
  <2>1. Connect(kpos, x) /\ ctx' = ctx /\ kctx' = x /\ kpos' = kpos
    BY <1>1 DEF InitConnectForAuth, ReconnectForAuth, poolVars
  <2> QED BY <1>0, <2>1, ConnectFresh DEF AuthContext
<1>2. CASE InitConnectFail \/ InitAuth \/ \E x \in Contexts : InitConnect(x)
  <2>1. kpc' \in {"sleep", "init"}
    BY <1>2 DEF InitConnectFail, InitAuth, InitConnect, InitAdvance
  <2> QED BY <2>1 DEF AuthContext
<1>3. CASE \/ PingAlive \/ ReconnectFail \/ ReconnectAuth \/ Wake \/ PingDead \/ KeeperLock
           \/ \E x \in Contexts : Reconnect(x)
  <2>1. kpc' \in {"sleep", "lock", "locked", "connect"}
    BY <1>3 DEF PingAlive, ReconnectFail, ReconnectAuth, Wake, PingDead, KeeperLock, Reconnect,
       PassAdvance
  <2> QED BY <2>1 DEF AuthContext
<1>4. ASSUME NEW c \in Clients,
             Invoke(c) \/ ClientStep(c) \/ ClientLock(c) \/ Serve(c)
      PROVE  AuthContext'
  <2>1. kpc' = kpc /\ kpos' = kpos /\ kctx' = kctx
    BY <1>4, ClientFrame DEF keeperVars
  <2>2. CASE FailOver(c)
    <3>1. pc[c] = "wait" /\ reset_redis_connection(conn[c])
      BY <2>2 DEF FailOver
    <3>2. conn[c] \in Slots /\ ctx[conn[c]] # NULL
      BY <3>1, WaitHasContext
    <3>3. NULL \notin Contexts
      BY NullAssumption
    <3> QED BY <2>1, <3>1, <3>2, <3>3, ResetOwned DEF AuthContext
  <2>3. CASE status' = status /\ ctx' = ctx /\ UNCHANGED netVars
    BY <2>1, <2>3 DEF AuthContext, netVars
  <2> QED BY <1>4, <2>2, <2>3, ClientChanges
<1>5. ASSUME NEW s \in Filled, Crash(s) \/ Recover(s) PROVE AuthContext'
  <2>1. ctx' = ctx /\ kpc' = kpc /\ kpos' = kpos /\ kctx' = kctx
    BY <1>5, ServerFrame DEF poolVars, keeperVars
  <2> QED BY <1>5, <2>1, CrashOwned DEF AuthContext
<1> QED BY <1>1, <1>2, <1>3, <1>4, <1>5 DEF Next, StartStep, PassStep

LEMMA ServedByOwnerStep ==
    ASSUME TypeOK, Routed, WaitsOnValid, ContextOwnership, ServedByOwner, Next
    PROVE  ServedByOwner'
<1>1. CASE StartStep \/ PassStep \/ KeeperLock
  BY <1>1, StartFrame, PassFrame DEF ServedByOwner, clientVars, walkVars
<1>2. ASSUME NEW c \in Clients, Invoke(c) PROVE ServedByOwner'
  <2>1. PICK args : Command(c, args)
    BY <1>2, InvokeIsCommand
  <2>2. /\ exec' = [exec EXCEPT ![c] = [s \in Slots |-> 0]]
        /\ \A d \in Clients : d # c => key'[d] = key[d]
    BY <2>1 DEF Command, TypeOK
  <2> QED BY <2>2 DEF ServedByOwner, TypeOK
<1>3. ASSUME NEW c \in Clients, ClientStep(c) \/ ClientLock(c) PROVE ServedByOwner'
  <2>1. key' = key /\ exec' = exec
    BY <1>3, ClientStepFrame DEF ClientLock, walkVars
  <2> QED BY <2>1 DEF ServedByOwner
<1>4. ASSUME NEW c \in Clients, Serve(c) PROVE ServedByOwner'
  <2>1. key' = key /\ pc[c] = "wait"
    BY <1>4 DEF Serve, walkVars
  <2>2. /\ peer[ctx[conn[c]]] = conn[c]
        /\ key[c] \in Keys /\ conn[c] = Owner(key[c], RackOf(conn[c]))
    BY <2>1, WaitHasContext DEF Routed
  <2>3. \A d \in Clients, t \in Slots :
           (d # c \/ t # conn[c]) => exec'[d][t] = exec[d][t]
    <3>1. CASE Executed(c, conn[c])
      BY <3>1, ExecutedCount DEF TypeOK
    <3>2. CASE exec' = exec
      BY <3>2
    <3> QED BY <1>4, <2>2, <3>1, <3>2 DEF Serve
  <2> QED BY <2>1, <2>2, <2>3, NullAssumption DEF ServedByOwner
<1>5. ASSUME NEW s \in Filled, Crash(s) \/ Recover(s) PROVE ServedByOwner'
  BY <1>5, ServerFrame DEF ServedByOwner, clientVars, walkVars
<1> QED BY <1>1, <1>2, <1>3, <1>4, <1>5 DEF Next

-----------------------------------------------------------------------------
(* The inductive invariant.                                                *)
LEMMA InitIInv == Init => IInv
<1> SUFFICES ASSUME Init PROVE IInv
  OBVIOUS
<1>1. TypeOK
  BY InitTypeOK
<1>2. LockHeld /\ StartQuiet /\ Routed /\ WaitsOnValid /\ AuthContext
  BY NullAssumption DEF Init, LockHeld, Uses, Threads, StartQuiet, Routed, WaitsOnValid, AuthContext
<1>3. ContextOwnership
  BY DEF Init, ContextOwnership, VALID, INVALID
<1>4. ServedByOwner
  BY DEF Init, ServedByOwner
<1> QED BY <1>1, <1>2, <1>3, <1>4 DEF IInv

LEMMA StepIInv == IInv /\ [Next]_vars => IInv'
<1> SUFFICES ASSUME IInv, [Next]_vars PROVE IInv'
  OBVIOUS
<1> USE DEF IInv
<1>1. CASE Next
  <2>1. TypeOK'
    BY <1>1, TypeStep
  <2>2. LockHeld' /\ StartQuiet' /\ Routed'
    BY <1>1, LockHeldStep, StartQuietStep, RoutedStep
  <2>3. WaitsOnValid' /\ AuthContext'
    BY <1>1, WaitsOnValidStep, AuthContextStep
  <2>4. ContextOwnership' /\ ServedByOwner'
    BY <1>1, ContextOwnershipStep, ServedByOwnerStep
  <2> QED BY <2>1, <2>2, <2>3, <2>4
<1>2. CASE UNCHANGED vars
  <2>1. TypeOK'
    BY <1>2, TypeStep
  <2> QED BY <1>2, <2>1 DEF vars, poolVars, netVars, srvVars, keeperVars, walkVars, clientVars,
          LockHeld, Uses, StartQuiet, Starting, Routed, WaitsOnValid, AuthContext,
          ContextOwnership, ServedByOwner
<1> QED BY <1>1, <1>2

THEOREM Invariant == Spec => []IInv
BY InitIInv, StepIInv, PTL DEF Spec

(* The variables of the pool, of the keeper and of every command keep      *)
(* their types; in particular the loops of dynoc_start and of              *)
(* reconnect_datacenter index only racks and slots that exist.             *)
THEOREM TypeCorrect == Spec => []TypeOK
<1>1. IInv => TypeOK
  BY DEF IInv
<1> QED BY <1>1, Invariant, PTL

(* No two threads are ever inside the critical section of one connection.  *)
THEOREM MutualExclusion == Spec => []ExclusiveUse
<1>1. IInv => ExclusiveUse
  BY DEF IInv, LockHeld, ExclusiveUse
<1> QED BY <1>1, Invariant, PTL

(* A slot's context is allocated, its own, and connected to its own node,  *)
(* and a VALID slot has one.                                               *)
THEOREM ContextsOwned == Spec => []ContextOwnership
<1>1. IInv => ContextOwnership
  BY DEF IInv
<1> QED BY <1>1, Invariant, PTL

(* Only owners of a key execute its command, in any topology and under any *)
(* interleaving of failures, resets and reconnections.                     *)
THEOREM OnlyOwnersServe == Spec => []ServedByOwner
<1>1. IInv => ServedByOwner
  BY DEF IInv
<1> QED BY <1>1, Invariant, PTL

(* A connection changes only under its mutex.                              *)
THEOREM OnlyHolderChanges == Spec => ChangedByHolder
<1>1. IInv /\ [Next]_vars =>
        [\A s \in Slots :
            (status'[s] # status[s] \/ ctx'[s] # ctx[s]) =>
               Starting \/ (lock[s] # NULL /\ Uses(lock[s], s))]_vars
  <2> SUFFICES ASSUME IInv, [Next]_vars, NEW s \in Slots,
                      status'[s] # status[s] \/ ctx'[s] # ctx[s]
               PROVE  Starting \/ (lock[s] # NULL /\ Uses(lock[s], s))
    OBVIOUS
  <2> QED BY ChangedByHolderStep DEF IInv
<1> QED BY <1>1, Invariant, PTL DEF Spec, ChangedByHolder

-----------------------------------------------------------------------------
(* A step keeps the holder of a mutex in its critical section.             *)
LEMMA ReleasedStep ==
    ASSUME TypeOK, MutexReleased, Next
    PROVE  MutexReleased'
<1> SUFFICES ASSUME NEW s \in Slots, NEW h, h = lock'[s], h # NULL
             PROVE  Uses(h, s)'
  BY DEF MutexReleased
<1>0. Keeper \notin Clients
  BY NullAssumption
<1>1. lock[s] = h => Uses(h, s)
  BY DEF MutexReleased
<1>2. CASE StartStep
  <2>1. UNCHANGED <<lock, pc, conn>> /\ Starting
    BY <1>2, StartFrame DEF clientVars, walkVars
  <2> QED BY <1>1, <2>1 DEF Uses, Starting
<1>3. CASE PassStep
  <2>1. UNCHANGED <<pc, conn>>
    BY <1>3, PassFrame DEF clientVars, walkVars
  <2>2. CASE lock' = [lock EXCEPT ![kpos] = NULL]
    <3>1. s # kpos /\ lock[s] = h
      BY <2>2 DEF TypeOK
    <3> QED BY <1>1, <2>1, <3>1 DEF Uses
  <2>3. CASE Wake
    BY <1>1, <2>1, <2>3 DEF Wake, poolVars, Uses
  <2>4. CASE PingDead \/ \E x \in Contexts : ReconnectForAuth(x)
    <3>1. lock' = lock /\ kpos' = kpos /\ kpc' \in {"connect", "auth"}
      BY <2>4 DEF PingDead, ReconnectForAuth, poolVars
    <3> QED BY <1>1, <2>1, <3>1 DEF Uses
  <2> QED BY <1>3, <2>2, <2>3, <2>4 DEF PassStep, PingAlive, ReconnectFail, ReconnectAuth,
             Reconnect, PassAdvance, Unlock
<1>4. CASE KeeperLock
  <2>1. /\ lock' = [lock EXCEPT ![kpos] = Keeper] /\ kpc = "lock" /\ kpc' = "locked"
        /\ UNCHANGED <<kpos, pc, conn>>
    BY <1>4 DEF KeeperLock, clientVars, walkVars
  <2>2. CASE s = kpos
    BY <2>1, <2>2 DEF Uses, TypeOK
  <2>3. CASE s # kpos
    BY <1>1, <2>1, <2>3 DEF Uses, TypeOK
  <2> QED BY <2>2, <2>3
<1>5. ASSUME NEW c \in Clients, UNCHANGED <<kpc, kpos>>, lock[s] = h,
             \A d \in Clients : d # c => pc'[d] = pc[d] /\ conn'[d] = conn[d],
             h # c
      PROVE  Uses(h, s)'
  BY <1>0, <1>1, <1>5 DEF Uses
<1>6. ASSUME NEW c \in Clients, Invoke(c) PROVE Uses(h, s)'
  <2>1. PICK args : Command(c, args)
    BY <1>6, InvokeIsCommand
  <2>2. /\ UNCHANGED <<lock, kpc, kpos>> /\ pc[c] = "idle"
        /\ \A d \in Clients : d # c => pc'[d] = pc[d] /\ conn'[d] = conn[d]
    BY <2>1 DEF Command, poolVars, keeperVars, TypeOK
  <2>3. h # c
    BY <1>0, <1>1, <2>2 DEF Uses
  <2> QED BY <1>5, <2>2, <2>3
<1>7. ASSUME NEW c \in Clients, ClientStep(c) PROVE Uses(h, s)'
  <2>1. /\ UNCHANGED <<kpc, kpos>>
        /\ \A d \in Clients : d # c => pc'[d] = pc[d] /\ conn'[d] = conn[d]
    BY <1>7, ClientFrame, ClientStepFrame DEF keeperVars
  <2>2. CASE SkipInvalid(c) \/ Succeed(c) \/ FailOver(c)
    <3>1. lock' = [lock EXCEPT ![conn[c]] = NULL]
      BY <2>2 DEF SkipInvalid, Succeed, FailOver, Unlock
    <3>2. s # conn[c] /\ lock[s] = h
      BY <3>1 DEF TypeOK
    <3>3. h # c
      BY <1>0, <1>1, <3>2 DEF Uses
    <3> QED BY <1>5, <2>1, <3>2, <3>3
  <2>3. CASE SelectLocal(c) \/ SelectRemote(c) \/ GiveUp(c)
    <3>1. lock' = lock /\ pc[c] = "select"
      BY <2>3 DEF SelectLocal, SelectRemote, Selected, GiveUp, poolVars
    <3>2. h # c
      BY <1>0, <1>1, <3>1 DEF Uses
    <3> QED BY <1>5, <2>1, <3>1, <3>2
  <2>4. CASE Send(c)
    <3>1. lock' = lock /\ conn' = conn /\ pc[c] = "locked" /\ pc'[c] = "wait"
      BY <2>4 DEF Send, poolVars, walkVars, TypeOK
    <3> QED BY <1>0, <1>1, <2>1, <3>1 DEF Uses
  <2> QED BY <1>7, <2>2, <2>3, <2>4 DEF ClientStep
<1>8. ASSUME NEW c \in Clients, ClientLock(c) PROVE Uses(h, s)'
  <2>1. /\ lock' = [lock EXCEPT ![conn[c]] = c] /\ pc[c] = "lock"
        /\ pc' = [pc EXCEPT ![c] = "locked"] /\ UNCHANGED <<kpc, kpos, conn>>
    BY <1>8 DEF ClientLock, keeperVars, walkVars
  <2>2. CASE s = conn[c]
    BY <2>1, <2>2 DEF Uses, TypeOK
  <2>3. CASE s # conn[c]
    <3>1. lock[s] = h
      BY <2>1, <2>3 DEF TypeOK
    <3>2. h # c
      BY <1>0, <1>1, <2>1, <3>1 DEF Uses
    <3> QED BY <1>5, <2>1, <3>1, <3>2 DEF TypeOK
  <2> QED BY <2>2, <2>3
<1>9. ASSUME NEW c \in Clients, Serve(c) PROVE Uses(h, s)'
  BY <1>1, <1>9 DEF Serve, Uses, poolVars, keeperVars, walkVars
<1>10. ASSUME NEW t \in Filled, Crash(t) \/ Recover(t) PROVE Uses(h, s)'
  BY <1>1, <1>10, ServerFrame DEF Uses, poolVars, keeperVars, clientVars, walkVars
<1> QED BY <1>2, <1>3, <1>4, <1>6, <1>7, <1>8, <1>9, <1>10 DEF Next

(* Every path through a critical section releases the mutex, the failure   *)
(* paths of commands and health check included; a thread that waits for a  *)
(* mutex holds none, so no cycle of waiting threads can close.             *)
THEOREM NoMutexLeftLocked == Spec => []MutexReleased
<1>1. Init => MutexReleased
  BY DEF Init, MutexReleased
<1>2. TypeOK /\ MutexReleased /\ [Next]_vars => MutexReleased'
  BY ReleasedStep DEF vars, poolVars, keeperVars, clientVars, walkVars, MutexReleased, Uses
<1> QED BY <1>1, <1>2, TypeCorrect, PTL DEF Spec

(* Frees and replacements never hit a context on which a reply is awaited. *)
LEMMA NoFreeStep ==
    ASSUME IInv, [Next]_vars, NEW c \in Clients, pc[c] = "wait", pc'[c] = "wait"
    PROVE  ctx'[conn[c]] = ctx[conn[c]] /\ heap'[ctx[conn[c]]] # "free"
<1> USE DEF IInv
<1>0. IInv'
  BY StepIInv
<1>1. conn[c] \in Slots /\ lock[conn[c]] = c
  BY DEF Routed, LockHeld, Uses, Threads
<1>2. conn'[c] = conn[c] /\ ctx'[conn[c]] = ctx[conn[c]]
  <2>1. CASE StartStep
    BY <2>1, StartFrame DEF StartQuiet
  <2>2. CASE PassStep \/ KeeperLock
    <3>1. ~Uses(Keeper, conn[c])
      BY <1>1, NullAssumption DEF LockHeld, Threads
    <3>2. ctx'[conn[c]] = ctx[conn[c]]
      BY <1>1, <2>2, <3>1, KeeperChanges, KeeperChangesUsed
    <3> QED BY <2>2, <3>2, PassFrame DEF clientVars, walkVars
  <2>3. ASSUME NEW d \in Clients, Invoke(d)
        PROVE  conn'[c] = conn[c] /\ ctx'[conn[c]] = ctx[conn[c]]
    <3>1. PICK args : Command(d, args)
      BY <2>3, InvokeIsCommand
    <3> QED BY <3>1 DEF Command, poolVars, TypeOK
  <2>4. ASSUME NEW d \in Clients, ClientStep(d)
        PROVE  conn'[c] = conn[c] /\ ctx'[conn[c]] = ctx[conn[c]]
    <3>1. d # c
      BY <2>4 DEF ClientStep, SelectLocal, SelectRemote, GiveUp, SkipInvalid, Send, Succeed,
         FailOver, TypeOK
    <3>2. conn'[c] = conn[c]
      BY <2>4, <3>1, ClientStepFrame
    <3>3. ctx'[conn[c]] = ctx[conn[c]]
      <4>1. CASE FailOver(d)
        <5>1. conn[d] # conn[c]
          BY <1>1, <3>1, <4>1, FailOverUses
        <5> QED BY <1>1, <4>1, <5>1, FailOverUses
      <4>2. CASE ctx' = ctx
        BY <4>2
      <4> QED BY <2>4, <4>1, <4>2, ClientChanges
    <3> QED BY <3>2, <3>3
  <2>5. ASSUME NEW d \in Clients, ClientLock(d) \/ Serve(d)
        PROVE  conn'[c] = conn[c] /\ ctx'[conn[c]] = ctx[conn[c]]
    BY <2>5 DEF ClientLock, Serve, poolVars, walkVars
  <2>6. ASSUME NEW s \in Filled, Crash(s) \/ Recover(s)
        PROVE  conn'[c] = conn[c] /\ ctx'[conn[c]] = ctx[conn[c]]
    BY <2>6, ServerFrame DEF poolVars, clientVars, walkVars
  <2>7. CASE UNCHANGED vars
    BY <2>7 DEF vars, poolVars, clientVars, walkVars
  <2> QED BY <2>1, <2>2, <2>3, <2>4, <2>5, <2>6, <2>7 DEF Next
<1>3. status'[conn[c]] = VALID
  BY <1>0, <1>2 DEF WaitsOnValid
<1>4. ctx'[conn[c]] # NULL /\ heap'[ctx'[conn[c]]] # "free"
  BY <1>0, <1>1, <1>3 DEF ContextOwnership
<1> QED BY <1>2, <1>4

(* While a command waits for its reply, no thread frees or replaces the    *)
(* context it waits on.                                                    *)
THEOREM ContextPinned == Spec => NoFreeUnderCommand
<1>1. IInv /\ [Next]_vars =>
        [\A c \in Clients :
            pc[c] = "wait" /\ pc'[c] = "wait" =>
               ctx'[conn[c]] = ctx[conn[c]] /\ heap'[ctx[conn[c]]] # "free"]_vars
  BY NoFreeStep
<1> QED BY <1>1, Invariant, PTL DEF Spec, NoFreeUnderCommand

-----------------------------------------------------------------------------
(* The length of the walk over the racks.                                  *)
LEMMA RacksAheadType ==
    ASSUME TypeOK, NEW c \in Clients
    PROVE  RacksAhead(c) \in Nat
<1>1. rc_idx[c] \in Nat /\ (LOCAL_DC \in DCs => RackCount[LOCAL_DC] \in Nat)
  BY TopologyAssumption DEF TypeOK
<1> QED BY <1>1 DEF RacksAhead

(* Each rack selected is one less ahead.                                   *)
LEMMA SelectedAhead ==
    ASSUME TypeOK, NEW c \in Clients, SelectLocal(c) \/ SelectRemote(c)
    PROVE  RacksAhead(c)' = RacksAhead(c) - 1 /\ pc'[c] = "lock"
<1>1. /\ rc_idx[c] \in Nat /\ LOCAL_DC \in DCs
      /\ RackCount[LOCAL_DC] \in Nat /\ RackCount[LOCAL_DC] > 0
  BY TopologyAssumption DEF SelectLocal, SelectRemote, SwitchesToRemote, TypeOK
<1>2. CASE SelectLocal(c)
  <2>1. /\ pc'[c] = "lock" /\ dc_type'[c] = dc_type[c] /\ rc_idx'[c] = rc_idx[c] + 1
        /\ rc_idx[c] < RackCount[LOCAL_DC]
    BY <1>2 DEF SelectLocal, Selected, TypeOK
  <2> QED BY <1>1, <2>1 DEF RacksAhead
<1>3. CASE SelectRemote(c)
  <2>1. /\ pc'[c] = "lock" /\ dc_type[c] = LOCAL_DC /\ dc_type'[c] = REMOTE_DC
        /\ rc_idx'[c] = 1 /\ rc_idx[c] >= RackCount[LOCAL_DC]
    BY <1>3 DEF SelectRemote, SwitchesToRemote, Selected, TypeOK
  <2>2. REMOTE_DC # LOCAL_DC
    BY DEF REMOTE_DC, LOCAL_DC
  <2> QED BY <1>1, <2>1, <2>2 DEF RacksAhead
<1> QED BY <1>2, <1>3

LEMMA WalkShortensStep ==
    ASSUME TypeOK, Next, NEW c \in Clients, pc[c] # "idle", pc'[c] # pc[c]
    PROVE  StepsAhead(c)' < StepsAhead(c)
<1>1. RacksAhead(c) \in Nat
  BY RacksAheadType
<1>2. ClientStep(c) \/ ClientLock(c)
  <2>1. CASE StartStep \/ PassStep \/ KeeperLock
    BY <2>1, StartFrame, PassFrame DEF clientVars
  <2>2. ASSUME NEW d \in Clients, Invoke(d) \/ ClientStep(d) \/ ClientLock(d) \/ Serve(d)
        PROVE  ClientStep(c) \/ ClientLock(c)
    <3>1. CASE Invoke(d)
      <4>1. PICK args : Command(d, args)
        BY <3>1, InvokeIsCommand
      <4>2. pc[d] = "idle" /\ \A e \in Clients : e # d => pc'[e] = pc[e]
        BY <4>1 DEF Command, TypeOK
      <4> QED BY <4>2
    <3>2. CASE ClientStep(d)
      BY <3>2, ClientStepFrame
    <3>3. CASE ClientLock(d)
      BY <3>3 DEF ClientLock, TypeOK
    <3>4. CASE Serve(d)
      BY <3>4 DEF Serve
    <3> QED BY <2>2, <3>1, <3>2, <3>3, <3>4
  <2>3. ASSUME NEW s \in Filled, Crash(s) \/ Recover(s) PROVE FALSE
    BY <2>3, ServerFrame DEF clientVars
  <2> QED BY <2>1, <2>2, <2>3 DEF Next
<1>3. CASE SelectLocal(c) \/ SelectRemote(c)
  <2>1. pc[c] = "select"
    BY <1>3 DEF SelectLocal, SelectRemote
  <2> QED BY <1>1, <1>3, <2>1, SelectedAhead DEF StepsAhead
<1>4. ASSUME UNCHANGED <<dc_type, rc_idx>> PROVE RacksAhead(c)' = RacksAhead(c)
  BY <1>4 DEF RacksAhead
<1>5. CASE GiveUp(c)
  <2>1. pc[c] = "select" /\ pc'[c] = "idle" /\ UNCHANGED <<dc_type, rc_idx>>
    BY <1>5 DEF GiveUp, walkVars, TypeOK
  <2> QED BY <1>1, <1>4, <2>1 DEF StepsAhead
<1>6. CASE SkipInvalid(c) \/ Succeed(c) \/ FailOver(c)
  <2>1. /\ pc[c] \in {"locked", "wait"} /\ pc'[c] \in {"select", "idle"}
        /\ UNCHANGED <<dc_type, rc_idx>>
    BY <1>6 DEF SkipInvalid, Succeed, FailOver, walkVars, TypeOK
  <2> QED BY <1>1, <1>4, <2>1 DEF StepsAhead
<1>7. CASE Send(c)
  <2>1. pc[c] = "locked" /\ pc'[c] = "wait" /\ UNCHANGED <<dc_type, rc_idx>>
    BY <1>7 DEF Send, walkVars, TypeOK
  <2> QED BY <1>1, <1>4, <2>1 DEF StepsAhead
<1>8. CASE ClientLock(c)
  <2>1. pc[c] = "lock" /\ pc'[c] = "locked" /\ UNCHANGED <<dc_type, rc_idx>>
    BY <1>8 DEF ClientLock, walkVars, TypeOK
  <2> QED BY <1>1, <1>4, <2>1 DEF StepsAhead
<1> QED BY <1>2, <1>3, <1>5, <1>6, <1>7, <1>8 DEF ClientStep

(* In any topology and whatever fails, a command comes closer to its       *)
(* return with every step it takes: the racks it can be sent back to are   *)
(* used up.                                                                *)
THEOREM CommandsRunOut == Spec => WalkShortens
<1>1. TypeOK /\ [Next]_vars =>
         [\A c \in Clients :
             pc[c] # "idle" /\ pc'[c] # pc[c] => StepsAhead(c)' < StepsAhead(c)]_vars
  BY WalkShortensStep
<1> QED BY <1>1, TypeCorrect, PTL DEF Spec, WalkShortens

(* A command starts with at most two walks over the local racks ahead, and *)
(* so selects at most that many racks.                                     *)
THEOREM WalkBounded ==
    ASSUME LOCAL_DC \in DCs
    PROVE  Spec => [](\A c \in Clients : Len(tried[c]) + RacksAhead(c) <= 2 * RackCount[LOCAL_DC])
<1> DEFINE R == RackCount[LOCAL_DC]
           Bounded(c) == Len(tried[c]) + RacksAhead(c) <= 2 * R
<1>0. R \in Nat /\ R > 0
  BY TopologyAssumption
<1>1. Init => \A c \in Clients : Bounded(c)
  BY <1>0 DEF Init, RacksAhead
<1>2. ASSUME TypeOK, Next, NEW c \in Clients, Bounded(c) PROVE Bounded(c)'
  <2>1. RacksAhead(c) \in Nat /\ tried[c] \in Seq(Racks)
    BY <1>2, RacksAheadType DEF TypeOK
  <2>2. CASE UNCHANGED <<dc_type[c], rc_idx[c], tried[c]>>
    BY <1>2, <2>2 DEF RacksAhead
  <2>3. CASE SelectLocal(c) \/ SelectRemote(c)
    <3>1. \E r : tried'[c] = Append(tried[c], r)
      <4>1. PICK r, dct, idx : Selected(c, r, dct, idx)
        BY <2>3 DEF SelectLocal, SelectRemote
      <4>2. tried'[c] = Append(tried[c], r)
        BY <4>1, <1>2 DEF Selected, TypeOK
      <4> QED BY <4>2
    <3>2. Len(tried'[c]) = Len(tried[c]) + 1
      BY <2>1, <3>1
    <3> QED BY <1>2, <2>1, <2>3, <3>2, <1>0, SelectedAhead
  <2>4. ASSUME NEW args, Command(c, args) PROVE Bounded(c)'
    <3>1. dc_type'[c] = LOCAL_DC /\ rc_idx'[c] = 0 /\ tried'[c] = <<>>
      BY <1>2, <2>4 DEF Command, TypeOK
    <3> QED BY <1>0, <3>1 DEF RacksAhead
  <2>5. CASE StartStep \/ PassStep \/ KeeperLock
    BY <2>2, <2>5, StartFrame, PassFrame DEF clientVars, walkVars
  <2>6. ASSUME NEW d \in Clients, Invoke(d) \/ ClientStep(d) \/ ClientLock(d) \/ Serve(d)
        PROVE  Bounded(c)'
    <3>1. CASE Invoke(d)
      <4>1. PICK args : Command(d, args)
        BY <3>1, InvokeIsCommand
      <4>2. CASE d = c
        BY <2>4, <4>1, <4>2
      <4>3. CASE d # c
        BY <1>2, <2>2, <4>1, <4>3 DEF Command, TypeOK
      <4> QED BY <4>2, <4>3
    <3>2. CASE SelectLocal(d) \/ SelectRemote(d)
      <4>1. CASE d = c
        BY <2>3, <3>2, <4>1
      <4>2. CASE d # c
        BY <1>2, <2>2, <3>2, <4>2 DEF SelectLocal, SelectRemote, Selected, TypeOK
      <4> QED BY <4>1, <4>2
    <3>3. CASE GiveUp(d) \/ SkipInvalid(d) \/ Send(d) \/ Succeed(d) \/ FailOver(d)
      BY <2>2, <3>3 DEF GiveUp, SkipInvalid, Send, Succeed, FailOver, walkVars
    <3>4. CASE ClientLock(d) \/ Serve(d)
      BY <2>2, <3>4 DEF ClientLock, Serve, walkVars
    <3> QED BY <2>6, <3>1, <3>2, <3>3, <3>4 DEF ClientStep
  <2>7. ASSUME NEW s \in Filled, Crash(s) \/ Recover(s) PROVE Bounded(c)'
    BY <2>2, <2>7, ServerFrame DEF clientVars, walkVars
  <2> QED BY <1>2, <2>5, <2>6, <2>7 DEF Next
<1>3. TypeOK /\ (\A c \in Clients : Bounded(c)) /\ [Next]_vars => (\A c \in Clients : Bounded(c))'
  <2>1. CASE UNCHANGED vars
    BY <2>1 DEF vars, clientVars, walkVars, RacksAhead
  <2> QED BY <1>2, <2>1
<1> QED BY <1>1, <1>3, TypeCorrect, PTL DEF Spec
==============================================================================
