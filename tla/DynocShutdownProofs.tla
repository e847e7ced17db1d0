------------------------- MODULE DynocShutdownProofs -------------------------
(***************************************************************************)
(* dynoc_destroy is orderly for every topology once reconnect_thread has   *)
(* ended before the first free: it frees nothing twice, touches nothing    *)
(* freed and leaves no connection of the pool open.                        *)
(***************************************************************************)
EXTENDS DynocShutdown, DynocPoolProofs

(* The slots rack_destroy is done with.                                    *)
Closed(s) == Before(s, dpos) \/ (s = dpos /\ mpc \in {"pool", "done"})

(* Where dynoc_destroy is, and what it has freed so far.                   *)
DestroyPlace ==
    /\ mpc = "run" => nodesFreed = {}
    /\ mpc = "nodes" /\ nodesFreed = {} => dpos = FirstSlot
    /\ mpc \in {"slots", "pool", "done"} => RackOf(dpos) \in nodesFreed
    /\ mpc = "done" => NextSlot(NodeCount, dpos) = NULL

(* If the thread ended in time, exactly the contexts of the slots that     *)
(* rack_destroy is done with are freed.                                    *)
ClosedInOrder ==
    early =>
        /\ keeper = "ended" /\ ~fault /\ nodesFreed # {}
        /\ \A s, t \in Slots : ctx[s] # NULL /\ ctx[s] = ctx[t] => s = t
        /\ \A s \in Slots : ctx[s] # NULL => (heap[ctx[s]] = "free" <=> Closed(s))

(* Until the first free the pool is the one that DynocPool describes.      *)
IntactPool == nodesFreed = {} => IInv

ShutInv ==
    /\ ShutTypeOK /\ Routed
    /\ IntactPool /\ DestroyPlace /\ ClosedInOrder

-----------------------------------------------------------------------------
(* The loops of dynoc_destroy are those of reconnect_datacenter.           *)
LEMMA DestroyNext ==
    ASSUME TypeOK, dpos \in Slots
    PROVE  LET n == NextSlot(NodeCount, dpos) IN
           /\ n \in Slots \cup {NULL}
           /\ n # NULL => \A s \in Slots : Before(s, n) <=> (s = dpos \/ Before(s, dpos))
           /\ n = NULL => \A s \in Slots : s = dpos \/ Before(s, dpos)
<1> DEFINE n == NextSlot(NodeCount, dpos)
<1>1. \A r \in Racks : NodeCount[r] <= NodeCount[r]
  BY TopologyAssumption
<1>2. n \in Slots \cup {NULL}
  BY <1>1, NextSlotType, TopologyAssumption
<1>3. ASSUME n # NULL, NEW s \in Slots PROVE Before(s, n) <=> (s = dpos \/ Before(s, dpos))
  <2>1. n \in Slots /\ Before(dpos, n)
    BY <1>2, <1>3, NextSlotForward, TopologyAssumption
  <2>2. Before(s, n) => s = dpos \/ Before(s, dpos)
    BY <1>3, NextSlotExact
  <2>3. Before(s, dpos) => Before(s, n)
    <3> HIDE DEF n
    <3> QED BY <2>1, BeforeOrder
  <2> QED BY <2>1, <2>2, <2>3
<1>4. ASSUME n = NULL, NEW s \in Slots PROVE s = dpos \/ Before(s, dpos)
  BY <1>4, NextSlotExact
<1> QED BY <1>2, <1>3, <1>4

(* No slot comes before the first one.                                     *)
LEMMA FirstIsFirst ==
    ASSUME NEW s \in Slots
    PROVE  ~Before(s, FirstSlot)
<1>1. /\ s[1] \in DCs /\ s[2] \in Nat /\ s[3] \in Nat
      /\ DCs \subseteq {LOCAL_DC, REMOTE_DC} /\ LOCAL_DC # REMOTE_DC
  BY SlotFields, TopologyAssumption DEF LOCAL_DC, REMOTE_DC
<1> QED BY <1>1 DEF Before, FirstSlot

(* AfterSlot goes on in the same rack, or leaves the rack.                 *)
LEMMA AfterSlotPlace ==
    ASSUME TypeOK, dpos \in Slots, mpc = "slots", AfterSlot
    PROVE  /\ mpc' \in {"slots", "pool"} /\ dpos' \in Slots
           /\ RackOf(dpos') = RackOf(dpos)
           /\ \A s \in Slots : Closed(s)' <=> (s = dpos \/ Closed(s))
<1> DEFINE n == NextSlot(NodeCount, dpos)
<1>1. CASE n # NULL /\ RackOf(n) = RackOf(dpos)
  <2>1. mpc' = "slots" /\ dpos' = n /\ n \in Slots
    BY <1>1, DestroyNext DEF AfterSlot
  <2>2. \A s \in Slots : Before(s, n) <=> (s = dpos \/ Before(s, dpos))
    BY <1>1, DestroyNext
  <2> HIDE DEF n
  <2>3. \A s \in Slots : Closed(s)' <=> Before(s, n)
    BY <2>1 DEF Closed, Before
  <2> QED BY <1>1, <2>1, <2>2, <2>3 DEF Closed
<1>2. CASE ~(n # NULL /\ RackOf(n) = RackOf(dpos))
  <2>1. mpc' = "pool" /\ dpos' = dpos
    BY <1>2 DEF AfterSlot
  <2> QED BY <2>1 DEF Closed, Before
<1> QED BY <1>1, <1>2

-----------------------------------------------------------------------------
LEMMA InitShutInv == ShutInit => ShutInv
<1> SUFFICES ASSUME ShutInit PROVE ShutInv
  OBVIOUS
<1>1. IInv
  BY InitIInv DEF ShutInit
<1> QED BY <1>1, FirstSlotType
        DEF ShutInit, ShutInv, ShutTypeOK, IInv, IntactPool, DestroyPlace, ClosedInOrder

(* Steps of the pool that are steps of no destroyed client: before the     *)
(* destruction everybody runs, during it the servers and reconnect_thread. *)
LEMMA PoolShutStep ==
    ASSUME ShutInv, Application \/ KeeperPass \/ KeeperTakesLock \/ Servers
    PROVE  ShutInv'
<1> USE DEF ShutInv
<1>1. [Next]_vars /\ Next /\ TypeOK
  BY DEF Application, KeeperPass, KeeperTakesLock, Servers, Next, ShutTypeOK
<1>2. UNCHANGED <<mainVars, keeper, early, fault>> /\ inCall' \in BOOLEAN
  BY DEF Application, KeeperPass, KeeperTakesLock, Servers, shutVars, cancelVars, ShutTypeOK
<1>3. TypeOK' /\ Routed'
  BY <1>1, TypeStep, RoutedStep
<1>4. ShutTypeOK' /\ DestroyPlace'
  BY <1>2, <1>3 DEF ShutTypeOK, DestroyPlace, mainVars
<1>5. IntactPool'
  BY <1>1, <1>2, StepIInv DEF IntactPool, mainVars
<1>6. ClosedInOrder'
  <2> SUFFICES ASSUME early' PROVE ClosedInOrder'
    BY DEF ClosedInOrder
  <2>1. early /\ keeper = "ended" /\ nodesFreed # {}
    BY <1>2 DEF ClosedInOrder
  <2>2. mpc # "run"
    BY <2>1 DEF DestroyPlace
  <2>3. PICK s \in Filled : Crash(s) \/ Recover(s)
    BY <2>1, <2>2 DEF Application, KeeperPass, KeeperTakesLock, MayGoOn, Servers
  <2>4. ctx' = ctx /\ \A x \in Contexts : heap'[x] = "free" <=> heap[x] = "free"
    BY <1>1, <2>3, CrashOwned, ServerFrame DEF poolVars
  <2>5. \A t \in Slots : ctx[t] # NULL => ctx[t] \in Contexts
    BY <1>1 DEF TypeOK
  <2>6. \A t \in Slots : Closed(t)' <=> Closed(t)
    BY <1>2 DEF Closed, Before, mainVars
  <2> QED BY <1>2, <2>1, <2>4, <2>5, <2>6 DEF ClosedInOrder, mainVars
<1> QED BY <1>3, <1>4, <1>5, <1>6

LEMMA CancelShutStep ==
    ASSUME ShutInv, Cancel \/ KeeperEnds \/ (~fault /\ KeeperFaults)
    PROVE  ShutInv'
<1> USE DEF ShutInv
<1>1. UNCHANGED vars
  BY DEF Cancel, KeeperEnds, KeeperFaults
<1>2. TypeOK' /\ Routed' /\ (IInv => IInv')
  BY <1>1, StepIInv, TypeStep DEF ShutTypeOK, Routed, vars, clientVars, walkVars
<1>3. CASE Cancel
  <2>1. /\ mpc = "run" /\ mpc' = "nodes" /\ dpos' = FirstSlot /\ keeper' = "cancelled"
        /\ inCall' \in BOOLEAN
        /\ UNCHANGED <<nodesFreed, poolFreed, destroyed, early, fault>>
    BY <1>3 DEF Cancel, InBlockingCall
  <2>2. ~early /\ nodesFreed = {}
    BY <2>1 DEF DestroyPlace, ClosedInOrder
  <2> QED BY <1>2, <2>1, <2>2, FirstSlotType
          DEF ShutTypeOK, IntactPool, DestroyPlace, ClosedInOrder
<1>4. CASE KeeperEnds \/ (~fault /\ KeeperFaults)
  <2>1. /\ UNCHANGED <<mpc, dpos, nodesFreed, poolFreed, destroyed, early>>
        /\ keeper # "ended" /\ keeper' \in {"cancelled", "ended", "running"}
        /\ inCall' \in BOOLEAN /\ fault' \in BOOLEAN
    BY <1>4 DEF KeeperEnds, KeeperFaults, mainVars, cancelVars, ShutTypeOK
  <2>2. ~early
    BY <2>1 DEF ClosedInOrder
  <2> QED BY <1>2, <2>1, <2>2 DEF ShutTypeOK, IntactPool, DestroyPlace, ClosedInOrder
<1> QED BY <1>3, <1>4

(* The first free finds every context of the pool allocated, and no slot   *)
(* closed; the later ones only begin another rack.                         *)
LEMMA FreeNodesShutStep ==
    ASSUME ShutInv, ~fault, FreeNodes
    PROVE  ShutInv'
<1> USE DEF ShutInv
<1>1. /\ UNCHANGED vars /\ mpc = "nodes" /\ mpc' = "slots"
      /\ nodesFreed' = nodesFreed \cup {RackOf(dpos)}
      /\ early' = IF nodesFreed = {} THEN keeper = "ended" ELSE early
      /\ UNCHANGED <<dpos, poolFreed, destroyed, keeper, inCall, fault>>
  BY DEF FreeNodes, cancelVars
<1>2. TypeOK' /\ Routed'
  BY <1>1, TypeStep DEF ShutTypeOK, Routed, vars, clientVars, walkVars
<1>3. dpos \in Slots /\ RackOf(dpos) \in Racks
  BY SlotFields DEF ShutTypeOK
<1>4. ShutTypeOK' /\ IntactPool' /\ DestroyPlace'
  <2>1. early' \in BOOLEAN
    BY <1>1 DEF ShutTypeOK
  <2> QED BY <1>1, <1>2, <1>3, <2>1 DEF ShutTypeOK, IntactPool, DestroyPlace, RackOf
<1>5. ClosedInOrder'
  <2> SUFFICES ASSUME early' PROVE ClosedInOrder'
    BY DEF ClosedInOrder
  <2>1. ctx' = ctx /\ heap' = heap
    BY <1>1 DEF vars, poolVars, netVars
  <2>2. \A s \in Slots : Closed(s)' <=> Closed(s)
    BY <1>1 DEF Closed, Before
  <2>3. CASE nodesFreed = {}
    <3>1. ContextOwnership /\ keeper = "ended"
      BY <1>1, <2>3 DEF IntactPool, IInv
    <3>2. \A s \in Slots : ~Closed(s)
      BY <1>1, <2>3, FirstIsFirst DEF DestroyPlace, Closed
    <3> QED BY <1>1, <2>1, <2>2, <3>1, <3>2 DEF ClosedInOrder, ContextOwnership
  <2>4. CASE nodesFreed # {}
    BY <1>1, <2>1, <2>2, <2>4 DEF ClosedInOrder
  <2> QED BY <2>3, <2>4
<1> QED BY <1>2, <1>4, <1>5

LEMMA SlotShutStep ==
    ASSUME ShutInv, SkipSlot \/ CloseSlot
    PROVE  ShutInv'
<1> USE DEF ShutInv
<1>1. /\ mpc = "slots" /\ AfterSlot /\ TypeOK /\ dpos \in Slots
      /\ UNCHANGED <<nodesFreed, poolFreed, cancelVars, early, fault, poolVars, srvVars,
                     keeperVars, clientVars>>
      /\ destroyed' \subseteq Slots
  BY DEF SkipSlot, CloseSlot, ShutTypeOK, vars
<1>2. /\ mpc' \in {"slots", "pool"} /\ dpos' \in Slots /\ RackOf(dpos') = RackOf(dpos)
      /\ \A s \in Slots : Closed(s)' <=> (s = dpos \/ Closed(s))
  BY <1>1, AfterSlotPlace
<1>3. /\ ctx[dpos] \in Contexts \cup {NULL}
      /\ \/ ctx[dpos] = NULL /\ heap' = heap /\ peer' = peer
         \/ ctx[dpos] # NULL /\ redisFree(ctx[dpos])
  BY <1>1 DEF SkipSlot, CloseSlot, vars, netVars, TypeOK
<1>4. TypeOK'
  BY <1>1, <1>3 DEF TypeOK, redisFree, poolVars, srvVars, keeperVars, clientVars, walkVars
<1>5. Routed'
  BY <1>1 DEF Routed, clientVars, walkVars
<1>6. RackOf(dpos) \in nodesFreed
  BY <1>1 DEF DestroyPlace
<1>7. ShutTypeOK' /\ IntactPool' /\ DestroyPlace'
  BY <1>1, <1>2, <1>4, <1>6 DEF ShutTypeOK, IntactPool, DestroyPlace, cancelVars
<1>8. ClosedInOrder'
  <2> SUFFICES ASSUME early' PROVE ClosedInOrder'
    BY DEF ClosedInOrder
  <2>1. /\ early /\ keeper = "ended" /\ ~fault /\ nodesFreed # {}
        /\ \A s, t \in Slots : ctx[s] # NULL /\ ctx[s] = ctx[t] => s = t
        /\ \A s \in Slots : ctx[s] # NULL => (heap[ctx[s]] = "free" <=> Closed(s))
    BY <1>1 DEF ClosedInOrder
  <2>2. ctx' = ctx /\ UNCHANGED <<keeper, fault, nodesFreed>>
    BY <1>1 DEF poolVars, cancelVars
  <2>3. ASSUME NEW s \in Slots, ctx[s] # NULL
        PROVE  heap'[ctx[s]] = "free" <=> (s = dpos \/ Closed(s))
    <3>1. ctx[s] \in Contexts /\ heap \in [Contexts -> {"free", "open", "broken"}]
      BY <1>1, <2>3 DEF TypeOK
    <3>2. CASE ctx[dpos] = NULL
      BY <1>3, <2>1, <2>3, <3>2
    <3>3. CASE ctx[dpos] # NULL
      <4>1. heap' = [heap EXCEPT ![ctx[dpos]] = "free"]
        BY <1>3, <3>3 DEF redisFree
      <4>2. s # dpos => ctx[s] # ctx[dpos]
        BY <1>1, <2>1, <2>3
      <4> QED BY <2>1, <2>3, <3>1, <4>1, <4>2
    <3> QED BY <3>2, <3>3
  <2> QED BY <1>2, <2>1, <2>2, <2>3 DEF ClosedInOrder
<1> QED BY <1>5, <1>7, <1>8

LEMMA FreePoolShutStep ==
    ASSUME ShutInv, FreePool
    PROVE  ShutInv'
<1> USE DEF ShutInv
<1> DEFINE n == NextSlot(NodeCount, dpos)
<1>1. /\ mpc = "pool" /\ TypeOK /\ dpos \in Slots /\ UNCHANGED vars
      /\ poolFreed' = poolFreed \cup {RackOf(dpos)}
      /\ IF n = NULL THEN mpc' = "done" /\ UNCHANGED dpos ELSE mpc' = "nodes" /\ dpos' = n
      /\ UNCHANGED <<nodesFreed, destroyed, keeper, inCall, early, fault>>
  BY DEF FreePool, ShutTypeOK, cancelVars
<1>2. TypeOK' /\ Routed'
  BY <1>1, TypeStep DEF Routed, vars, clientVars, walkVars
<1>3. /\ n \in Slots \cup {NULL}
      /\ n # NULL => \A s \in Slots : Before(s, n) <=> (s = dpos \/ Before(s, dpos))
  BY <1>1, DestroyNext
<1>4. RackOf(dpos) \in nodesFreed
  BY <1>1 DEF DestroyPlace
<1>5. ShutTypeOK' /\ IntactPool' /\ DestroyPlace'
  BY <1>1, <1>2, <1>3, <1>4 DEF ShutTypeOK, IntactPool, DestroyPlace
<1>6. \A s \in Slots : Closed(s)' <=> Closed(s)
  <2>1. CASE n = NULL
    BY <1>1, <2>1 DEF Closed, Before
  <2>2. CASE n # NULL
    <3>1. mpc' = "nodes" /\ dpos' = n
      BY <1>1, <2>2
    <3> HIDE DEF n
    <3> QED BY <1>1, <1>3, <2>2, <3>1 DEF Closed, Before
  <2> QED BY <2>1, <2>2
<1>7. ClosedInOrder'
  BY <1>1, <1>6 DEF ClosedInOrder, vars, poolVars, netVars
<1> QED BY <1>2, <1>5, <1>7

(* A context that has been freed, or a mutex held by a thread that still   *)
(* runs, is found only by a destruction that began too early.              *)
LEMMA CloseFaultsShutStep ==
    ASSUME ShutInv, CloseFaults
    PROVE  ShutInv'
<1> USE DEF ShutInv
<1>1. /\ mpc = "slots" /\ ctx[dpos] # NULL /\ Busy(dpos) /\ UNCHANGED vars /\ dpos \in Slots
      /\ fault' = TRUE /\ UNCHANGED <<mpc, dpos, nodesFreed, poolFreed, destroyed, keeper, inCall, early>>
  BY DEF CloseFaults, ShutTypeOK, mainVars, cancelVars
<1>2. TypeOK' /\ Routed'
  BY <1>1, TypeStep DEF ShutTypeOK, Routed, vars, clientVars, walkVars
<1>3. ~early
  <2> SUFFICES ASSUME early PROVE FALSE
    OBVIOUS
  <2>1. Closed(dpos)
    BY <1>1 DEF Busy, ClosedInOrder
  <2> QED BY <1>1, <2>1, BeforeOrder DEF Closed
<1> QED BY <1>1, <1>2, <1>3 DEF ShutTypeOK, IntactPool, DestroyPlace, ClosedInOrder

(* dynoc_destroy closes the slots in order, and until then the pool is as  *)
(* DynocPool leaves it.                                                    *)
THEOREM ShutInvariant == ShutSpec => []ShutInv
<1>1. ASSUME ShutInv, UNCHANGED allVars PROVE ShutInv'
  <2>1. TypeOK' /\ Routed' /\ (IInv => IInv')
    BY <1>1, StepIInv, TypeStep
       DEF ShutInv, ShutTypeOK, Routed, allVars, vars, clientVars, walkVars
  <2> QED BY <1>1, <2>1 DEF ShutInv, ShutTypeOK, IntactPool, DestroyPlace, ClosedInOrder, Closed,
          Before, allVars, shutVars, mainVars, cancelVars, vars, poolVars, netVars
<1>2. ShutInv /\ [ShutNext]_allVars => ShutInv'
  BY <1>1, PoolShutStep, CancelShutStep, FreeNodesShutStep, SlotShutStep, FreePoolShutStep,
     CloseFaultsShutStep DEF ShutNext, Destroy
<1> QED BY <1>2, InitShutInv, PTL DEF ShutSpec

(* The types of DynocShutdown: dynoc_destroy walks over the arrays that    *)
(* exist, and frees a rack's connections only after its nodes.             *)
THEOREM ShutTypeCorrect == ShutSpec => []ShutTypeOK
<1>1. ShutInv => ShutTypeOK
  BY DEF ShutInv
<1> QED BY <1>1, ShutInvariant, PTL

(* Whatever the topology: when reconnect_thread has ended before the first *)
(* free, dynoc_destroy never touches freed memory, and once it returns     *)
(* every connection still open was lost to AUTH before.                    *)
THEOREM DestroyIsOrderly == ShutSpec => []OrderlyShutdown
<1>1. ASSUME ShutInv, early
      PROVE  /\ ~fault
             /\ mpc = "done" => \A x \in Contexts : heap[x] # "free" => x \in Leaked \cup {kctx}
  <2>1. ~fault
    BY <1>1 DEF ShutInv, ClosedInOrder
  <2>2. ASSUME mpc = "done", NEW x \in Contexts, heap[x] # "free", x # kctx PROVE x \in Leaked
    <3>1. dpos \in Slots /\ TypeOK /\ NextSlot(NodeCount, dpos) = NULL
      BY <1>1, <2>2 DEF ShutInv, ShutTypeOK, DestroyPlace
    <3>2. \A s \in Slots : Closed(s)
      BY <2>2, <3>1, DestroyNext DEF Closed
    <3>3. \A s \in Slots : ctx[s] # NULL => heap[ctx[s]] = "free"
      BY <1>1, <3>2 DEF ShutInv, ClosedInOrder
    <3>4. \A s \in Slots : ctx[s] # x
      BY <2>2, <3>3, NullAssumption
    <3> QED BY <2>2, <3>4 DEF Leaked
  <2> QED BY <2>1, <2>2
<1>2. ShutInv => OrderlyShutdown
  BY <1>1 DEF OrderlyShutdown
<1> QED BY <1>2, ShutInvariant, PTL

(* Until dynoc_destroy frees something, cancelling reconnect_thread, which *)
(* may stop it inside the critical section of a connection, breaks none of *)
(* the pool's guarantees.                                                  *)
THEOREM SafeUntilFirstFree ==
    ShutSpec => [](nodesFreed = {} => ExclusiveUse /\ ContextOwnership /\ ServedByOwner)
<1>1. IInv => ExclusiveUse
  BY DEF IInv, LockHeld, ExclusiveUse
<1>2. ShutInv => (nodesFreed = {} => ExclusiveUse /\ ContextOwnership /\ ServedByOwner)
  BY <1>1 DEF ShutInv, IntactPool, IInv
<1> QED BY <1>2, ShutInvariant, PTL
=============================================================================
