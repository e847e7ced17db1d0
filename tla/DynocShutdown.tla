--------------------------- MODULE DynocShutdown ---------------------------
(***************************************************************************)
(* The whole life of a dynoc client, as in multi-thread-example.c: the     *)
(* main thread starts it, application threads run commands, the main       *)
(* thread joins them and calls dynoc_destroy.  dynoc_destroy cancels       *)
(* reconnect_thread, does not join it, and frees what it works on.         *)
(*                                                                         *)
(* What happens after a thread touches freed memory is undefined; the      *)
(* model stops there with `fault`.                                         *)
(***************************************************************************)
EXTENDS DynocPool

VARIABLES
    mpc,         \* main thread: "run", or its place in dynoc_destroy
    dpos,        \* slot that rack_destroy has come to
    nodesFreed,  \* racks whose continuum array has been freed
    poolFreed,   \* racks whose redis_conn_pool has been freed
    destroyed,   \* slots whose mutex has been destroyed
    keeper,      \* reconnect_thread: "running", "cancelled" or "ended"
    inCall,      \* the cancellation reached it inside a blocking call
    early,       \* history: it ended before anything was freed
    fault        \* freed memory was used or freed again

mainVars == <<mpc, dpos, nodesFreed, poolFreed, destroyed>>
cancelVars == <<keeper, inCall>>
shutVars == <<mainVars, cancelVars, early, fault>>
allVars == <<vars, shutVars>>

ShutTypeOK ==
    /\ TypeOK
    /\ mpc \in {"run", "nodes", "slots", "pool", "done"}
    /\ dpos \in Slots
    /\ nodesFreed \subseteq Racks /\ poolFreed \subseteq nodesFreed
    /\ destroyed \subseteq Slots
    /\ keeper \in {"running", "cancelled", "ended"}
    /\ inCall \in BOOLEAN /\ early \in BOOLEAN /\ fault \in BOOLEAN

ShutInit ==
    /\ Init
    /\ mpc = "run" /\ dpos = FirstSlot
    /\ nodesFreed = {} /\ poolFreed = {} /\ destroyed = {}
    /\ keeper = "running" /\ inCall = FALSE
    /\ early = FALSE /\ fault = FALSE

(***************************************************************************)
(* reconnect_thread.  A cancellation is acted upon in sleep, connect and   *)
(* the reads and writes of redisCommand, not in pthread_mutex_lock.  A     *)
(* call that was about to return when pthread_cancel came still returns;   *)
(* the next one does not begin.                                            *)
(***************************************************************************)
InBlockingCall == kpc \in {"sleep", "locked", "connect", "auth"}

(* The memory the keeper is about to use.                                  *)
UsesPool == kpc \in {"lock", "locked", "connect", "auth"}
UsesNode == kpc = "auth" \/ Reconnecting

KeeperOnFreedMemory ==
    \/ UsesPool /\ RackOf(kpos) \in poolFreed
    \/ UsesNode /\ RackOf(kpos) \in nodesFreed
    \/ kpc = "lock" /\ kpos \in destroyed

MayGoOn == keeper = "running" \/ (keeper = "cancelled" /\ inCall)

KeeperPass ==
    /\ PassStep /\ MayGoOn /\ ~KeeperOnFreedMemory
    /\ inCall' = FALSE
    /\ UNCHANGED <<mainVars, keeper, early, fault>>

KeeperTakesLock ==
    /\ KeeperLock /\ keeper # "ended" /\ ~KeeperOnFreedMemory
    /\ UNCHANGED shutVars

(* Wherever the thread stands it reads the slot or the node again before   *)
(* the next cancellation point, with or without a pending cancellation.    *)
KeeperFaults ==
    /\ keeper # "ended" /\ KeeperOnFreedMemory
    /\ fault' = TRUE
    /\ UNCHANGED <<vars, mainVars, cancelVars, early>>

KeeperEnds ==
    /\ keeper = "cancelled" /\ InBlockingCall
    /\ keeper' = "ended" /\ inCall' = FALSE
    /\ UNCHANGED <<vars, mainVars, early, fault>>

(***************************************************************************)
(* main and dynoc_destroy.                                                 *)
(***************************************************************************)
Joined == \A c \in Clients : pc[c] = "idle"

Application ==
    /\ mpc = "run"
    /\ StartStep \/ \E c \in Clients : Invoke(c) \/ ClientStep(c) \/ ClientLock(c) \/ Serve(c)
    /\ UNCHANGED shutVars

Cancel ==
    /\ mpc = "run" /\ ~Starting /\ Joined
    /\ mpc' = "nodes" /\ dpos' = FirstSlot
    /\ keeper' = "cancelled" /\ inCall' = InBlockingCall
    /\ UNCHANGED <<vars, nodesFreed, poolFreed, destroyed, early, fault>>

(* rack_destroy: continuum_destroy on every node, then free(continuum).    *)
FreeNodes ==
    /\ mpc = "nodes"
    /\ nodesFreed' = nodesFreed \cup {RackOf(dpos)}
    /\ early' = IF nodesFreed = {} THEN keeper = "ended" ELSE early
    /\ mpc' = "slots"
    /\ UNCHANGED <<vars, dpos, poolFreed, destroyed, cancelVars, fault>>

(* rack_destroy: one turn of the loop over redis_conn_pool.                *)
AfterSlot ==
    LET n == NextSlot(NodeCount, dpos) IN
    IF n # NULL /\ RackOf(n) = RackOf(dpos)
    THEN mpc' = "slots" /\ dpos' = n
    ELSE mpc' = "pool" /\ UNCHANGED dpos

SkipSlot ==
    /\ mpc = "slots" /\ ctx[dpos] = NULL
    /\ AfterSlot
    /\ UNCHANGED <<vars, nodesFreed, poolFreed, destroyed, cancelVars, early, fault>>

(* The context is freed already, or the health check is using it.          *)
Busy(s) ==
    \/ heap[ctx[s]] = "free"
    \/ lock[s] = Keeper /\ keeper # "ended"

(* pthread_mutex_destroy, redisFree.  A thread that has ended inside PING,  *)
(* connect or AUTH has left the mutex locked.  POSIX does not define what  *)
(* destroying it does (glibc returns EBUSY and changes nothing); `fault`   *)
(* is about memory, and does not cover that.                               *)
CloseSlot ==
    /\ mpc = "slots" /\ ctx[dpos] # NULL /\ ~Busy(dpos)
    /\ redisFree(ctx[dpos])
    /\ destroyed' = destroyed \cup {dpos}
    /\ AfterSlot
    /\ UNCHANGED <<poolVars, srvVars, keeperVars, clientVars,
                   nodesFreed, poolFreed, cancelVars, early, fault>>

CloseFaults ==
    /\ mpc = "slots" /\ ctx[dpos] # NULL /\ Busy(dpos)
    /\ fault' = TRUE
    /\ UNCHANGED <<vars, mainVars, cancelVars, early>>

(* Mutant: only the racks of the first datacenter are destroyed.           *)
FreePool_OneDC ==
    LET n == NextSlot(NodeCount, dpos) IN
    /\ mpc = "pool"
    /\ poolFreed' = poolFreed \cup {RackOf(dpos)}
    /\ IF n = NULL \/ n[1] # dpos[1] THEN mpc' = "done" /\ UNCHANGED dpos
       ELSE mpc' = "nodes" /\ dpos' = n
    /\ UNCHANGED <<vars, nodesFreed, destroyed, cancelVars, early, fault>>

(* Mutant: the second datacenter_destroy is given local_dc again.          *)
FreePool_LocalAgain ==
    LET n == NextSlot(NodeCount, dpos) IN
    /\ mpc = "pool"
    /\ poolFreed' = poolFreed \cup {RackOf(dpos)}
    /\ IF n = NULL THEN mpc' = "done" /\ UNCHANGED dpos
       ELSE mpc' = "nodes" /\ dpos' = IF n[1] = dpos[1] THEN n ELSE FirstSlot
    /\ UNCHANGED <<vars, nodesFreed, destroyed, cancelVars, early, fault>>

(* free(redis_conn_pool), then the next rack or datacenter.                *)
FreePool ==
    LET n == NextSlot(NodeCount, dpos) IN
    /\ mpc = "pool"
    /\ poolFreed' = poolFreed \cup {RackOf(dpos)}
    /\ IF n = NULL THEN mpc' = "done" /\ UNCHANGED dpos
       ELSE mpc' = "nodes" /\ dpos' = n
    /\ UNCHANGED <<vars, nodesFreed, destroyed, cancelVars, early, fault>>

Destroy == FreeNodes \/ SkipSlot \/ CloseSlot \/ CloseFaults \/ FreePool

Servers == \E s \in Filled : (Crash(s) \/ Recover(s)) /\ UNCHANGED shutVars

ShutNext ==
    /\ ~fault
    /\ \/ Application \/ Cancel \/ Destroy
       \/ KeeperPass \/ KeeperTakesLock \/ KeeperFaults \/ KeeperEnds
       \/ Servers

ShutSpec == ShutInit /\ [][ShutNext]_allVars

(* Both threads keep running; nobody else holds a mutex any more.          *)
ShutFairSpec ==
    /\ ShutSpec
    /\ WF_allVars(~fault /\ Destroy) /\ WF_allVars(~fault /\ KeeperEnds)
    /\ WF_allVars(~fault /\ KeeperTakesLock) /\ WF_allVars(~fault /\ KeeperFaults)

-----------------------------------------------------------------------------
(* When reconnect_thread has ended before the first free (what joining it  *)
(* would guarantee) dynoc_destroy uses no freed memory, frees nothing      *)
(* twice, and when it returns every connection of every rack is closed;    *)
(* only contexts lost to a failed or interrupted AUTH stay open.  Mutexes  *)
(* the thread left locked are another matter, see CloseSlot.               *)
OrderlyShutdown ==
    early => /\ ~fault
             /\ mpc = "done" =>
                   \A x \in Contexts : heap[x] # "free" => x \in Leaked \cup {kctx}

(* After pthread_cancel both threads come to an end.                       *)
ShutdownEnds ==
    keeper = "cancelled" ~> fault \/ (mpc = "done" /\ keeper = "ended")

(* dynoc_destroy may be called while reconnect_thread runs:                 *)
(* multi-thread-example.c:116 does it right after joining its own threads,  *)
(* and nothing in the interface stops reconnect_thread before.              *)
ShutdownSafe == ~fault
=============================================================================
