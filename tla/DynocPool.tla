------------------------------ MODULE DynocPool ------------------------------
(***************************************************************************)
(* The connection pool of a running dynoc client (src/dynoc-core.c and     *)
(* src/dynoc-cmd.c).  Application threads issue Redis commands; each one   *)
(* walks over the racks, picks the token owner of its key in every rack    *)
(* and tries that node's single pooled connection under its mutex.  A      *)
(* second actor, the keeper, owns the connections: first as the            *)
(* application thread inside dynoc_start, then as reconnect_thread, which  *)
(* pings every connection and reopens the dead ones.  Servers crash and    *)
(* come back at any time.                                                  *)
(***************************************************************************)
EXTENDS Naturals, Sequences, FiniteSets

CONSTANTS
    Clients,    \* application threads that share one struct dynoc
    Keys,       \* key arguments
    DCs,        \* the datacenters that dynoc_datacenter_init has created
    RackCount,  \* dc->rack_count
    NodeCount,  \* rack->node_count: the slots of redis_conn_pool
    NContinuum, \* rack->ncontinuum: the nodes that dynoc_add_node filled in
    Route,      \* Route[k][r]: the index select_continuum returns for key k
    Protected,  \* pool slots whose endpoint has a password
    Rejecting,  \* those among them whose server refuses that password
    Contexts,   \* redisContexts, numbered by the socket descriptor they hold
    NULL,
    MaxCalls,   \* bound: commands issued by one thread
    MaxCrashes  \* bound: crashes of servers

LOCAL_DC  == "LOCAL_DC"
REMOTE_DC == "REMOTE_DC"
VALID     == 1
INVALID   == 0

(* The reconnect thread, and before it the thread that runs dynoc_start.   *)
Keeper == "keeper"

(* Racks <<dc, i>> and pool slots <<dc, i, j>>, numbered from 0 as in the  *)
(* code.  The slot stands for redis_conn_pool[j], for continuum[j] and for *)
(* the server that this continuum entry names.                             *)
Racks == UNION {{<<d, i>> : i \in 0..(RackCount[d] - 1)} : d \in DCs}
Slots == UNION {{<<r[1], r[2], j>> : j \in 0..(NodeCount[r] - 1)} : r \in Racks}
RackOf(s) == <<s[1], s[2]>>
Filled == {s \in Slots : s[3] < NContinuum[RackOf(s)]}

(* Topologies the configuration calls can build without undefined          *)
(* behaviour: every rack was initialised and holds 1..node_count nodes.    *)
ASSUME TopologyAssumption ==
    /\ DCs \subseteq {LOCAL_DC, REMOTE_DC} /\ DCs # {}
    /\ RackCount \in [DCs -> Nat \ {0}]
    /\ NodeCount \in [Racks -> Nat \ {0}]
    /\ NContinuum \in [Racks -> Nat \ {0}]
    /\ \A r \in Racks : NContinuum[r] <= NodeCount[r]

ASSUME RouteAssumption ==
    /\ Route \in [Keys -> [Racks -> Nat]]
    /\ \A k \in Keys, r \in Racks : Route[k][r] < NContinuum[r]

ASSUME ServerAssumption == Protected \subseteq Filled /\ Rejecting \subseteq Protected

ASSUME ContextAssumption == Contexts \subseteq Nat

ASSUME NullAssumption ==
    /\ Keeper \notin Clients
    /\ NULL \notin Clients /\ NULL # Keeper
    /\ NULL \notin Keys /\ NULL \notin Contexts /\ NULL \notin Slots

ASSUME BoundAssumption == MaxCalls \in Nat /\ MaxCrashes \in Nat

(* The slot that owns key k in rack r.                                     *)
Owner(k, r) == <<r[1], r[2], Route[k][r]>>

VARIABLES
    status,   \* redis_conn->status of each slot
    ctx,      \* redis_conn->ctx of each slot
    lock,     \* holder of redis_conn->lock of each slot
    heap,     \* state of each redisContext: free, open, or broken (err # 0)
    peer,     \* the server a redisContext was connected to
    up,       \* the servers that are running
    crashes,
    kpc, kpos, kstatus, kctx,   \* keeper: control, slot, `status`, new ctx
    pc,       \* control point of each application thread
    key, dc_type, rc_idx, conn, \* its locals in the current command
    answer,   \* what the server has done with the command in flight
    ret,      \* what the last command returned
    tried,    \* history: racks the current command has selected, in order
    exec,     \* history: how often each server executed the current command
    calls

poolVars   == <<status, ctx, lock>>
netVars    == <<heap, peer>>
srvVars    == <<up, crashes>>
keeperVars == <<kpc, kpos, kstatus, kctx>>
walkVars   == <<key, dc_type, rc_idx, conn, tried, calls>>
clientVars == <<pc, walkVars, answer, ret, exec>>
vars == <<poolVars, netVars, srvVars, keeperVars, clientVars>>

Threads == Clients \cup {Keeper}

TypeOK ==
    /\ status \in [Slots -> {VALID, INVALID}]
    /\ ctx \in [Slots -> Contexts \cup {NULL}]
    /\ lock \in [Slots -> Threads \cup {NULL}]
    /\ heap \in [Contexts -> {"free", "open", "broken"}]
    /\ peer \in [Contexts -> Slots \cup {NULL}]
    /\ up \subseteq Filled
    /\ crashes \in 0..MaxCrashes
    /\ kpc \in {"init", "init_auth", "sleep", "lock", "locked", "connect", "auth"}
    /\ kpos \in Slots
    /\ kstatus \in {VALID, INVALID}
    /\ kctx \in Contexts \cup {NULL}
    /\ pc \in [Clients -> {"idle", "select", "lock", "locked", "wait"}]
    /\ key \in [Clients -> Keys \cup {NULL}]
    /\ dc_type \in [Clients -> {LOCAL_DC, REMOTE_DC}]
    /\ rc_idx \in [Clients -> Nat]
    /\ conn \in [Clients -> Slots \cup {NULL}]
    /\ answer \in [Clients -> {"none", "ok", "error"}]
    /\ ret \in [Clients -> {"none", "ok", "fail"}]
    /\ tried \in [Clients -> Seq(Racks)]
    /\ exec \in [Clients -> [Slots -> Nat]]
    /\ calls \in [Clients -> 0..MaxCalls]

(***************************************************************************)
(* Nested loops of the keeper: local datacenter before the remote one,     *)
(* racks in order, slots in order; `count` is the bound of the inner loop. *)
(***************************************************************************)
FirstSlot == <<IF LOCAL_DC \in DCs THEN LOCAL_DC ELSE REMOTE_DC, 0, 0>>

(* Mutant: `j <= count`.                                                   *)
NextSlot_OneMore(count, s) ==
    IF s[3] < count[RackOf(s)] THEN <<s[1], s[2], s[3] + 1>>
    ELSE IF s[2] + 1 < RackCount[s[1]] THEN <<s[1], s[2] + 1, 0>>
    ELSE IF s[1] = LOCAL_DC /\ REMOTE_DC \in DCs THEN <<REMOTE_DC, 0, 0>>
    ELSE NULL

NextSlot(count, s) ==
    IF s[3] + 1 < count[RackOf(s)] THEN <<s[1], s[2], s[3] + 1>>
    ELSE IF s[2] + 1 < RackCount[s[1]] THEN <<s[1], s[2] + 1, 0>>
    ELSE IF s[1] = LOCAL_DC /\ REMOTE_DC \in DCs THEN <<REMOTE_DC, 0, 0>>
    ELSE NULL

Init ==
    /\ status = [s \in Slots |-> INVALID]
    /\ ctx = [s \in Slots |-> NULL]
    /\ lock = [s \in Slots |-> NULL]
    /\ heap = [x \in Contexts |-> "free"]
    /\ peer = [x \in Contexts |-> NULL]
    /\ up \in SUBSET Filled
    /\ crashes = 0
    /\ kpc = "init" /\ kpos = FirstSlot /\ kstatus = VALID /\ kctx = NULL
    /\ pc = [c \in Clients |-> "idle"]
    /\ key = [c \in Clients |-> NULL]
    /\ dc_type = [c \in Clients |-> LOCAL_DC]
    /\ rc_idx = [c \in Clients |-> 0]
    /\ conn = [c \in Clients |-> NULL]
    /\ answer = [c \in Clients |-> "none"]
    /\ ret = [c \in Clients |-> "none"]
    /\ tried = [c \in Clients |-> <<>>]
    /\ exec = [c \in Clients |-> [s \in Slots |-> 0]]
    /\ calls = [c \in Clients |-> 0]

(***************************************************************************)
(* hiredis, as the code uses it.                                           *)
(***************************************************************************)
(* redisConnectWithTimeout can succeed when the server runs, and takes the *)
(* lowest free descriptor.  It may always fail: refused, timed out after   *)
(* 3 s, no descriptor left, or a slot without a node, whose host is NULL.  *)
Connect(s, x) ==
    /\ s \in up /\ heap[x] = "free"
    /\ \A y \in Contexts : heap[y] = "free" => x <= y
    /\ heap' = [heap EXCEPT ![x] = "open"]
    /\ peer' = [peer EXCEPT ![x] = s]

redisFree(x) ==
    /\ heap' = [heap EXCEPT ![x] = "free"]
    /\ peer' = [peer EXCEPT ![x] = NULL]

(* `reply && reply->type != REDIS_REPLY_ERROR && ctx->err == 0`: the new   *)
(* `status` after AUTH on the context the keeper has just opened.          *)
AuthStatus ==
    IF heap[kctx] = "open" /\ kpos \notin Rejecting THEN VALID ELSE INVALID

(* `redis_conn->status = status; redis_conn->ctx = ctx`: whatever context  *)
(* the slot held before is overwritten, not freed.                         *)
Store(x, st) ==
    /\ status' = [status EXCEPT ![kpos] = st]
    /\ ctx' = [ctx EXCEPT ![kpos] = x]

(***************************************************************************)
(* dynoc_start: redis_connection_pool_init on every rack, before the       *)
(* reconnect thread exists.  `status` is a local of                        *)
(* redis_connection_pool_init: VALID at the start of each rack, and a slot *)
(* without password gets the value that the slot before it left behind.    *)
(***************************************************************************)
InitAdvance(st) ==
    LET n == NextSlot(NContinuum, kpos) IN
    IF n = NULL
    THEN kpc' = "sleep" /\ kpos' = FirstSlot /\ kstatus' = VALID
    ELSE /\ kpc' = "init" /\ kpos' = n
         /\ kstatus' = IF RackOf(n) = RackOf(kpos) THEN st ELSE VALID

InitConnectFail ==
    /\ kpc = "init"
    /\ InitAdvance(kstatus)
    /\ UNCHANGED <<poolVars, netVars, srvVars, kctx, clientVars>>

InitConnect(x) ==
    /\ kpc = "init" /\ kpos \notin Protected
    /\ Connect(kpos, x)
    /\ Store(x, kstatus)
    /\ InitAdvance(kstatus)
    /\ UNCHANGED <<lock, srvVars, kctx, clientVars>>

InitConnectForAuth(x) ==
    /\ kpc = "init" /\ kpos \in Protected
    /\ Connect(kpos, x)
    /\ kpc' = "init_auth" /\ kctx' = x
    /\ UNCHANGED <<poolVars, srvVars, kpos, kstatus, clientVars>>

InitAuth ==
    /\ kpc = "init_auth"
    /\ Store(kctx, AuthStatus)
    /\ InitAdvance(AuthStatus)
    /\ kctx' = NULL
    /\ UNCHANGED <<lock, netVars, srvVars, clientVars>>

Starting == kpc \in {"init", "init_auth"}

(***************************************************************************)
(* reconnect_thread: one pass of reconnect_datacenter over each            *)
(* datacenter, then sleep(30).  `status` is a local of                     *)
(* reconnect_datacenter: VALID at the start of each datacenter.            *)
(***************************************************************************)
Unlock(s) == lock' = [lock EXCEPT ![s] = NULL]

(* Mutant: `status` is not reset to VALID for each datacenter and pass.    *)
PassAdvance_StickyStatus(st) ==
    LET n == NextSlot(NodeCount, kpos) IN
    /\ Unlock(kpos)
    /\ kstatus' = st
    /\ IF n = NULL THEN kpc' = "sleep" /\ kpos' = FirstSlot
       ELSE kpc' = "lock" /\ kpos' = n

(* Mutant: the mutex is not released before the next node is visited.      *)
PassAdvance_KeepLock(st) ==
    LET n == NextSlot(NodeCount, kpos) IN
    /\ UNCHANGED lock
    /\ IF n = NULL
       THEN kpc' = "sleep" /\ kpos' = FirstSlot /\ kstatus' = VALID
       ELSE /\ kpc' = "lock" /\ kpos' = n
            /\ kstatus' = IF n[1] = kpos[1] THEN st ELSE VALID

PassAdvance(st) ==
    LET n == NextSlot(NodeCount, kpos) IN
    /\ Unlock(kpos)
    /\ IF n = NULL
       THEN kpc' = "sleep" /\ kpos' = FirstSlot /\ kstatus' = VALID
       ELSE /\ kpc' = "lock" /\ kpos' = n
            /\ kstatus' = IF n[1] = kpos[1] THEN st ELSE VALID

Wake ==
    /\ kpc = "sleep"
    /\ kpc' = "lock"
    /\ UNCHANGED <<poolVars, netVars, srvVars, kpos, kstatus, kctx, clientVars>>

(* Mutant: the health check takes no mutex.                                *)
KeeperLock_None ==
    /\ kpc = "lock"
    /\ kpc' = "locked"
    /\ UNCHANGED <<poolVars, netVars, srvVars, kpos, kstatus, kctx, clientVars>>

KeeperLock ==
    /\ kpc = "lock" /\ lock[kpos] = NULL
    /\ lock' = [lock EXCEPT ![kpos] = Keeper]
    /\ kpc' = "locked"
    /\ UNCHANGED <<status, ctx, netVars, srvVars, kpos, kstatus, kctx, clientVars>>

(* PING answered (an error reply counts as an answer).                     *)
PingAlive ==
    /\ kpc = "locked" /\ status[kpos] = VALID /\ heap[ctx[kpos]] = "open"
    /\ PassAdvance(kstatus)
    /\ UNCHANGED <<status, ctx, netVars, srvVars, kctx, clientVars>>

PingDead ==
    /\ kpc = "locked" /\ status[kpos] = VALID /\ heap[ctx[kpos]] # "open"
    /\ status' = [status EXCEPT ![kpos] = INVALID]
    /\ redisFree(ctx[kpos])
    /\ ctx' = [ctx EXCEPT ![kpos] = NULL]
    /\ kpc' = "connect"
    /\ UNCHANGED <<lock, srvVars, kpos, kstatus, kctx, clientVars>>

(* `if (!redis_conn->status)`, reached after a failed PING too.            *)
Reconnecting ==
    \/ kpc = "connect"
    \/ kpc = "locked" /\ status[kpos] = INVALID

ReconnectFail ==
    /\ Reconnecting
    /\ PassAdvance(kstatus)
    /\ UNCHANGED <<status, ctx, netVars, srvVars, kctx, clientVars>>

Reconnect(x) ==
    /\ Reconnecting /\ kpos \notin Protected
    /\ Connect(kpos, x)
    /\ Store(x, kstatus)
    /\ PassAdvance(kstatus)
    /\ UNCHANGED <<srvVars, kctx, clientVars>>

ReconnectForAuth(x) ==
    /\ Reconnecting /\ kpos \in Protected
    /\ Connect(kpos, x)
    /\ kpc' = "auth" /\ kctx' = x
    /\ UNCHANGED <<poolVars, srvVars, kpos, kstatus, clientVars>>

ReconnectAuth ==
    /\ kpc = "auth"
    /\ Store(kctx, AuthStatus)
    /\ PassAdvance(AuthStatus)
    /\ kctx' = NULL
    /\ UNCHANGED <<netVars, srvVars, clientVars>>

(***************************************************************************)
(* The Redis commands.  The eleven functions differ in the pointers they   *)
(* check for NULL, `args`, and in the text they send.                      *)
(***************************************************************************)
Command(c, args) ==
    /\ ~Starting
    /\ pc[c] = "idle" /\ calls[c] < MaxCalls
    /\ calls' = [calls EXCEPT ![c] = @ + 1]
    /\ dc_type' = [dc_type EXCEPT ![c] = LOCAL_DC]
    /\ rc_idx' = [rc_idx EXCEPT ![c] = 0]
    /\ tried' = [tried EXCEPT ![c] = <<>>]
    /\ exec' = [exec EXCEPT ![c] = [s \in Slots |-> 0]]
    /\ conn' = [conn EXCEPT ![c] = NULL]
    /\ \/ \E k \in Keys :
            /\ key' = [key EXCEPT ![c] = k]
            /\ pc' = [pc EXCEPT ![c] = "select"]
            /\ ret' = [ret EXCEPT ![c] = "none"]
       \/ \E null \in args :
            /\ key' = [key EXCEPT ![c] = NULL]
            /\ ret' = [ret EXCEPT ![c] = "fail"]
            /\ UNCHANGED pc
    /\ UNCHANGED <<poolVars, netVars, srvVars, keeperVars, answer>>

dynoc_set(c)    == Command(c, {"key", "value"})
dynoc_setex(c)  == Command(c, {"key", "value"})
dynoc_psetex(c) == Command(c, {"key", "value"})
dynoc_get(c)    == Command(c, {"key"})
dynoc_del(c)    == Command(c, {"key"})
dynoc_hset(c)   == Command(c, {"key", "field", "value"})
dynoc_hget(c)   == Command(c, {"key", "field"})
dynoc_incr(c)   == Command(c, {"key"})
dynoc_incrby(c) == Command(c, {"key"})
dynoc_decr(c)   == Command(c, {"key"})
dynoc_decrby(c) == Command(c, {"key"})

(* Mutant: the entry after the one select_continuum found.                 *)
Selected_NextNode(c, r, dct, idx) ==
    /\ conn' = [conn EXCEPT ![c] = <<r[1], r[2], (Route[key[c]][r] + 1) % NContinuum[r]>>]
    /\ dc_type' = [dc_type EXCEPT ![c] = dct]
    /\ rc_idx' = [rc_idx EXCEPT ![c] = idx]
    /\ tried' = [tried EXCEPT ![c] = Append(@, r)]
    /\ pc' = [pc EXCEPT ![c] = "lock"]
    /\ UNCHANGED <<poolVars, netVars, srvVars, keeperVars, key, answer, ret, exec, calls>>

(***************************************************************************)
(* select_connection.  Its `dc = dc_type ? local_dc : remote_dc` tests the *)
(* pointer dc_type, never NULL, so `dc` is the local datacenter whatever   *)
(* *dc_type says; the remote one is used only by the call that switches.   *)
(***************************************************************************)
Selected(c, r, dct, idx) ==
    /\ conn' = [conn EXCEPT ![c] = Owner(key[c], r)]
    /\ dc_type' = [dc_type EXCEPT ![c] = dct]
    /\ rc_idx' = [rc_idx EXCEPT ![c] = idx]
    /\ tried' = [tried EXCEPT ![c] = Append(@, r)]
    /\ pc' = [pc EXCEPT ![c] = "lock"]
    /\ UNCHANGED <<poolVars, netVars, srvVars, keeperVars, key, answer, ret, exec, calls>>

SelectLocal(c) ==
    /\ pc[c] = "select"
    /\ LOCAL_DC \in DCs /\ rc_idx[c] < RackCount[LOCAL_DC]
    /\ Selected(c, <<LOCAL_DC, rc_idx[c]>>, dc_type[c], rc_idx[c] + 1)

SwitchesToRemote(c) ==
    /\ LOCAL_DC \in DCs /\ rc_idx[c] >= RackCount[LOCAL_DC]
    /\ dc_type[c] = LOCAL_DC /\ REMOTE_DC \in DCs

(* Mutant: `*rc_idx` is not advanced past the remote rack.                 *)
SelectRemote_NoAdvance(c) ==
    /\ pc[c] = "select" /\ SwitchesToRemote(c)
    /\ Selected(c, <<REMOTE_DC, 0>>, REMOTE_DC, 0)

(* Mutant: `*dc_type` is not set to REMOTE_DC.                             *)
SelectRemote_NoSwitch(c) ==
    /\ pc[c] = "select" /\ SwitchesToRemote(c)
    /\ Selected(c, <<REMOTE_DC, 0>>, LOCAL_DC, 1)

SelectRemote(c) ==
    /\ pc[c] = "select" /\ SwitchesToRemote(c)
    /\ Selected(c, <<REMOTE_DC, 0>>, REMOTE_DC, 1)

(* Mutant: NULL as soon as the local racks are used up.                    *)
GiveUp_NoRemote(c) ==
    /\ pc[c] = "select"
    /\ LOCAL_DC \in DCs => rc_idx[c] >= RackCount[LOCAL_DC]
    /\ pc' = [pc EXCEPT ![c] = "idle"]
    /\ ret' = [ret EXCEPT ![c] = "fail"]
    /\ UNCHANGED <<poolVars, netVars, srvVars, keeperVars, walkVars, answer, exec>>

(* select_connection returned NULL: the command returns -1 (or NULL), and  *)
(* its dc_type and rc_idx die with it.                                     *)
GiveUp(c) ==
    /\ pc[c] = "select"
    /\ LOCAL_DC \in DCs => rc_idx[c] >= RackCount[LOCAL_DC]
    /\ ~SwitchesToRemote(c)
    /\ pc' = [pc EXCEPT ![c] = "idle"]
    /\ ret' = [ret EXCEPT ![c] = "fail"]
    /\ UNCHANGED <<poolVars, netVars, srvVars, keeperVars, walkVars, answer, exec>>

(* Mutant: the command does not wait for the mutex.                        *)
ClientLock_NoWait(c) ==
    /\ pc[c] = "lock"
    /\ lock' = [lock EXCEPT ![conn[c]] = c]
    /\ pc' = [pc EXCEPT ![c] = "locked"]
    /\ UNCHANGED <<status, ctx, netVars, srvVars, keeperVars, walkVars, answer, ret, exec>>

ClientLock(c) ==
    /\ pc[c] = "lock" /\ lock[conn[c]] = NULL
    /\ lock' = [lock EXCEPT ![conn[c]] = c]
    /\ pc' = [pc EXCEPT ![c] = "locked"]
    /\ UNCHANGED <<status, ctx, netVars, srvVars, keeperVars, walkVars, answer, ret, exec>>

(* Mutant: an INVALID connection is skipped without pthread_mutex_unlock.  *)
SkipInvalid_NoUnlock(c) ==
    /\ pc[c] = "locked" /\ status[conn[c]] = INVALID
    /\ pc' = [pc EXCEPT ![c] = "select"]
    /\ UNCHANGED <<poolVars, netVars, srvVars, keeperVars, walkVars, answer, ret, exec>>

SkipInvalid(c) ==
    /\ pc[c] = "locked" /\ status[conn[c]] = INVALID
    /\ Unlock(conn[c])
    /\ pc' = [pc EXCEPT ![c] = "select"]
    /\ UNCHANGED <<status, ctx, netVars, srvVars, keeperVars, walkVars, answer, ret, exec>>

(* redisCommand has written the request and waits for the reply.           *)
Send(c) ==
    /\ pc[c] = "locked" /\ status[conn[c]] = VALID
    /\ pc' = [pc EXCEPT ![c] = "wait"]
    /\ answer' = [answer EXCEPT ![c] = "none"]
    /\ UNCHANGED <<poolVars, netVars, srvVars, keeperVars, walkVars, ret, exec>>

Increment(counts, s) == [counts EXCEPT ![s] = @ + 1]
Executed(c, s) == exec' = [exec EXCEPT ![c] = Increment(exec[c], s)]

(* The server executes the command, or refuses it with an error reply.     *)
Serve(c) ==
    /\ pc[c] = "wait" /\ answer[c] = "none" /\ heap[ctx[conn[c]]] = "open"
    /\ \/ /\ answer' = [answer EXCEPT ![c] = "ok"]
          /\ Executed(c, peer[ctx[conn[c]]])
       \/ /\ answer' = [answer EXCEPT ![c] = "error"]
          /\ UNCHANGED exec
    /\ UNCHANGED <<poolVars, netVars, srvVars, keeperVars, pc, walkVars, ret>>

Succeed(c) ==
    /\ pc[c] = "wait" /\ answer[c] = "ok"
    /\ Unlock(conn[c])
    /\ pc' = [pc EXCEPT ![c] = "idle"]
    /\ ret' = [ret EXCEPT ![c] = "ok"]
    /\ answer' = [answer EXCEPT ![c] = "none"]
    /\ UNCHANGED <<status, ctx, netVars, srvVars, keeperVars, walkVars, exec>>

(* Mutants: the freed context stays in the slot; the context is dropped    *)
(* without redisFree.                                                      *)
reset_redis_connection_Dangling(s) ==
    /\ status' = [status EXCEPT ![s] = INVALID]
    /\ redisFree(ctx[s])
    /\ UNCHANGED ctx

reset_redis_connection_NoFree(s) ==
    /\ status' = [status EXCEPT ![s] = INVALID]
    /\ ctx' = [ctx EXCEPT ![s] = NULL]
    /\ UNCHANGED netVars

reset_redis_connection(s) ==
    /\ status' = [status EXCEPT ![s] = INVALID]
    /\ redisFree(ctx[s])
    /\ ctx' = [ctx EXCEPT ![s] = NULL]

(* Mutant: the failure path forgets pthread_mutex_unlock.                  *)
FailOver_NoUnlock(c) ==
    /\ pc[c] = "wait"
    /\ answer[c] = "error" \/ heap[ctx[conn[c]]] = "broken"
    /\ reset_redis_connection(conn[c])
    /\ pc' = [pc EXCEPT ![c] = "select"]
    /\ answer' = [answer EXCEPT ![c] = "none"]
    /\ UNCHANGED <<lock, srvVars, keeperVars, walkVars, ret, exec>>

(* An error reply, or no reply because the context broke, before or after  *)
(* the server executed the command.                                        *)
FailOver(c) ==
    /\ pc[c] = "wait"
    /\ answer[c] = "error" \/ heap[ctx[conn[c]]] = "broken"
    /\ reset_redis_connection(conn[c])
    /\ Unlock(conn[c])
    /\ pc' = [pc EXCEPT ![c] = "select"]
    /\ answer' = [answer EXCEPT ![c] = "none"]
    /\ UNCHANGED <<srvVars, keeperVars, walkVars, ret, exec>>

(***************************************************************************)
(* The servers.                                                            *)
(***************************************************************************)
Crash(s) ==
    /\ s \in up /\ crashes < MaxCrashes
    /\ up' = up \ {s}
    /\ crashes' = crashes + 1
    /\ heap' = [x \in Contexts |->
                  IF heap[x] = "open" /\ peer[x] = s THEN "broken" ELSE heap[x]]
    /\ UNCHANGED <<poolVars, peer, keeperVars, clientVars>>

Recover(s) ==
    /\ s \in Filled \ up
    /\ up' = up \cup {s}
    /\ UNCHANGED <<poolVars, netVars, crashes, keeperVars, clientVars>>

-----------------------------------------------------------------------------
StartStep ==
    \/ InitConnectFail
    \/ \E x \in Contexts : InitConnect(x) \/ InitConnectForAuth(x)
    \/ InitAuth

PassStep ==
    \/ Wake \/ PingAlive \/ PingDead \/ ReconnectFail \/ ReconnectAuth
    \/ \E x \in Contexts : Reconnect(x) \/ ReconnectForAuth(x)

Invoke(c) ==
    \/ dynoc_set(c) \/ dynoc_setex(c) \/ dynoc_psetex(c) \/ dynoc_get(c)
    \/ dynoc_del(c) \/ dynoc_hset(c) \/ dynoc_hget(c) \/ dynoc_incr(c)
    \/ dynoc_incrby(c) \/ dynoc_decr(c) \/ dynoc_decrby(c)

ClientStep(c) ==
    \/ SelectLocal(c) \/ SelectRemote(c) \/ GiveUp(c)
    \/ SkipInvalid(c) \/ Send(c) \/ Succeed(c) \/ FailOver(c)

Next ==
    \/ StartStep \/ PassStep \/ KeeperLock
    \/ \E c \in Clients : Invoke(c) \/ ClientStep(c) \/ ClientLock(c) \/ Serve(c)
    \/ \E s \in Filled : Crash(s) \/ Recover(s)

Spec == Init /\ [][Next]_vars

(***************************************************************************)
(* Every thread keeps running.  A blocked pthread_mutex_lock needs strong  *)
(* fairness: the keeper takes and releases each mutex in every pass, but   *)
(* between two passes it sleeps 30 s, during which a waiter gets it.  A    *)
(* server that holds a request on an open connection answers it, and one   *)
(* that the keeper asks again and again for a connection accepts one.      *)
(***************************************************************************)
ConnectTo(s) == kpos = s /\ \E x \in Contexts : Reconnect(x) \/ ReconnectForAuth(x)

Fairness ==
    /\ \A s \in Filled : SF_vars(ConnectTo(s))
    /\ WF_vars(StartStep) /\ WF_vars(PassStep) /\ SF_vars(KeeperLock)
    /\ \A c \in Clients :
         /\ WF_vars(ClientStep(c)) /\ WF_vars(Serve(c))
         /\ SF_vars(ClientLock(c))

FairSpec == Spec /\ Fairness

-----------------------------------------------------------------------------
(***************************************************************************)
(* Properties.                                                             *)
(***************************************************************************)

(* Thread t is between pthread_mutex_lock and pthread_mutex_unlock of s.   *)
Uses(t, s) ==
    \/ t \in Clients /\ pc[t] \in {"locked", "wait"} /\ conn[t] = s
    \/ t = Keeper /\ kpc \in {"locked", "connect", "auth"} /\ kpos = s

(* hiredis contexts are not thread safe: no two threads, commands or       *)
(* health check, are ever inside the critical section of one connection.   *)
ExclusiveUse ==
    \A s \in Slots, t, u \in Threads : Uses(t, s) /\ Uses(u, s) => t = u

(* No mutex stays locked behind its thread: the holder is always between   *)
(* lock and unlock of that connection, whichever way it leaves again, so   *)
(* no thread waits for one mutex while it holds another.                   *)
MutexReleased == \A s \in Slots : lock[s] # NULL => Uses(lock[s], s)

(* The pool never holds a dangling, shared or foreign context: a slot's    *)
(* ctx is allocated, belongs to that slot alone and talks to the slot's    *)
(* own node, and a slot marked VALID has one, so redisCommand and PING     *)
(* never see a NULL or freed context.                                      *)
ContextOwnership ==
    /\ \A s \in Slots : status[s] = VALID => ctx[s] # NULL
    /\ \A s \in Slots : ctx[s] # NULL => heap[ctx[s]] # "free" /\ peer[ctx[s]] = s
    /\ \A s, t \in Slots : ctx[s] # NULL /\ ctx[s] = ctx[t] => s = t

(* Token awareness: whatever interleaving of failover, reset and reconnect *)
(* happened, a command is executed only by servers that own its key.       *)
ServedByOwner ==
    \A c \in Clients, s \in Slots :
        exec[c][s] > 0 => key[c] # NULL /\ s = Owner(key[c], RackOf(s))

(* A server executes one command at most once, except the owner in a local *)
(* rack other than the first: select_connection comes back to those racks  *)
(* after the remote datacenter, and the keeper may have reopened the       *)
(* connection in between.                                                  *)
ReexecutionBound ==
    \A c \in Clients, s \in Slots :
        exec[c][s] <= IF s[1] = LOCAL_DC /\ s[2] > 0 THEN 2 ELSE 1

(* Failover order: the remote datacenter is asked only after every local   *)
(* rack, and a command gives up only after every local rack and the first  *)
(* remote one.                                                             *)
FailoverOrder ==
    \A c \in Clients :
        LET seen(n) == {tried[c][m] : m \in 1..n}
            local   == {r \in Racks : r[1] = LOCAL_DC} IN
        /\ \A n \in 1..Len(tried[c]) :
              tried[c][n][1] = REMOTE_DC => local \subseteq seen(n)
        /\ (ret[c] = "fail" /\ key[c] # NULL /\ LOCAL_DC \in DCs) =>
              local \cup {r \in Racks : r = <<REMOTE_DC, 0>>} \subseteq seen(Len(tried[c]))

(* Slot p is visited by reconnect_datacenter no later than s.              *)
NoLaterThan(p, s) ==
    /\ p[1] = s[1]
    /\ p[2] < s[2] \/ (p[2] = s[2] /\ p[3] <= s[3])
Suspect(s) == \E p \in Protected : NoLaterThan(p, s)

(* Contexts no pool slot and no local variable refers to any more.         *)
Leaked == {x \in Contexts : heap[x] # "free" /\ x # kctx /\ \A s \in Slots : ctx[s] # x}

(* Connections leak only where AUTH is involved: a lost context belongs to *)
(* a slot that has a password or comes after one that has, in the same     *)
(* datacenter.  A client without passwords never leaks a connection.       *)
LeakNeedsPassword == \A x \in Leaked : Suspect(peer[x])

(* A step changes a connection only when its thread holds that             *)
(* connection's mutex (dynoc_start, single threaded, takes none).          *)
ChangedByHolder ==
    [][\A s \in Slots :
          (status'[s] # status[s] \/ ctx'[s] # ctx[s]) =>
             Starting \/ (lock[s] # NULL /\ Uses(lock[s], s))]_vars

(* While one thread waits for a reply no other thread frees or replaces    *)
(* the context it waits on.                                                *)
NoFreeUnderCommand ==
    [][\A c \in Clients :
          pc[c] = "wait" /\ pc'[c] = "wait" =>
             ctx'[conn[c]] = ctx[conn[c]] /\ heap'[ctx[conn[c]]] # "free"]_vars

(* The racks select_connection can still choose for c's command: the local *)
(* ones from rc_idx on and, before the turn through the remote datacenter, *)
(* as many again for that turn and the local racks after it.               *)
RacksAhead(c) ==
    LET racks == IF LOCAL_DC \in DCs THEN RackCount[LOCAL_DC] ELSE 0
        local == IF rc_idx[c] < racks THEN racks - rc_idx[c] ELSE 0 IN
    IF dc_type[c] = LOCAL_DC THEN local + racks ELSE local

(* A bound on the steps c's command still takes.                           *)
StepsAhead(c) ==
    (CASE pc[c] = "idle" -> 0 [] pc[c] = "select" -> 1 [] pc[c] = "wait" -> 2
       [] pc[c] = "locked" -> 3 [] pc[c] = "lock" -> 4) + 4 * RacksAhead(c)

(* The walk over the racks ends, although dc_type sends it back to racks   *)
(* it has visited: every step of a command brings it closer to its return. *)
WalkShortens ==
    [][\A c \in Clients :
          pc[c] # "idle" /\ pc'[c] # pc[c] => StepsAhead(c)' < StepsAhead(c)]_vars

(* Every command returns, whatever fails meanwhile.                        *)
CommandReturns == \A c \in Clients : pc[c] = "select" ~> pc[c] = "idle"

(* Node s has a valid connection again and again, unless it keeps failing. *)
Recovers(s) == <>[](s \in up) => []<>(status[s] = VALID)

(* Health check: if no server refuses its password, every node that stays  *)
(* up gets a valid connection again.  One that refuses it would mark nodes *)
(* behind it INVALID (`status` in reconnect_datacenter) and cost a         *)
(* descriptor in every pass.  There have to be enough descriptors for all  *)
(* nodes and for the contexts lost to interrupted AUTHs.                   *)
HealthyNodeRecovers == Rejecting = {} => \A s \in Filled : Recovers(s)

(* Health check without that hypothesis, for the nodes that `status` does  *)
(* not spoil: one that no refusing server precedes in its datacenter is    *)
(* connected again, whatever other servers answer to AUTH.                 *)
RecoversBesideRejecting ==
    \A s \in Filled :
        (\A p \in Rejecting : ~NoLaterThan(p, s)) => Recovers(s)

(* A command that fails has tried the owner in every configured rack.      *)
EveryRackTried ==
    \A c \in Clients :
        ret[c] = "fail" /\ key[c] # NULL =>
            \A r \in Racks : \E n \in 1..Len(tried[c]) : tried[c][n] = r

(* A node without password that has just been reconnected is usable.       *)
ReconnectedIsValid ==
    [][\A s \in Filled \ Protected :
          ctx'[s] # ctx[s] /\ ctx'[s] # NULL => status'[s] = VALID]_vars

(* A command invalidates a connection only when that connection is broken. *)
InvalidatedOnlyWhenDown ==
    [][\A s \in Slots :
          status[s] = VALID /\ status'[s] = INVALID => heap[ctx[s]] # "open"]_vars
=============================================================================
