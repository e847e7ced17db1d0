----------------------------- MODULE DynocHang -----------------------------
(***************************************************************************)
(* DynocPool with servers that stop answering without closing their        *)
(* connections (a stopped process, a host that vanished).  redisCommand    *)
(* has no timeout in this code, only redisConnectWithTimeout has one, so   *)
(* whoever waits for a reply of such a server waits inside the mutex.      *)
(***************************************************************************)
EXTENDS DynocPool

CONSTANT Hanging    \* the servers that may hang

ASSUME HangingAssumption == Hanging \subseteq Filled

VARIABLE hung       \* the servers that hang now

hangVars == <<vars, hung>>

HangTypeOK == TypeOK /\ hung \subseteq Hanging

HangInit == Init /\ hung = {}

(* A request on context x gets a reply, or finds the connection broken.    *)
Replies(x) == heap[x] = "open" => peer[x] \notin hung

(* PING and AUTH wait for a reply; connecting does not need the process.   *)
KeeperReplied ==
    /\ kpc \in {"init_auth", "auth"} => Replies(kctx)
    /\ kpc = "locked" /\ status[kpos] = VALID => Replies(ctx[kpos])

StartStepReplied == StartStep /\ KeeperReplied /\ UNCHANGED hung
PassStepReplied == PassStep /\ KeeperReplied /\ UNCHANGED hung
ServeReplied(c) == Serve(c) /\ Replies(ctx[conn[c]]) /\ UNCHANGED hung

Hang(s) ==
    /\ s \in up /\ s \notin hung
    /\ hung' = hung \cup {s}
    /\ UNCHANGED vars

Resume(s) ==
    /\ s \in hung
    /\ hung' = hung \ {s}
    /\ UNCHANGED vars

(* A hung process that dies closes its connections.                        *)
CrashHung(s) == Crash(s) /\ hung' = hung \ {s}

HangNext ==
    \/ StartStepReplied \/ PassStepReplied
    \/ KeeperLock /\ UNCHANGED hung
    \/ \E c \in Clients :
         \/ (Invoke(c) \/ ClientStep(c) \/ ClientLock(c)) /\ UNCHANGED hung
         \/ ServeReplied(c)
    \/ \E s \in Filled : CrashHung(s) \/ (Recover(s) /\ UNCHANGED hung)
    \/ \E s \in Hanging : Hang(s) \/ Resume(s)

(* As in DynocPool, but only servers that do not hang answer.              *)
HangFairness ==
    /\ \A s \in Filled : SF_hangVars(ConnectTo(s) /\ UNCHANGED hung)
    /\ WF_hangVars(StartStepReplied) /\ WF_hangVars(PassStepReplied)
    /\ SF_hangVars(KeeperLock /\ UNCHANGED hung)
    /\ \A c \in Clients :
         /\ WF_hangVars(ClientStep(c) /\ UNCHANGED hung)
         /\ WF_hangVars(ServeReplied(c))
         /\ SF_hangVars(ClientLock(c) /\ UNCHANGED hung)

HangSpec == HangInit /\ [][HangNext]_hangVars /\ HangFairness

-----------------------------------------------------------------------------
Owners(k) == {Owner(k, r) : r \in Racks}

(* A hung server holds up the threads that use its connection and nobody   *)
(* else: a command returns unless an owner of its key hangs, although the  *)
(* health check may be stuck for ever inside another connection's mutex.   *)
UnaffectedReturns ==
    \A c \in Clients :
        pc[c] = "select" ~> pc[c] = "idle" \/ Owners(key[c]) \cap hung # {}

(* After the last hang, commands and the health check that were stuck in   *)
(* redisCommand go on: every command returns and, as in DynocPool if no    *)
(* server refuses its password, every node that stays up is connected      *)
(* again.                                                                  *)
RecoversAfterHang ==
    <>[](hung = {}) =>
        /\ \A c \in Clients : []<>(pc[c] = "idle")
        /\ Rejecting = {} => \A s \in Filled : Recovers(s)
=============================================================================
