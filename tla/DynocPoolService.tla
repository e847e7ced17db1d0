-------------------------- MODULE DynocPoolService --------------------------
(***************************************************************************)
(* DynocPool implements DynocService.  A client is busy from its call on   *)
(* until the command function returns; the execution counts and results    *)
(* are those that DynocPool records.                                       *)
(***************************************************************************)
EXTENDS DynocPool

Service ==
    INSTANCE DynocService WITH
        Servers <- Slots,
        Owning <- [k \in Keys |-> {Owner(k, r) : r \in Racks}],
        busy <- [c \in Clients |-> IF pc[c] = "idle" THEN NULL ELSE key[c]],
        executed <- exec,
        result <- ret

(* Whatever the health check, other commands, crashes and lost replies do, *)
(* the caller sees the contract of DynocService: select_connection,        *)
(* failover and reconnecting never execute a command at a server that does *)
(* not own its key, and no success is reported that no server has seen.    *)
ImplementsService == Service!SvcSpec
=============================================================================
