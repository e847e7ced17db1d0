---------------------------- MODULE DynocService ----------------------------
(***************************************************************************)
(* What dynoc promises to its callers, without connections, racks, mutexes *)
(* or health checks.  A command is executed only by servers that own its   *)
(* key; one that returns success has been executed at least once; one that *)
(* fails may have been executed all the same.                              *)
(***************************************************************************)
EXTENDS Naturals

CONSTANTS
    Clients,
    Keys,
    Servers,
    Owning,     \* Owning[k] is the set of servers that own key k
    NULL

VARIABLES
    busy,       \* the key of each client's command, NULL between commands
    executed,   \* how often each server executed the current command
    result      \* what the last command returned

svcVars == <<busy, executed, result>>

SvcTypeOK ==
    /\ busy \in [Clients -> Keys \cup {NULL}]
    /\ executed \in [Clients -> [Servers -> Nat]]
    /\ result \in [Clients -> {"none", "ok", "fail"}]

SvcInit ==
    /\ busy = [c \in Clients |-> NULL]
    /\ executed = [c \in Clients |-> [s \in Servers |-> 0]]
    /\ result = [c \in Clients |-> "none"]

Begin(c) ==
    /\ busy[c] = NULL
    /\ executed' = [executed EXCEPT ![c] = [s \in Servers |-> 0]]

Call(c, k) ==
    /\ Begin(c)
    /\ busy' = [busy EXCEPT ![c] = k]
    /\ result' = [result EXCEPT ![c] = "none"]

(* A NULL argument.                                                        *)
Refuse(c) ==
    /\ Begin(c)
    /\ result' = [result EXCEPT ![c] = "fail"]
    /\ UNCHANGED busy

Execute(c, s) ==
    /\ busy[c] # NULL /\ s \in Owning[busy[c]]
    /\ executed' = [executed EXCEPT ![c][s] = executed[c][s] + 1]
    /\ UNCHANGED <<busy, result>>

End(c, r) ==
    /\ busy[c] # NULL
    /\ busy' = [busy EXCEPT ![c] = NULL]
    /\ result' = [result EXCEPT ![c] = r]
    /\ UNCHANGED executed

ReturnOk(c) == (\E s \in Servers : executed[c][s] > 0) /\ End(c, "ok")
ReturnFail(c) == End(c, "fail")

SvcNext ==
    \E c \in Clients :
        \/ \E k \in Keys : Call(c, k)
        \/ Refuse(c)
        \/ \E s \in Servers : Execute(c, s)
        \/ ReturnOk(c) \/ ReturnFail(c)

SvcSpec == SvcInit /\ [][SvcNext]_svcVars
=============================================================================
