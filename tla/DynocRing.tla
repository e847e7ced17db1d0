----------------------------- MODULE DynocRing -----------------------------
(***************************************************************************)
(* The token ring of one rack: nodes are added (dynoc_add_node), sorted    *)
(* and numbered (redis_connection_pool_init, called by dynoc_start), and   *)
(* searched for the owner of a key's hash (select_connection and           *)
(* select_continuum).  The ring is read-only after dynoc_start, so one     *)
(* searching thread stands for all of them.                                *)
(***************************************************************************)
EXTENDS DynocToken

CONSTANT node_count     \* rack->node_count: capacity of rack->continuum

ASSUME NodeCountAssumption == node_count \in Nat \ {0}

(* What token_parse leaves in a node's token: signum 0 only for "0", and   *)
(* any word with a positive or a negative sign.                            *)
NodeToken ==
    {t \in Token : /\ t.length = 1
                   /\ t.signum = 0 => t.mag[0] = 0
                   /\ \A i \in 1..3 : t.mag[i] = 0}

Continuum == [token : NodeToken, index : Nat]

VARIABLES
    continuum,   \* rack->continuum, numbered from 0
    ncontinuum,  \* rack->ncontinuum
    token,       \* the searching thread's struct token
    left, right, \* its window in select_continuum
    index,       \* the pool index select_continuum returned
    pc

vars == <<continuum, ncontinuum, token, left, right, index, pc>>
ringVars == <<continuum, ncontinuum>>

Positions == 0..(ncontinuum - 1)

TypeOK ==
    /\ ncontinuum \in 0..node_count
    /\ continuum \in [Positions -> Continuum]
    /\ token \in Token
    /\ left \in 0..node_count /\ right \in 0..node_count
    /\ index \in Nat
    /\ pc \in {"setup", "idle", "ends", "loop", "done"}

Init ==
    /\ continuum = [i \in {} |-> 0] /\ ncontinuum = 0
    /\ token = token_init
    /\ left = 0 /\ right = 0 /\ index = 0
    /\ pc = "setup"

(* Mutant: ncontinuum is not incremented.                                  *)
dynoc_add_node_NoCount(t) ==
    /\ pc = "setup" /\ ncontinuum < node_count
    /\ continuum' = [i \in 0..ncontinuum |->
                        IF i < ncontinuum THEN continuum[i]
                        ELSE [token |-> t, index |-> ncontinuum]]
    /\ UNCHANGED <<ncontinuum, token, left, right, index, pc>>

(* continuum_init on the next free entry.  The code does not compare       *)
(* ncontinuum with node_count; a configuration that stays within the array *)
(* is a precondition here.                                                 *)
dynoc_add_node(t) ==
    /\ pc = "setup" /\ ncontinuum < node_count
    /\ ncontinuum' = ncontinuum + 1
    /\ continuum' = [i \in 0..ncontinuum |->
                        IF i < ncontinuum THEN continuum[i]
                        ELSE [token |-> t, index |-> ncontinuum]]
    /\ UNCHANGED <<token, left, right, index, pc>>

(* qsort with cmp as its order may leave any sorted permutation.           *)
SortedBy(perm) ==
    /\ \A i, j \in Positions : perm[i] = perm[j] => i = j
    /\ \A i, j \in Positions :
          i < j => token_cmp(continuum[perm[i]].token, continuum[perm[j]].token) <= 0

(* Mutant: the entries keep the index they were added with.                *)
redis_connection_pool_init_OldIndex ==
    /\ pc = "setup" /\ ncontinuum > 0
    /\ \E perm \in [Positions -> Positions] :
         /\ SortedBy(perm)
         /\ continuum' = [i \in Positions |-> continuum[perm[i]]]
    /\ pc' = "idle"
    /\ UNCHANGED <<ncontinuum, token, left, right, index>>

redis_connection_pool_init ==
    /\ pc = "setup" /\ ncontinuum > 0
    /\ \E perm \in [Positions -> Positions] :
         /\ SortedBy(perm)
         /\ continuum' = [i \in Positions |->
                             [token |-> continuum[perm[i]].token, index |-> i]]
    /\ pc' = "idle"
    /\ UNCHANGED <<ncontinuum, token, left, right, index>>

(* What token_parse(key, ...) does to the thread's token: it scribbles     *)
(* over the sign and the first word.                                       *)
Parsed(t, s, w) == [t EXCEPT !.signum = s, !.mag = [@ EXCEPT ![0] = w]]

(* select_connection: token_size and token_set_int install the hash h over *)
(* what token_parse made of the key.                                       *)
select_connection(h) ==
    /\ pc \in {"idle", "done"}
    /\ \E s \in {0, 1, NEGATIVE}, w \in Uint :
         token' = token_set_int(token_size(Parsed(token, s, w), 1), h)
    /\ left' = 0 /\ right' = ncontinuum - 1
    /\ pc' = "ends"
    /\ UNCHANGED <<ringVars, index>>

Return(i) ==
    /\ index' = continuum[i].index
    /\ pc' = "done"
    /\ UNCHANGED <<ringVars, token, left, right>>

OffTheEnds ==
    \/ token_cmp(continuum[right].token, token) < 0
    \/ token_cmp(continuum[left].token, token) >= 0

ReturnFirst ==
    /\ pc = "ends" /\ OffTheEnds
    /\ Return(left)

EnterLoop ==
    /\ pc = "ends" /\ ~OffTheEnds
    /\ pc' = "loop"
    /\ UNCHANGED <<ringVars, token, left, right, index>>

Middle == left + ((right - left) \div 2)
CmpMiddle == token_cmp(continuum[Middle].token, token)

ReturnMiddle ==
    /\ pc = "loop" /\ left < right /\ CmpMiddle = 0
    /\ Return(Middle)

(* Mutant: left = middle.                                                  *)
GoRight_Stuck ==
    /\ pc = "loop" /\ left < right /\ CmpMiddle < 0
    /\ left' = Middle
    /\ UNCHANGED <<ringVars, token, right, index, pc>>

GoRight ==
    /\ pc = "loop" /\ left < right /\ CmpMiddle < 0
    /\ left' = Middle + 1
    /\ UNCHANGED <<ringVars, token, right, index, pc>>

(* Mutant: right = right - 1, a linear search from the end.                *)
GoLeft_OnlyEnd ==
    /\ pc = "loop" /\ left < right /\ CmpMiddle > 0
    /\ right' = right - 1
    /\ UNCHANGED <<ringVars, token, left, index, pc>>

GoLeft ==
    /\ pc = "loop" /\ left < right /\ CmpMiddle > 0
    /\ right' = Middle
    /\ UNCHANGED <<ringVars, token, left, index, pc>>

ReturnRight ==
    /\ pc = "loop" /\ left >= right
    /\ Return(right)

Search ==
    \/ ReturnFirst \/ EnterLoop
    \/ ReturnMiddle \/ GoRight \/ GoLeft \/ ReturnRight

Next ==
    \/ \E t \in NodeToken : dynoc_add_node(t)
    \/ redis_connection_pool_init
    \/ \E h \in Uint : select_connection(h)
    \/ Search

Spec == Init /\ [][Next]_vars

(* The searching thread keeps running.                                     *)
FairSpec == Spec /\ WF_vars(Search)

-----------------------------------------------------------------------------
(* The entries a key may be routed to: the nodes at or after its token, or *)
(* all of them when the token lies after the last node.                    *)
AtOrAfter == {i \in Positions : token_cmp(continuum[i].token, token) >= 0}
Candidates == IF AtOrAfter = {} THEN Positions ELSE AtOrAfter

(* The pool index a lookup returns is the position, after the sort, of the *)
(* first node clockwise from the key's token, whatever order the nodes     *)
(* were added in, also with equal tokens and with tokens that carry a      *)
(* minus sign.  redis_conn_pool[index] is then the connection of that node.*)
SelectsSuccessor ==
    pc = "done" =>
        /\ index \in Candidates
        /\ \A i \in Candidates :
              token_cmp(continuum[index].token, continuum[i].token) <= 0

(* Each turn of the loop in select_continuum leaves at most half of its    *)
(* window, so the loop ends after at most log2 of the number of nodes.     *)
WindowHalves ==
    [][pc = "loop" /\ pc' = "loop" => 2 * (right' - left') <= right - left]_vars

(* Each lookup ends.                                                       *)
LookupReturns == pc = "ends" ~> pc = "done"
=============================================================================
