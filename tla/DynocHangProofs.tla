--------------------------- MODULE DynocHangProofs ---------------------------
(***************************************************************************)
(* Servers that hang delay the client and do nothing else: every behaviour *)
(* with hanging servers is a behaviour of the pool, so what holds of the   *)
(* pool holds while any set of servers hangs, resumes or dies.             *)
(***************************************************************************)
EXTENDS DynocHang, DynocServiceProofs

(* A hang or a resumption changes nothing the client can see; every other  *)
(* step is a step of the pool.                                             *)
LEMMA HangStep == [HangNext]_hangVars => [Next]_vars
<1> SUFFICES ASSUME [HangNext]_hangVars PROVE [Next]_vars
  OBVIOUS
<1>1. CASE StartStepReplied \/ PassStepReplied \/ (KeeperLock /\ UNCHANGED hung)
  BY <1>1 DEF StartStepReplied, PassStepReplied, Next
<1>2. ASSUME NEW c \in Clients,
             \/ (Invoke(c) \/ ClientStep(c) \/ ClientLock(c)) /\ UNCHANGED hung
             \/ ServeReplied(c)
      PROVE  Next
  BY <1>2 DEF ServeReplied, Next
<1>3. ASSUME NEW s \in Filled, CrashHung(s) \/ (Recover(s) /\ UNCHANGED hung)
      PROVE  Next
  BY <1>3 DEF CrashHung, Next
<1>4. ASSUME NEW s \in Hanging, Hang(s) \/ Resume(s)
      PROVE  UNCHANGED vars
  BY <1>4 DEF Hang, Resume
<1>5. CASE UNCHANGED hangVars
  BY <1>5 DEF hangVars
<1> QED BY <1>1, <1>2, <1>3, <1>4, <1>5 DEF HangNext

(* DynocHang implements DynocPool.                                         *)
THEOREM HangRefinesPool == HangSpec => Spec
<1>1. HangInit => Init
  BY DEF HangInit
<1> QED BY <1>1, HangStep, PTL DEF HangSpec, Spec

(* Only servers that may hang do.                                          *)
LEMMA HungStep ==
    ASSUME hung \subseteq Hanging, [HangNext]_hangVars
    PROVE  hung' \subseteq Hanging
<1>1. \/ hung' = hung
      \/ \E s \in Filled : hung' = hung \ {s}
      \/ \E s \in Hanging : hung' = hung \cup {s} \/ hung' = hung \ {s}
  BY DEF HangNext, StartStepReplied, PassStepReplied, ServeReplied, CrashHung, Hang, Resume,
     hangVars
<1> QED BY <1>1

(* The types of DynocHang.                                                 *)
THEOREM HangTypeCorrect == HangSpec => []HangTypeOK
<1>1. HangSpec => [](hung \subseteq Hanging)
  <2>1. HangInit => hung \subseteq Hanging
    BY DEF HangInit
  <2>2. hung \subseteq Hanging /\ [HangNext]_hangVars => (hung \subseteq Hanging)'
    BY HungStep
  <2> QED BY <2>1, <2>2, PTL DEF HangSpec
<1>2. TypeOK /\ hung \subseteq Hanging => HangTypeOK
  BY DEF HangTypeOK
<1> QED BY <1>1, <1>2, HangRefinesPool, TypeCorrect, PTL

(* However servers hang, no two threads use one connection at a time, no   *)
(* mutex is left locked, no slot holds a freed or foreign context, only    *)
(* owners execute a command, and no more often than the walk visits them.  *)
THEOREM SafeWhileHanging ==
    HangSpec => [](/\ ExclusiveUse /\ MutexReleased /\ ContextOwnership
                   /\ ServedByOwner /\ ReexecutionBound)
BY HangRefinesPool, MutualExclusion, NoMutexLeftLocked, ContextsOwned, OnlyOwnersServe,
   BoundedReexecution, PTL

(* A caller notices nothing of a hanging server but the delay: what the    *)
(* command service promises is promised with hanging servers too.          *)
THEOREM HangImplementsService == HangSpec => ImplementsService
BY HangRefinesPool, PoolImplementsService
=============================================================================
