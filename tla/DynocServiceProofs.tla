------------------------- MODULE DynocServiceProofs -------------------------
(***************************************************************************)
(* What the caller of a command gets, whatever fails meanwhile: the pool   *)
(* implements DynocService; the order in which a command fails over, how   *)
(* often its retries execute it, and which connections a failed AUTH       *)
(* loses, for every topology, routing and number of threads.               *)
(***************************************************************************)
EXTENDS DynocPoolService, DynocPoolProofs

(* A success reply is pending only while a command waits, and some server  *)
(* has executed that command.                                              *)
Answered ==
    \A c \in Clients :
        answer[c] = "ok" => pc[c] = "wait" /\ \E s \in Slots : exec[c][s] > 0

LEMMA InitAnswered == Init => Answered
BY DEF Init, Answered

(* The server of a waiting command is the owner of its key in some rack,   *)
(* and executing it raises that server's count by one.                     *)
LEMMA ServeExecutes ==
    ASSUME IInv, NEW c \in Clients, pc[c] = "wait", Executed(c, peer[ctx[conn[c]]])
    PROVE  /\ conn[c] \in Slots
           /\ conn[c] \in {Owner(key[c], r) : r \in Racks}
           /\ key[c] \in Keys
           /\ exec' = [exec EXCEPT ![c][conn[c]] = exec[c][conn[c]] + 1]
           /\ exec'[c][conn[c]] > 0
<1> USE DEF IInv
<1>1. conn[c] \in Slots /\ peer[ctx[conn[c]]] = conn[c]
  BY WaitHasContext
<1>2. key[c] \in Keys /\ conn[c] = Owner(key[c], RackOf(conn[c]))
  BY DEF Routed
<1>3. RackOf(conn[c]) \in Racks
  BY <1>1, SlotFields DEF RackOf
<1>4. exec' = [exec EXCEPT ![c][conn[c]] = exec[c][conn[c]] + 1]
  BY <1>1 DEF Executed, Increment
<1>5. exec[c] \in [Slots -> Nat]
  BY DEF TypeOK
<1>6. exec'[c][conn[c]] = exec[c][conn[c]] + 1
  BY <1>1, <1>4, <1>5 DEF TypeOK
<1> QED BY <1>1, <1>2, <1>3, <1>4, <1>5, <1>6

LEMMA AnsweredStep == IInv /\ Answered /\ [Next]_vars => Answered'
<1> SUFFICES ASSUME IInv, Answered, [Next]_vars PROVE Answered'
  OBVIOUS
<1> USE DEF IInv
<1>1. CASE UNCHANGED clientVars
  BY <1>1 DEF Answered, clientVars
<1>2. ASSUME NEW c \in Clients, Invoke(c) PROVE Answered'
  <2>1. PICK args : Command(c, args)
    BY <1>2, InvokeIsCommand
  <2>2. /\ answer' = answer /\ answer[c] # "ok"
        /\ \A d \in Clients : d # c => exec'[d] = exec[d] /\ pc'[d] = pc[d]
    BY <2>1 DEF Command, Answered, TypeOK
  <2> QED BY <2>2 DEF Answered
<1>3. ASSUME NEW c \in Clients, ClientStep(c) \/ ClientLock(c) PROVE Answered'
  <2>1. exec' = exec /\ \A d \in Clients : d # c => pc'[d] = pc[d] /\ answer'[d] = answer[d]
    BY <1>3 DEF ClientStep, SelectLocal, SelectRemote, Selected, GiveUp, SkipInvalid, Send,
        Succeed, FailOver, ClientLock, walkVars, TypeOK
  <2>2. answer'[c] # "ok"
    BY <1>3 DEF ClientStep, SelectLocal, SelectRemote, Selected, GiveUp, SkipInvalid, Send,
        Succeed, FailOver, ClientLock, Answered, TypeOK
  <2> QED BY <2>1, <2>2 DEF Answered
<1>4. ASSUME NEW c \in Clients, Serve(c) PROVE Answered'
  <2>1. /\ pc[c] = "wait" /\ pc' = pc
        /\ \A d \in Clients : d # c => answer'[d] = answer[d]
    BY <1>4 DEF Serve, TypeOK
  <2>2. CASE answer'[c] = "ok"
    <3>1. Executed(c, peer[ctx[conn[c]]])
      BY <1>4, <2>2 DEF Serve, TypeOK
    <3>2. conn[c] \in Slots /\ exec'[c][conn[c]] > 0
      BY <2>1, <3>1, ServeExecutes
    <3>3. \A d \in Clients : d # c => exec'[d] = exec[d]
      BY <3>1 DEF Executed, TypeOK
    <3> QED BY <2>1, <3>2, <3>3 DEF Answered
  <2>3. CASE answer'[c] # "ok"
    <3>1. exec' = exec
      BY <1>4, <2>3 DEF Serve, TypeOK
    <3> QED BY <2>1, <2>3, <3>1 DEF Answered
  <2> QED BY <2>2, <2>3
<1>5. CASE Next
  BY <1>1, <1>2, <1>3, <1>4, <1>5, StartFrame, PassFrame, ServerFrame DEF Next
<1> QED BY <1>1, <1>5 DEF vars

-----------------------------------------------------------------------------
LEMMA InitRefines == Init => Service!SvcInit
<1> SUFFICES ASSUME Init PROVE Service!SvcInit
  OBVIOUS
<1> QED BY DEF Init, Service!SvcInit

(* A call is Call or Refuse.                                               *)
LEMMA InvokeRefines ==
    ASSUME IInv, NEW c \in Clients, Invoke(c)
    PROVE  Service!SvcNext
<1>1. PICK args : Command(c, args)
  BY InvokeIsCommand
<1>2. Service!Begin(c)
  BY <1>1 DEF Command, Service!Begin
<1>3. ASSUME NEW k \in Keys, key' = [key EXCEPT ![c] = k],
             pc' = [pc EXCEPT ![c] = "select"], ret' = [ret EXCEPT ![c] = "none"]
      PROVE  Service!Call(c, k)
  BY <1>2, <1>3 DEF Service!Call, IInv, TypeOK
<1>4. ASSUME key' = [key EXCEPT ![c] = NULL], ret' = [ret EXCEPT ![c] = "fail"], pc' = pc
      PROVE  Service!Refuse(c)
  BY <1>1, <1>2, <1>4 DEF Command, Service!Refuse, IInv, TypeOK
<1> QED BY <1>1, <1>3, <1>4 DEF Command, Service!SvcNext

(* Selecting, locking and failing over are invisible; returning is not.    *)
LEMMA ClientRefines ==
    ASSUME IInv, Answered, NEW c \in Clients, ClientStep(c) \/ ClientLock(c)
    PROVE  [Service!SvcNext]_(Service!svcVars)
<1> USE DEF IInv, TypeOK
<1>1. key' = key /\ exec' = exec /\ pc[c] # "idle"
  BY ClientStepFrame DEF ClientLock, walkVars
<1>2. key[c] \in Keys /\ key[c] # NULL
  BY <1>1, NullAssumption DEF Routed
<1>3. CASE Succeed(c)
  <2>1. \E s \in Slots : exec[c][s] > 0
    BY <1>3 DEF Succeed, Answered
  <2>2. Service!End(c, "ok")
    BY <1>1, <1>2, <1>3 DEF Succeed, Service!End
  <2> QED BY <2>1, <2>2 DEF Service!ReturnOk, Service!SvcNext
<1>4. CASE GiveUp(c)
  <2>1. Service!End(c, "fail")
    BY <1>1, <1>2, <1>4 DEF GiveUp, Service!End
  <2> QED BY <2>1 DEF Service!ReturnFail, Service!SvcNext
<1>5. CASE ~Succeed(c) /\ ~GiveUp(c)
  <2>1. ret' = ret /\ pc'[c] # "idle" /\ \A d \in Clients : d # c => pc'[d] = pc[d]
    BY <1>5 DEF ClientStep, SelectLocal, SelectRemote, Selected, SkipInvalid, Send, FailOver,
        ClientLock
  <2> QED BY <1>1, <2>1 DEF Service!svcVars
<1> QED BY <1>3, <1>4, <1>5

(* A server executes the command or refuses it.                            *)
LEMMA ServeRefines ==
    ASSUME IInv, NEW c \in Clients, Serve(c)
    PROVE  [Service!SvcNext]_(Service!svcVars)
<1>1. pc[c] = "wait" /\ pc' = pc /\ key' = key /\ ret' = ret
  BY DEF Serve, walkVars
<1>2. CASE exec' = exec
  BY <1>1, <1>2 DEF Service!svcVars
<1>3. CASE Executed(c, peer[ctx[conn[c]]])
  <2>1. Service!Execute(c, conn[c])
    BY <1>1, <1>3, ServeExecutes, NullAssumption DEF Service!Execute
  <2> QED BY <1>1, <1>3, <2>1, ServeExecutes DEF Service!SvcNext
<1> QED BY <1>2, <1>3 DEF Serve

LEMMA StepRefines ==
    IInv /\ Answered /\ [Next]_vars => [Service!SvcNext]_(Service!svcVars)
<1> SUFFICES ASSUME IInv, Answered, [Next]_vars
             PROVE  [Service!SvcNext]_(Service!svcVars)
  OBVIOUS
<1>1. CASE UNCHANGED clientVars
  BY <1>1 DEF clientVars, walkVars, Service!svcVars
<1>2. CASE Next
  BY <1>1, <1>2, StartFrame, PassFrame, ServerFrame, InvokeRefines, ClientRefines,
     ServeRefines DEF Next
<1> QED BY <1>1, <1>2 DEF vars

(* The pool with its failover, resets, health check and crashing servers   *)
(* implements the contract of DynocService: no command is executed at a    *)
(* server that does not own its key, whatever state the connections were   *)
(* in when it was selected, and no success is returned that no server has  *)
(* seen.                                                                   *)
THEOREM PoolImplementsService == Spec => ImplementsService
<1>1. Spec => []Answered
  BY InitIInv, InitAnswered, StepIInv, AnsweredStep, PTL DEF Spec
<1>2. Spec => Service!SvcSpec
  BY InitRefines, StepRefines, Invariant, <1>1, PTL DEF Spec, Service!SvcSpec
<1> QED BY <1>2 DEF ImplementsService

(***************************************************************************)
(* The walk of one command.                                                *)
(***************************************************************************)
Locals == RackCount[LOCAL_DC]

(* The n-th rack of a walk: every local rack, the first remote one, and    *)
(* then the local racks again, without the first of them.                  *)
WalkRack(n) ==
    IF n <= Locals THEN <<LOCAL_DC, n - 1>>
    ELSE IF n = Locals + 1 THEN <<REMOTE_DC, 0>>
    ELSE <<LOCAL_DC, n - Locals - 1>>

(* dc_type and rc_idx say exactly how far the walk has come.               *)
WalkedBy(c) ==
    IF LOCAL_DC \in DCs
    THEN /\ rc_idx[c] <= Locals
         /\ dc_type[c] = REMOTE_DC => REMOTE_DC \in DCs /\ rc_idx[c] > 0
         /\ Len(tried[c]) = IF dc_type[c] = LOCAL_DC THEN rc_idx[c] ELSE Locals + rc_idx[c]
         /\ \A n \in 1..Len(tried[c]) : tried[c][n] = WalkRack(n)
    ELSE tried[c] = <<>> /\ rc_idx[c] = 0 /\ dc_type[c] = LOCAL_DC

Walked == \A c \in Clients : WalkedBy(c)

(* A command that has failed has come to the end of its walk.              *)
ExhaustedBy(c) ==
    ret[c] = "fail" /\ key[c] # NULL =>
        /\ pc[c] = "idle"
        /\ LOCAL_DC \in DCs =>
              rc_idx[c] = Locals /\ (REMOTE_DC \in DCs => dc_type[c] = REMOTE_DC)

Exhausted == \A c \in Clients : ExhaustedBy(c)

(* How often the walk has come to rack r.                                  *)
Visits(c, r) ==
    IF r[1] = REMOTE_DC THEN IF dc_type[c] = REMOTE_DC /\ r[2] = 0 THEN 1 ELSE 0
    ELSE IF dc_type[c] = LOCAL_DC THEN IF r[2] < rc_idx[c] THEN 1 ELSE 0
    ELSE IF 0 < r[2] /\ r[2] < rc_idx[c] THEN 2 ELSE 1

(* The visit in progress may still lead to an execution on server s.       *)
Pending(c, s) ==
    /\ conn[c] = s
    /\ pc[c] \in {"lock", "locked"} \/ (pc[c] = "wait" /\ answer[c] = "none")

CountedAt(c, s) ==
    /\ exec[c][s] <= Visits(c, RackOf(s))
    /\ Pending(c, s) => exec[c][s] + 1 <= Visits(c, RackOf(s))

Counted == \A c \in Clients, s \in Slots : CountedAt(c, s)

WalkInv == IInv /\ Walked /\ Exhausted /\ Counted

(***************************************************************************)
(* The contexts the keeper stores.                                         *)
(***************************************************************************)
KeeperContext == kpc \notin {"init_auth", "auth"} => kctx = NULL

(* dynoc_start has not yet come to a slot that holds no context.           *)
FreshSlots == Starting => \A s \in Slots : ctx[s] # NULL => Before(s, kpos)

Reopening ==
    /\ kpc \in {"connect", "auth"} => status[kpos] = INVALID
    /\ kpc \in {"auth", "init_auth"} => kpos \in Protected

(* INVALID is carried on only behind a slot that has a password, and a     *)
(* slot that is INVALID and yet holds a context has got it from there.     *)
StatusSuspect == kstatus = INVALID => Suspect(kpos)
InvalidSuspect == \A s \in Slots : status[s] = INVALID /\ ctx[s] # NULL => Suspect(s)

LeakInv ==
    /\ IInv /\ KeeperContext /\ FreshSlots /\ Reopening
    /\ StatusSuspect /\ InvalidSuspect /\ LeakNeedsPassword

-----------------------------------------------------------------------------
(* A step of one command leaves the walk of every other one alone.         *)
LEMMA OtherWalks ==
    ASSUME TypeOK, NEW c \in Clients, NEW d \in Clients, d # c,
           Invoke(c) \/ ClientStep(c) \/ ClientLock(c) \/ Serve(c)
    PROVE  /\ pc'[d] = pc[d] /\ key'[d] = key[d] /\ ret'[d] = ret[d]
           /\ dc_type'[d] = dc_type[d] /\ rc_idx'[d] = rc_idx[d] /\ tried'[d] = tried[d]
           /\ conn'[d] = conn[d] /\ answer'[d] = answer[d] /\ exec'[d] = exec[d]
<1>1. CASE Invoke(c)
  <2>1. PICK args : Command(c, args)
    BY <1>1, InvokeIsCommand
  <2> QED BY <2>1 DEF Command, TypeOK
<1>2. CASE Serve(c)
  BY <1>2 DEF Serve, Executed, walkVars, TypeOK
<1>3. CASE ClientStep(c) \/ ClientLock(c)
  BY <1>3 DEF ClientStep, ClientLock, SelectLocal, SelectRemote, Selected, GiveUp, SkipInvalid,
     Send, Succeed, FailOver, walkVars, TypeOK
<1> QED BY <1>1, <1>2, <1>3

(* Whoever is not an application thread leaves all walks alone.            *)
LEMMA QuietSteps ==
    ASSUME [Next]_vars
    PROVE  \/ UNCHANGED clientVars
           \/ \E c \in Clients : Invoke(c) \/ ClientStep(c) \/ ClientLock(c) \/ Serve(c)
BY StartFrame, PassFrame, ServerFrame DEF Next, vars

(* A command starts its walk at the beginning.                             *)
LEMMA CommandStarts ==
    ASSUME TypeOK, NEW c \in Clients, Invoke(c)
    PROVE  /\ dc_type'[c] = LOCAL_DC /\ rc_idx'[c] = 0 /\ tried'[c] = <<>>
           /\ exec'[c] = [s \in Slots |-> 0] /\ conn'[c] = NULL
           /\ ret'[c] = "none" \/ key'[c] = NULL
BY InvokeIsCommand DEF Command, TypeOK

LEMMA WalkedStep ==
    ASSUME TypeOK, Walked, [Next]_vars
    PROVE  Walked'
<1> SUFFICES ASSUME NEW d \in Clients PROVE WalkedBy(d)'
  BY DEF Walked
<1>0. /\ WalkedBy(d) /\ rc_idx[d] \in Nat /\ dc_type[d] \in {LOCAL_DC, REMOTE_DC}
      /\ tried[d] \in Seq(Racks)
      /\ LOCAL_DC \in DCs => Locals \in Nat \ {0}
  <2>1. LOCAL_DC \in DCs => Locals \in Nat \ {0}
    BY TopologyAssumption DEF Locals
  <2>2. /\ rc_idx[d] \in Nat /\ dc_type[d] \in {LOCAL_DC, REMOTE_DC}
        /\ tried[d] \in Seq(Racks)
    BY DEF TypeOK
  <2> QED BY <2>1, <2>2 DEF Walked
<1>1. ASSUME UNCHANGED <<dc_type, rc_idx, tried>> PROVE WalkedBy(d)'
  BY <1>0, <1>1 DEF WalkedBy, WalkRack, Locals
<1>2. ASSUME NEW c \in Clients, Invoke(c) \/ ClientStep(c) \/ ClientLock(c) \/ Serve(c), c # d
      PROVE  WalkedBy(d)'
  <2>1. dc_type'[d] = dc_type[d] /\ rc_idx'[d] = rc_idx[d] /\ tried'[d] = tried[d]
    BY <1>2, OtherWalks
  <2> QED BY <1>0, <2>1 DEF WalkedBy, WalkRack, Locals
<1>3. CASE Invoke(d)
  <2>1. dc_type'[d] = LOCAL_DC /\ rc_idx'[d] = 0 /\ tried'[d] = <<>>
    BY <1>3, CommandStarts
  <2> QED BY <1>0, <2>1 DEF WalkedBy, LOCAL_DC, REMOTE_DC, Locals
<1>4. CASE SelectLocal(d)
  <2>1. /\ LOCAL_DC \in DCs /\ rc_idx[d] < Locals
        /\ dc_type'[d] = dc_type[d] /\ rc_idx'[d] = rc_idx[d] + 1
        /\ tried'[d] = Append(tried[d], <<LOCAL_DC, rc_idx[d]>>)
    BY <1>4 DEF SelectLocal, Selected, Locals, TypeOK
  <2>2. /\ Len(tried'[d]) = Len(tried[d]) + 1
        /\ \A n \in 1..Len(tried[d]) : tried'[d][n] = tried[d][n]
        /\ tried'[d][Len(tried[d]) + 1] = <<LOCAL_DC, rc_idx[d]>>
    BY <1>0, <2>1
  <2>3. WalkRack(Len(tried[d]) + 1) = <<LOCAL_DC, rc_idx[d]>>
    <3>1. Locals \in Nat \ {0} /\ LOCAL_DC # REMOTE_DC
      BY <1>0, <2>1 DEF LOCAL_DC, REMOTE_DC
    <3>2. CASE dc_type[d] = LOCAL_DC
      <4>1. Len(tried[d]) + 1 <= Locals /\ (Len(tried[d]) + 1) - 1 = rc_idx[d]
        BY <1>0, <2>1, <3>1, <3>2 DEF WalkedBy
      <4> QED BY <4>1 DEF WalkRack
    <3>3. CASE dc_type[d] = REMOTE_DC
      <4>1. Len(tried[d]) = Locals + rc_idx[d] /\ rc_idx[d] > 0
        BY <1>0, <2>1, <3>1, <3>3 DEF WalkedBy
      <4>2. /\ ~(Len(tried[d]) + 1 <= Locals) /\ Len(tried[d]) + 1 # Locals + 1
            /\ (Len(tried[d]) + 1) - Locals - 1 = rc_idx[d]
        BY <1>0, <3>1, <4>1
      <4> QED BY <4>2 DEF WalkRack
    <3> QED BY <1>0, <3>2, <3>3
  <2>4. \A n \in 1..Len(tried'[d]) : tried'[d][n] = WalkRack(n)
    <3> SUFFICES ASSUME NEW n \in 1..Len(tried'[d]) PROVE tried'[d][n] = WalkRack(n)
      OBVIOUS
    <3>1. Len(tried[d]) \in Nat
      BY <1>0
    <3>2. CASE n \in 1..Len(tried[d])
      BY <1>0, <2>1, <2>2, <3>2 DEF WalkedBy
    <3>3. CASE n = Len(tried[d]) + 1
      BY <2>2, <2>3, <3>3
    <3> QED BY <2>2, <3>1, <3>2, <3>3
  <2>5. /\ rc_idx'[d] <= Locals
        /\ dc_type'[d] = REMOTE_DC => REMOTE_DC \in DCs /\ rc_idx'[d] > 0
        /\ Len(tried'[d]) = IF dc_type'[d] = LOCAL_DC THEN rc_idx'[d] ELSE Locals + rc_idx'[d]
    <3>1. Locals \in Nat
      BY <1>0, <2>1
    <3>2. /\ dc_type[d] = REMOTE_DC => REMOTE_DC \in DCs /\ rc_idx[d] > 0
          /\ Len(tried[d]) = IF dc_type[d] = LOCAL_DC THEN rc_idx[d] ELSE Locals + rc_idx[d]
      BY <1>0, <2>1 DEF WalkedBy
    <3> QED BY <1>0, <2>1, <2>2, <3>1, <3>2
  <2> QED BY <2>1, <2>4, <2>5 DEF WalkedBy, WalkRack, Locals
<1>5. CASE SelectRemote(d)
  <2>1. /\ LOCAL_DC \in DCs /\ REMOTE_DC \in DCs /\ rc_idx[d] >= Locals
        /\ dc_type[d] = LOCAL_DC /\ dc_type'[d] = REMOTE_DC /\ rc_idx'[d] = 1
        /\ tried'[d] = Append(tried[d], <<REMOTE_DC, 0>>)
    BY <1>5 DEF SelectRemote, SwitchesToRemote, Selected, Locals, TypeOK
  <2>2. Len(tried[d]) = Locals
    BY <1>0, <2>1 DEF WalkedBy
  <2>3. /\ Len(tried'[d]) = Locals + 1
        /\ \A n \in 1..Locals : tried'[d][n] = tried[d][n]
        /\ tried'[d][Locals + 1] = <<REMOTE_DC, 0>>
    BY <1>0, <2>1, <2>2
  <2>4. \A n \in 1..Len(tried'[d]) : tried'[d][n] = WalkRack(n)
    <3>1. \A n \in 1..Locals : tried'[d][n] = WalkRack(n)
      BY <1>0, <2>1, <2>2, <2>3 DEF WalkedBy
    <3>2. WalkRack(Locals + 1) = <<REMOTE_DC, 0>>
      BY <1>0, <2>1 DEF WalkRack
    <3> QED BY <1>0, <2>1, <2>3, <3>1, <3>2
  <2> QED BY <1>0, <2>1, <2>3, <2>4 DEF WalkedBy, WalkRack, Locals, LOCAL_DC, REMOTE_DC
<1>6. CASE \/ GiveUp(d) \/ SkipInvalid(d) \/ Send(d) \/ Succeed(d) \/ FailOver(d)
           \/ ClientLock(d) \/ Serve(d)
  <2>1. UNCHANGED <<dc_type, rc_idx, tried>>
    BY <1>6 DEF GiveUp, SkipInvalid, Send, Succeed, FailOver, ClientLock, Serve, walkVars
  <2> QED BY <1>1, <2>1
<1> QED BY <1>1, <1>2, <1>3, <1>4, <1>5, <1>6, QuietSteps DEF ClientStep, clientVars, walkVars

LEMMA ExhaustedStep ==
    ASSUME TypeOK, Routed, Walked, Exhausted, [Next]_vars
    PROVE  Exhausted'
<1> SUFFICES ASSUME NEW d \in Clients PROVE ExhaustedBy(d)'
  BY DEF Exhausted
<1>0. ExhaustedBy(d)
  BY DEF Exhausted
<1>1. CASE UNCHANGED clientVars
  BY <1>0, <1>1 DEF ExhaustedBy, Locals, clientVars, walkVars
<1>2. ASSUME NEW c \in Clients, Invoke(c) \/ ClientStep(c) \/ ClientLock(c) \/ Serve(c), c # d
      PROVE  ExhaustedBy(d)'
  BY <1>0, <1>2, OtherWalks DEF ExhaustedBy, Locals
<1>3. CASE Invoke(d)
  BY <1>3, CommandStarts DEF ExhaustedBy
<1>4. CASE GiveUp(d)
  <2>1. /\ pc'[d] = "idle" /\ dc_type' = dc_type /\ rc_idx' = rc_idx
        /\ LOCAL_DC \in DCs => rc_idx[d] >= Locals /\ (REMOTE_DC \in DCs => dc_type[d] # LOCAL_DC)
    BY <1>4 DEF GiveUp, SwitchesToRemote, Locals, walkVars, TypeOK
  <2>2. LOCAL_DC \in DCs => rc_idx[d] <= Locals /\ rc_idx[d] \in Nat /\ Locals \in Nat
    BY TopologyAssumption DEF Walked, WalkedBy, Locals, TypeOK
  <2>3. dc_type[d] \in {LOCAL_DC, REMOTE_DC}
    BY DEF TypeOK
  <2> QED BY <2>1, <2>2, <2>3 DEF ExhaustedBy, Locals
<1>5. CASE Succeed(d)
  <2>1. ret'[d] = "ok"
    BY <1>5 DEF Succeed, TypeOK
  <2> QED BY <2>1 DEF ExhaustedBy
<1>6. CASE \/ SelectLocal(d) \/ SelectRemote(d) \/ SkipInvalid(d) \/ Send(d) \/ FailOver(d)
           \/ ClientLock(d) \/ Serve(d)
  <2>1. pc[d] # "idle" /\ ret' = ret /\ key' = key
    BY <1>6 DEF SelectLocal, SelectRemote, Selected, SkipInvalid, Send, FailOver, ClientLock,
       Serve, walkVars
  <2> QED BY <1>0, <2>1 DEF ExhaustedBy
<1> QED BY <1>1, <1>2, <1>3, <1>4, <1>5, <1>6, QuietSteps DEF ClientStep

(* Coming to one more rack allows one more execution there.                *)
LEMMA SelectedCounted ==
    ASSUME TypeOK, Routed, Walked, Counted, NEW d \in Clients,
           SelectLocal(d) \/ SelectRemote(d), NEW s \in Slots
    PROVE  CountedAt(d, s)'
<1>0. /\ WalkedBy(d) /\ CountedAt(d, s) /\ key[d] \in Keys /\ LOCAL_DC # REMOTE_DC
      /\ rc_idx[d] \in Nat /\ dc_type[d] \in {LOCAL_DC, REMOTE_DC} /\ exec[d][s] \in Nat
  BY DEF Walked, Counted, Routed, SelectLocal, SelectRemote, TypeOK, LOCAL_DC, REMOTE_DC
<1>1. /\ RackOf(s) = <<s[1], s[2]>> /\ s[1] \in {LOCAL_DC, REMOTE_DC}
      /\ s[2] \in Nat /\ s[2] < RackCount[s[1]] /\ RackCount[s[1]] \in Nat
  BY SlotFields, TopologyAssumption DEF RackOf
<1>2. exec' = exec
  BY DEF SelectLocal, SelectRemote, Selected
<1>3. CASE SelectLocal(d)
  <2>1. /\ dc_type'[d] = dc_type[d] /\ rc_idx'[d] = rc_idx[d] + 1
        /\ LOCAL_DC \in DCs /\ conn'[d] = Owner(key[d], <<LOCAL_DC, rc_idx[d]>>)
    BY <1>3 DEF SelectLocal, Selected, TypeOK
  <2>2. <<LOCAL_DC, rc_idx[d]>> \in Racks
    BY <1>3, SelectLocalRack DEF SelectLocal
  <2>3. conn'[d] = s => s[1] = LOCAL_DC /\ s[2] = rc_idx[d]
    BY <1>0, <1>1, <2>1, <2>2, OwnerSlot DEF Owner
  <2>4. dc_type[d] = REMOTE_DC => rc_idx[d] > 0
    BY <1>0, <2>1 DEF WalkedBy
  <2>5. /\ Visits(d, RackOf(s)) <= Visits(d, RackOf(s))'
        /\ s[1] = LOCAL_DC /\ s[2] = rc_idx[d] =>
              Visits(d, RackOf(s)) + 1 <= Visits(d, RackOf(s))'
    BY <1>0, <1>1, <2>1, <2>4 DEF Visits, RackOf
  <2>6. Visits(d, RackOf(s)) \in Nat /\ Visits(d, RackOf(s))' \in Nat
    BY DEF Visits
  <2>7. /\ exec'[d][s] = exec[d][s] /\ exec[d][s] <= Visits(d, RackOf(s))
        /\ Pending(d, s)' => conn'[d] = s
    BY <1>0, <1>2 DEF CountedAt, Pending
  <2> QED BY <1>0, <2>3, <2>5, <2>6, <2>7 DEF CountedAt, RackOf
<1>4. CASE SelectRemote(d)
  <2>1. /\ dc_type[d] = LOCAL_DC /\ dc_type'[d] = REMOTE_DC /\ rc_idx'[d] = 1
        /\ rc_idx[d] >= RackCount[LOCAL_DC] /\ conn'[d] = Owner(key[d], <<REMOTE_DC, 0>>)
    BY <1>4 DEF SelectRemote, SwitchesToRemote, Selected, TypeOK
  <2>2. <<REMOTE_DC, 0>> \in Racks
    BY <1>4, SelectRemoteRack DEF SelectRemote
  <2>3. conn'[d] = s => s[1] = REMOTE_DC /\ s[2] = 0
    BY <1>0, <1>1, <2>1, <2>2, OwnerSlot DEF Owner
  <2>4. /\ Visits(d, RackOf(s)) <= Visits(d, RackOf(s))'
        /\ s[1] = REMOTE_DC /\ s[2] = 0 =>
              Visits(d, RackOf(s)) + 1 <= Visits(d, RackOf(s))'
    BY <1>0, <1>1, <2>1 DEF Visits, RackOf
  <2>5. Visits(d, RackOf(s)) \in Nat /\ Visits(d, RackOf(s))' \in Nat
    BY DEF Visits
  <2>6. /\ exec'[d][s] = exec[d][s] /\ exec[d][s] <= Visits(d, RackOf(s))
        /\ Pending(d, s)' => conn'[d] = s
    BY <1>0, <1>2 DEF CountedAt, Pending
  <2> QED BY <1>0, <2>3, <2>4, <2>5, <2>6 DEF CountedAt, RackOf
<1> QED BY <1>3, <1>4

(* The server that executes a command is the one the command waits for,    *)
(* and it answers no second time in the same visit.                        *)
LEMMA ServeCounted ==
    ASSUME TypeOK, Routed, WaitsOnValid, ContextOwnership, Counted, NEW d \in Clients,
           Serve(d), NEW s \in Slots
    PROVE  CountedAt(d, s)'
<1>1. /\ CountedAt(d, s) /\ exec[d] \in [Slots -> Nat]
      /\ Visits(d, RackOf(s))' = Visits(d, RackOf(s))
  BY DEF Counted, Serve, Visits, walkVars, TypeOK
<1>2. pc[d] = "wait" /\ answer[d] = "none" /\ pc' = pc /\ answer'[d] # "none"
  <2>1. \/ answer' = [answer EXCEPT ![d] = "ok"]
        \/ answer' = [answer EXCEPT ![d] = "error"]
    BY DEF Serve
  <2> QED BY <2>1 DEF Serve, TypeOK
<1>3. ~Pending(d, s)'
  BY <1>2 DEF Pending
<1>4. exec'[d][s] = IF conn[d] = s /\ exec' # exec THEN exec[d][s] + 1 ELSE exec[d][s]
  <2>1. peer[ctx[conn[d]]] = conn[d]
    BY <1>2, WaitHasContext
  <2>2. CASE exec' = exec
    BY <2>2
  <2>3. CASE Executed(d, conn[d])
    <3>1. exec'[d] = Increment(exec[d], conn[d])
      BY <2>3 DEF Executed, TypeOK
    <3>2. CASE conn[d] # s
      BY <1>1, <3>1, <3>2 DEF Increment
    <3>3. CASE conn[d] = s
      <4>1. exec'[d][s] = exec[d][s] + 1
        BY <1>1, <3>1, <3>3 DEF Increment
      <4>2. exec' # exec
        BY <1>1, <4>1
      <4> QED BY <3>3, <4>1, <4>2
    <3> QED BY <3>2, <3>3
  <2> QED BY <2>1, <2>2, <2>3 DEF Serve
<1>5. conn[d] = s => Pending(d, s)
  BY <1>2 DEF Pending
<1> QED BY <1>1, <1>3, <1>4, <1>5 DEF CountedAt

LEMMA CountedStep ==
    ASSUME TypeOK, Routed, WaitsOnValid, ContextOwnership, Walked, Counted, [Next]_vars
    PROVE  Counted'
<1> SUFFICES ASSUME NEW d \in Clients, NEW s \in Slots PROVE CountedAt(d, s)'
  BY DEF Counted
<1>0. CountedAt(d, s)
  BY DEF Counted
<1>1. CASE UNCHANGED clientVars
  BY <1>0, <1>1 DEF CountedAt, Pending, Visits, clientVars, walkVars
<1>2. ASSUME NEW c \in Clients, Invoke(c) \/ ClientStep(c) \/ ClientLock(c) \/ Serve(c), c # d
      PROVE  CountedAt(d, s)'
  BY <1>0, <1>2, OtherWalks DEF CountedAt, Pending, Visits
<1>3. CASE Invoke(d)
  <2>1. exec'[d][s] = 0 /\ conn'[d] # s
    BY <1>3, CommandStarts, NullAssumption
  <2> QED BY <2>1 DEF CountedAt, Pending, Visits
<1>4. CASE SelectLocal(d) \/ SelectRemote(d)
  BY <1>4, SelectedCounted
<1>5. CASE Serve(d)
  BY <1>5, ServeCounted
<1>6. CASE GiveUp(d) \/ SkipInvalid(d) \/ Send(d) \/ Succeed(d) \/ FailOver(d) \/ ClientLock(d)
  <2>1. UNCHANGED <<dc_type, rc_idx, conn, exec>>
    BY <1>6 DEF GiveUp, SkipInvalid, Send, Succeed, FailOver, ClientLock, walkVars
  <2>2. Pending(d, s)' => Pending(d, s)
    BY <1>6 DEF Pending, GiveUp, SkipInvalid, Send, Succeed, FailOver, ClientLock, walkVars, TypeOK
  <2> QED BY <1>0, <2>1, <2>2 DEF CountedAt, Visits
<1> QED BY <1>1, <1>2, <1>3, <1>4, <1>5, <1>6, QuietSteps DEF ClientStep

LEMMA InitWalkInv == Init => WalkInv
<1> SUFFICES ASSUME Init PROVE WalkInv
  OBVIOUS
<1>1. Walked
  BY TopologyAssumption DEF Init, Walked, WalkedBy, Locals, LOCAL_DC, REMOTE_DC
<1>2. Exhausted
  BY DEF Init, Exhausted, ExhaustedBy
<1>3. Counted
  <2> SUFFICES ASSUME NEW c \in Clients, NEW s \in Slots PROVE CountedAt(c, s)
    BY DEF Counted
  <2>1. exec[c][s] = 0 /\ conn[c] = NULL /\ s # NULL
    BY NullAssumption DEF Init
  <2> QED BY <2>1 DEF CountedAt, Pending, Visits
<1> QED BY <1>1, <1>2, <1>3, InitIInv DEF WalkInv

(* Where a command is in its walk, what it has behind it and how often it  *)
(* was executed there agree, whatever fails.                               *)
THEOREM WalkInvariant == Spec => []WalkInv
<1>1. WalkInv /\ [Next]_vars => WalkInv'
  BY StepIInv, WalkedStep, ExhaustedStep, CountedStep DEF WalkInv, IInv
<1> QED BY <1>1, InitWalkInv, PTL DEF Spec

(* A command asks the remote datacenter only after every local rack, and   *)
(* fails only after every local rack and the first remote one, in every    *)
(* topology and under every interleaving with the health check.            *)
THEOREM LocalBeforeRemote == Spec => []FailoverOrder
<1>1. ASSUME WalkInv PROVE FailoverOrder
  <2> DEFINE local == {r \in Racks : r[1] = LOCAL_DC}
             seen(c, n) == {tried[c][m] : m \in 1..n}
  <2> SUFFICES ASSUME NEW c \in Clients
               PROVE  /\ \A n \in 1..Len(tried[c]) :
                            tried[c][n][1] = REMOTE_DC => local \subseteq seen(c, n)
                      /\ ret[c] = "fail" /\ key[c] # NULL /\ LOCAL_DC \in DCs =>
                            local \cup {r \in Racks : r = <<REMOTE_DC, 0>>}
                               \subseteq seen(c, Len(tried[c]))
    BY DEF FailoverOrder
  <2>0. /\ WalkedBy(c) /\ ExhaustedBy(c) /\ LOCAL_DC # REMOTE_DC
        /\ rc_idx[c] \in Nat /\ dc_type[c] \in {LOCAL_DC, REMOTE_DC} /\ Len(tried[c]) \in Nat
    BY <1>1 DEF WalkInv, IInv, Walked, Exhausted, TypeOK, LOCAL_DC, REMOTE_DC
  <2>1. CASE LOCAL_DC \in DCs
    <3>0. Locals \in Nat \ {0}
      BY <2>1, TopologyAssumption DEF Locals
    <3>1. \A n \in 1..Len(tried[c]) : tried[c][n] = WalkRack(n)
      BY <2>0, <2>1 DEF WalkedBy
    <3>2. ASSUME NEW n \in Nat, Locals <= n, n <= Len(tried[c]) PROVE local \subseteq seen(c, n)
      <4> SUFFICES ASSUME NEW r \in Racks, r[1] = LOCAL_DC PROVE r \in seen(c, n)
        OBVIOUS
      <4>1. r = <<LOCAL_DC, r[2]>> /\ r[2] \in Nat /\ r[2] < Locals
        BY RackFields DEF Locals
      <4>2. r[2] + 1 \in 1..n /\ r[2] + 1 \in 1..Len(tried[c]) /\ r[2] + 1 <= Locals
        BY <2>0, <3>0, <3>2, <4>1
      <4>3. tried[c][r[2] + 1] = r
        <5>1. (r[2] + 1) - 1 = r[2]
          BY <4>1
        <5> QED BY <3>1, <4>1, <4>2, <5>1 DEF WalkRack
      <4> QED BY <4>2, <4>3
    <3>3. ASSUME NEW n \in 1..Len(tried[c]), tried[c][n][1] = REMOTE_DC
          PROVE  local \subseteq seen(c, n)
      <4>1. ~(n <= Locals)
        <5>1. WalkRack(n)[1] = REMOTE_DC
          BY <3>1, <3>3
        <5>2. n <= Locals => WalkRack(n)[1] = LOCAL_DC
          BY DEF WalkRack
        <5> QED BY <2>0, <5>1, <5>2
      <4>2. n \in Nat /\ Locals <= n /\ n <= Len(tried[c])
        BY <2>0, <3>0, <4>1
      <4> HIDE DEF local, seen
      <4> QED BY <3>2, <4>2
    <3>4. ASSUME ret[c] = "fail", key[c] # NULL
          PROVE  local \cup {r \in Racks : r = <<REMOTE_DC, 0>>} \subseteq seen(c, Len(tried[c]))
      <4>1. rc_idx[c] = Locals /\ (REMOTE_DC \in DCs => dc_type[c] = REMOTE_DC)
        BY <2>0, <2>1, <3>4 DEF ExhaustedBy
      <4>2. Len(tried[c]) = IF dc_type[c] = LOCAL_DC THEN Locals ELSE Locals + Locals
        BY <2>0, <2>1, <4>1 DEF WalkedBy
      <4>3. local \subseteq seen(c, Len(tried[c]))
        <5>1. Locals <= Len(tried[c])
          BY <2>0, <3>0, <4>2
        <5> HIDE DEF local, seen
        <5> QED BY <2>0, <3>2, <5>1
      <4>4. ASSUME <<REMOTE_DC, 0>> \in Racks PROVE <<REMOTE_DC, 0>> \in seen(c, Len(tried[c]))
        <5>1. REMOTE_DC \in DCs
          BY <4>4, RackFields
        <5>2. Locals + 1 \in 1..Len(tried[c])
          BY <2>0, <3>0, <4>1, <4>2, <5>1
        <5>3. WalkRack(Locals + 1) = <<REMOTE_DC, 0>>
          BY <3>0 DEF WalkRack
        <5> QED BY <3>1, <5>2, <5>3
      <4> QED BY <4>3, <4>4
    <3> QED BY <3>3, <3>4
  <2>2. CASE LOCAL_DC \notin DCs
    <3>1. tried[c] = <<>>
      BY <2>0, <2>2 DEF WalkedBy
    <3> QED BY <2>2, <3>1
  <2> QED BY <2>1, <2>2
<1> QED BY <1>1, WalkInvariant, PTL

(* No interleaving of crashes, resets and reconnections makes a server     *)
(* execute a command twice, except the owners in the local racks after the *)
(* first, and those no more than twice.                                    *)
THEOREM BoundedReexecution == Spec => []ReexecutionBound
<1>1. ASSUME WalkInv PROVE ReexecutionBound
  <2> SUFFICES ASSUME NEW c \in Clients, NEW s \in Slots
               PROVE  exec[c][s] <= IF s[1] = LOCAL_DC /\ s[2] > 0 THEN 2 ELSE 1
    BY DEF ReexecutionBound
  <2>0. LOCAL_DC # REMOTE_DC
    BY DEF LOCAL_DC, REMOTE_DC
  <2>1. /\ CountedAt(c, s) /\ exec[c][s] \in Nat
        /\ s[1] \in {LOCAL_DC, REMOTE_DC} /\ s[2] \in Nat /\ RackOf(s) = <<s[1], s[2]>>
    <3>1. s[1] \in {LOCAL_DC, REMOTE_DC} /\ s[2] \in Nat
      BY SlotFields, TopologyAssumption
    <3> QED BY <1>1, <3>1 DEF WalkInv, IInv, Counted, TypeOK, RackOf
  <2>2. Visits(c, RackOf(s)) <= IF s[1] = LOCAL_DC /\ s[2] > 0 THEN 2 ELSE 1
    BY <2>0, <2>1 DEF Visits
  <2>3. Visits(c, RackOf(s)) \in Nat
    BY DEF Visits
  <2> QED BY <2>1, <2>2, <2>3 DEF CountedAt
<1> QED BY <1>1, WalkInvariant, PTL

-----------------------------------------------------------------------------
(* A slot that has a password is suspect, and what comes after a suspect   *)
(* slot in the same datacenter is suspect too.                             *)
LEMMA SuspectOnward ==
    ASSUME NEW s \in Slots
    PROVE  /\ s \in Protected => Suspect(s)
           /\ \A t \in Slots : Suspect(s) /\ Before(s, t) /\ s[1] = t[1] => Suspect(t)
<1>1. LOCAL_DC # REMOTE_DC /\ Protected \subseteq Slots
  BY ServerAssumption DEF Filled, LOCAL_DC, REMOTE_DC
<1>2. \A t \in Slots : t[2] \in Nat /\ t[3] \in Nat
  BY SlotFields
<1>3. s \in Protected => Suspect(s)
  BY <1>2 DEF Suspect, NoLaterThan
<1>4. ASSUME NEW t \in Slots, Suspect(s), Before(s, t), s[1] = t[1] PROVE Suspect(t)
  <2>1. PICK p \in Protected : NoLaterThan(p, s)
    BY <1>4 DEF Suspect
  <2>2. NoLaterThan(p, t)
    BY <1>1, <1>2, <1>4, <2>1 DEF NoLaterThan, Before
  <2> QED BY <2>2 DEF Suspect
<1> QED BY <1>3, <1>4

(* How the keeper goes on: to a later slot, with a `status` that is        *)
(* INVALID only if the one it carries is.                                  *)
LEMMA InitAdvanceOnward ==
    ASSUME TypeOK, NEW st \in {VALID, INVALID}, InitAdvance(st), st = INVALID => Suspect(kpos)
    PROVE  /\ kpc' \in {"sleep", "init"}
           /\ kpc' = "init" => Before(kpos, kpos')
           /\ kstatus' = INVALID => Suspect(kpos')
<1> DEFINE n == NextSlot(NContinuum, kpos)
<1>1. /\ kpos \in Slots /\ VALID # INVALID
      /\ n # NULL => n \in Slots /\ Before(kpos, n)
  <2>1. kpos \in Slots /\ VALID # INVALID
    BY DEF TypeOK, VALID, INVALID
  <2>2. n \in Slots \cup {NULL}
    BY <2>1, NextSlotType, TopologyAssumption
  <2>3. n # NULL => Before(kpos, n)
    BY <2>1, NextSlotForward, TopologyAssumption
  <2> QED BY <2>1, <2>2, <2>3
<1>2. RackOf(n) = RackOf(kpos) => n[1] = kpos[1]
  BY DEF RackOf
<1>3. CASE n = NULL
  BY <1>1, <1>3 DEF InitAdvance
<1>4. CASE n # NULL
  <2>1. /\ kpc' = "init" /\ kpos' = n
        /\ kstatus' = IF RackOf(n) = RackOf(kpos) THEN st ELSE VALID
    BY <1>4 DEF InitAdvance
  <2>2. st = INVALID /\ RackOf(n) = RackOf(kpos) => Suspect(n)
    <3> HIDE DEF n
    <3> QED BY <1>1, <1>2, <1>4, SuspectOnward
  <2> HIDE DEF n
  <2> QED BY <1>1, <1>4, <2>1, <2>2
<1> QED BY <1>3, <1>4

LEMMA PassAdvanceOnward ==
    ASSUME TypeOK, NEW st \in {VALID, INVALID}, PassAdvance(st), st = INVALID => Suspect(kpos)
    PROVE  /\ kpc' \in {"sleep", "lock"}
           /\ kstatus' = INVALID => Suspect(kpos')
<1> DEFINE n == NextSlot(NodeCount, kpos)
<1>0. \A r \in Racks : NodeCount[r] <= NodeCount[r]
  BY TopologyAssumption
<1>1. /\ kpos \in Slots /\ VALID # INVALID
      /\ n # NULL => n \in Slots /\ Before(kpos, n)
  <2>1. kpos \in Slots /\ VALID # INVALID
    BY DEF TypeOK, VALID, INVALID
  <2>2. n \in Slots \cup {NULL}
    BY <1>0, <2>1, NextSlotType, TopologyAssumption
  <2>3. n # NULL => Before(kpos, n)
    BY <2>1, NextSlotForward, TopologyAssumption
  <2> QED BY <2>1, <2>2, <2>3
<1>2. CASE n = NULL
  BY <1>1, <1>2 DEF PassAdvance
<1>3. CASE n # NULL
  <2>1. /\ kpc' = "lock" /\ kpos' = n
        /\ kstatus' = IF n[1] = kpos[1] THEN st ELSE VALID
    BY <1>3 DEF PassAdvance
  <2>2. st = INVALID /\ n[1] = kpos[1] => Suspect(n)
    <3> HIDE DEF n
    <3> QED BY <1>1, <1>3, SuspectOnward
  <2> HIDE DEF n
  <2> QED BY <1>1, <1>3, <2>1, <2>2
<1> QED BY <1>2, <1>3

(* A slot about to be stored into is INVALID, or empty in dynoc_start.     *)
LEMMA StoreLeaks ==
    ASSUME LeakInv, NEW x \in Contexts, NEW st, Store(x, st),
           kctx' = NULL, kctx \in {NULL, x}, peer'[x] = kpos,
           \A y \in Contexts : y # x => heap'[y] = heap[y] /\ peer'[y] = peer[y],
           Starting \/ status[kpos] = INVALID,
           st = INVALID => Suspect(kpos)
    PROVE  InvalidSuspect' /\ LeakNeedsPassword'
<1> USE DEF LeakInv
<1>1. /\ kpos \in Slots /\ ctx[kpos] \in Contexts \cup {NULL} /\ NULL \notin Contexts
      /\ ctx'[kpos] = x /\ status'[kpos] = st
      /\ \A s \in Slots : s # kpos => ctx'[s] = ctx[s] /\ status'[s] = status[s]
  BY NullAssumption DEF IInv, TypeOK, Store
<1>2. InvalidSuspect'
  BY <1>1 DEF InvalidSuspect, Suspect
<1>3. Starting => ctx[kpos] = NULL
  BY <1>1, BeforeOrder DEF FreshSlots
<1>4. ASSUME NEW y \in Contexts, y \in Leaked' PROVE Suspect(peer'[y])
  <2>1. y # x /\ heap[y] # "free" /\ peer'[y] = peer[y]
    BY <1>1, <1>4 DEF Leaked
  <2>2. \A s \in Slots : s # kpos => ctx[s] # y
    BY <1>1, <1>4 DEF Leaked
  <2>3. y # kctx
    BY <1>1, <2>1
  <2>4. CASE ctx[kpos] = y
    <3>1. status[kpos] = INVALID /\ ctx[kpos] # NULL
      BY <1>1, <1>3, <2>4
    <3>2. peer[y] = kpos
      BY <1>1, <2>4, <3>1 DEF IInv, ContextOwnership
    <3> QED BY <1>1, <2>1, <3>1, <3>2 DEF InvalidSuspect
  <2>5. CASE ctx[kpos] # y
    <3>1. y \in Leaked
      BY <2>1, <2>2, <2>3, <2>5 DEF Leaked
    <3> QED BY <2>1, <3>1 DEF LeakNeedsPassword
  <2> QED BY <2>4, <2>5
<1>5. LeakNeedsPassword'
  <2>1. Leaked' \subseteq Contexts
    BY DEF Leaked
  <2>2. \A y \in Leaked' : Suspect(peer'[y])
    BY <1>4, <2>1
  <2> QED BY <2>2 DEF LeakNeedsPassword, Suspect
<1> QED BY <1>2, <1>5

(* A step that stores nothing loses no context: it keeps every slot that   *)
(* it does not reset, and the context of a slot it resets it frees.        *)
LEMMA NothingLeaks ==
    ASSUME LeakInv,
           \A y \in Contexts : heap'[y] # "free" =>
              \/ heap[y] # "free" /\ peer'[y] = peer[y]
              \/ kctx' = y,
           \A s \in Slots : \/ ctx'[s] = ctx[s] /\ status'[s] = status[s]
                            \/ ctx'[s] = NULL /\ (ctx[s] # NULL => heap'[ctx[s]] = "free"),
           kctx' = kctx \/ kctx = NULL
    PROVE  InvalidSuspect' /\ LeakNeedsPassword'
<1> USE DEF LeakInv
<1>1. InvalidSuspect'
  BY DEF InvalidSuspect, Suspect
<1>2. NULL \notin Contexts
  BY NullAssumption
<1>3. ASSUME NEW y \in Contexts, y \in Leaked' PROVE y \in Leaked /\ peer'[y] = peer[y]
  <2>1. heap'[y] # "free" /\ y # kctx' /\ \A s \in Slots : ctx'[s] # y
    BY <1>3 DEF Leaked
  <2>2. heap[y] # "free" /\ peer'[y] = peer[y] /\ y # kctx
    BY <1>2, <2>1
  <2>3. \A s \in Slots : ctx[s] # y
    BY <1>2, <2>1
  <2> QED BY <2>2, <2>3 DEF Leaked
<1>4. \A y \in Leaked' : Suspect(peer'[y])
  <2>1. Leaked' \subseteq Contexts
    BY DEF Leaked
  <2> QED BY <1>3, <2>1 DEF LeakNeedsPassword
<1> QED BY <1>1, <1>4 DEF LeakNeedsPassword, Suspect

LEMMA StartLeakStep ==
    ASSUME LeakInv, StartStep
    PROVE  LeakInv'
<1> USE DEF LeakInv
<1>0. /\ TypeOK /\ IInv' /\ kpos \in Slots /\ kpos' \in Slots /\ kstatus \in {VALID, INVALID}
      /\ kctx \in Contexts \cup {NULL} /\ TypeOK'
  <2>1. IInv'
    BY StepIInv DEF Next
  <2> QED BY <2>1 DEF IInv, TypeOK
<1>1. ASSUME NEW x \in Contexts, InitConnectForAuth(x) PROVE LeakInv'
  <2>1. /\ Connect(kpos, x) /\ kpc = "init" /\ kpc' = "init_auth" /\ kctx' = x
        /\ kpos \in Protected
        /\ UNCHANGED <<status, ctx, kpos, kstatus>>
    BY <1>1 DEF InitConnectForAuth, poolVars
  <2>2. KeeperContext' /\ FreshSlots' /\ Reopening' /\ StatusSuspect'
    BY <2>1 DEF KeeperContext, FreshSlots, Starting, Reopening, StatusSuspect, Suspect
  <2>3. InvalidSuspect' /\ LeakNeedsPassword'
    <3>1. kctx = NULL
      BY <2>1 DEF KeeperContext
    <3>2. \A y \in Contexts : y # x => heap'[y] = heap[y] /\ peer'[y] = peer[y]
      BY <1>0, <2>1, ConnectFresh DEF IInv
    <3> QED BY <2>1, <3>1, <3>2, NothingLeaks
  <2> QED BY <1>0, <2>2, <2>3
<1>2. ASSUME \/ InitConnectFail \/ InitAuth \/ \E x \in Contexts : InitConnect(x),
             NEW st \in {VALID, INVALID}, InitAdvance(st), st = INVALID => Suspect(kpos),
             \A s \in Slots : s # kpos => ctx'[s] = ctx[s]
      PROVE  KeeperContext' /\ FreshSlots' /\ Reopening' /\ StatusSuspect'
  <2>1. /\ kpc' \in {"sleep", "init"}
        /\ kpc' = "init" => Before(kpos, kpos')
        /\ kstatus' = INVALID => Suspect(kpos')
    BY <1>0, <1>2, InitAdvanceOnward
  <2>2. kctx' = NULL
    BY <1>2 DEF InitConnectFail, InitConnect, InitAuth, KeeperContext
  <2>3. FreshSlots'
    <3> SUFFICES ASSUME Starting', NEW s \in Slots, ctx'[s] # NULL PROVE Before(s, kpos')
      BY DEF FreshSlots
    <3>1. Before(kpos, kpos') /\ Starting
      BY <1>2, <2>1 DEF Starting, InitConnectFail, InitConnect, InitAuth
    <3>2. s # kpos => Before(s, kpos)
      BY <1>2, <3>1 DEF FreshSlots
    <3> QED BY <1>0, <3>1, <3>2, BeforeOrder
  <2>4. KeeperContext' /\ Reopening' /\ StatusSuspect'
    BY <2>1, <2>2 DEF KeeperContext, Reopening, StatusSuspect, Suspect
  <2> QED BY <2>3, <2>4
<1>3. CASE InitConnectFail
  <2>1. /\ InitAdvance(kstatus) /\ UNCHANGED <<status, ctx, heap, peer, kctx>>
        /\ kstatus = INVALID => Suspect(kpos)
    BY <1>3 DEF InitConnectFail, poolVars, netVars, StatusSuspect
  <2>2. KeeperContext' /\ FreshSlots' /\ Reopening' /\ StatusSuspect'
    BY <1>0, <1>2, <1>3, <2>1
  <2>3. InvalidSuspect' /\ LeakNeedsPassword'
    BY <2>1, NothingLeaks
  <2> QED BY <1>0, <2>2, <2>3
<1>4. ASSUME NEW x \in Contexts, InitConnect(x) PROVE LeakInv'
  <2>1. /\ Starting /\ Connect(kpos, x) /\ Store(x, kstatus) /\ InitAdvance(kstatus)
        /\ kctx = NULL /\ kctx' = NULL
        /\ kstatus = INVALID => Suspect(kpos)
    BY <1>4 DEF InitConnect, Starting, KeeperContext, StatusSuspect
  <2>2. \A s \in Slots : s # kpos => ctx'[s] = ctx[s]
    BY <1>0, <2>1 DEF Store, TypeOK
  <2>3. KeeperContext' /\ FreshSlots' /\ Reopening' /\ StatusSuspect'
    BY <1>0, <1>2, <1>4, <2>1, <2>2
  <2>4. peer'[x] = kpos /\ \A y \in Contexts : y # x => heap'[y] = heap[y] /\ peer'[y] = peer[y]
    BY <1>0, <2>1, ConnectFresh DEF IInv
  <2>5. InvalidSuspect' /\ LeakNeedsPassword'
    BY <2>1, <2>4, StoreLeaks
  <2> QED BY <1>0, <2>3, <2>5
<1>5. CASE InitAuth
  <2>1. /\ Starting /\ Store(kctx, AuthStatus) /\ InitAdvance(AuthStatus) /\ kctx' = NULL
        /\ heap' = heap /\ peer' = peer /\ kctx \in Contexts /\ peer[kctx] = kpos
        /\ kpos \in Protected
    BY <1>5 DEF InitAuth, Starting, Reopening, IInv, AuthContext, netVars
  <2>2. Suspect(kpos) /\ AuthStatus \in {VALID, INVALID}
    BY <1>0, <2>1, SuspectOnward, AuthStatusType
  <2>3. \A s \in Slots : s # kpos => ctx'[s] = ctx[s]
    BY <1>0, <2>1 DEF Store, TypeOK
  <2>4. KeeperContext' /\ FreshSlots' /\ Reopening' /\ StatusSuspect'
    BY <1>2, <1>5, <2>1, <2>2, <2>3
  <2>5. InvalidSuspect' /\ LeakNeedsPassword'
    BY <2>1, <2>2, StoreLeaks
  <2> QED BY <1>0, <2>4, <2>5
<1> QED BY <1>1, <1>3, <1>4, <1>5 DEF StartStep

LEMMA PassLeakStep ==
    ASSUME LeakInv, PassStep \/ KeeperLock
    PROVE  LeakInv'
<1> USE DEF LeakInv
<1>0. /\ TypeOK /\ IInv' /\ kpos \in Slots /\ kstatus \in {VALID, INVALID}
      /\ kctx \in Contexts \cup {NULL} /\ TypeOK' /\ VALID # INVALID
  <2>1. IInv'
    BY StepIInv DEF Next
  <2>2. TypeOK /\ TypeOK'
    BY <2>1 DEF IInv
  <2>3. /\ kpos \in Slots /\ kstatus \in {VALID, INVALID}
        /\ kctx \in Contexts \cup {NULL}
    BY <2>2 DEF TypeOK
  <2>4. VALID # INVALID
    BY DEF VALID, INVALID
  <2> QED BY <2>1, <2>2, <2>3, <2>4
<1>1. FreshSlots'
  BY PassFrame DEF FreshSlots
<1>2. ASSUME Reconnecting \/ kpc = "auth" PROVE status[kpos] = INVALID
  BY <1>2 DEF Reconnecting, Reopening
<1>3. ASSUME NEW st \in {VALID, INVALID}, PassAdvance(st), st = INVALID => Suspect(kpos), kctx' = NULL
      PROVE  KeeperContext' /\ Reopening' /\ StatusSuspect'
  <2>1. kpc' \in {"sleep", "lock"} /\ (kstatus' = INVALID => Suspect(kpos'))
    BY <1>0, <1>3, PassAdvanceOnward
  <2> QED BY <1>3, <2>1 DEF KeeperContext, Reopening, StatusSuspect, Suspect
<1>4. CASE Wake \/ KeeperLock
  <2>1. /\ UNCHANGED <<status, ctx, heap, peer, kctx, kpos, kstatus>>
        /\ kpc \in {"sleep", "lock"} /\ kpc' \in {"lock", "locked"}
    BY <1>4 DEF Wake, KeeperLock, poolVars, netVars
  <2>2. KeeperContext' /\ Reopening' /\ StatusSuspect'
    BY <2>1 DEF KeeperContext, Reopening, StatusSuspect, Suspect
  <2>3. InvalidSuspect' /\ LeakNeedsPassword'
    BY <2>1, NothingLeaks
  <2> QED BY <1>0, <1>1, <2>2, <2>3
<1>5. CASE PingAlive \/ ReconnectFail
  <2>1. /\ PassAdvance(kstatus) /\ UNCHANGED <<status, ctx, heap, peer, kctx>>
        /\ kstatus = INVALID => Suspect(kpos)
        /\ kctx = NULL
    BY <1>5 DEF PingAlive, ReconnectFail, Reconnecting, netVars, StatusSuspect, KeeperContext
  <2>2. KeeperContext' /\ Reopening' /\ StatusSuspect'
    BY <1>0, <1>3, <2>1
  <2>3. InvalidSuspect' /\ LeakNeedsPassword'
    BY <2>1, NothingLeaks
  <2> QED BY <1>0, <1>1, <2>2, <2>3
<1>6. CASE PingDead
  <2>1. /\ kpc = "locked" /\ kpc' = "connect" /\ UNCHANGED <<kpos, kstatus, kctx>>
        /\ ctx[kpos] # NULL /\ reset_redis_connection(kpos)
    BY <1>0, <1>6, PingDeadResets DEF PingDead, IInv
  <2>2. /\ status'[kpos] = INVALID /\ ctx'[kpos] = NULL /\ ctx[kpos] \in Contexts
        /\ \A s \in Slots : s # kpos => ctx'[s] = ctx[s] /\ status'[s] = status[s]
        /\ heap'[ctx[kpos]] = "free"
        /\ \A y \in Contexts : y # ctx[kpos] => heap'[y] = heap[y] /\ peer'[y] = peer[y]
    BY <1>0, <2>1 DEF reset_redis_connection, redisFree, TypeOK
  <2>3. KeeperContext' /\ Reopening' /\ StatusSuspect'
    BY <2>1, <2>2 DEF KeeperContext, Reopening, StatusSuspect, Suspect
  <2>4. InvalidSuspect' /\ LeakNeedsPassword'
    BY <2>1, <2>2, NothingLeaks
  <2> QED BY <1>0, <1>1, <2>3, <2>4
<1>7. ASSUME NEW x \in Contexts, Reconnect(x) PROVE LeakInv'
  <2>1. /\ Connect(kpos, x) /\ Store(x, kstatus) /\ PassAdvance(kstatus)
        /\ kctx = NULL /\ kctx' = NULL /\ status[kpos] = INVALID
        /\ kstatus = INVALID => Suspect(kpos)
    BY <1>2, <1>7 DEF Reconnect, Reconnecting, KeeperContext, StatusSuspect
  <2>2. KeeperContext' /\ Reopening' /\ StatusSuspect'
    BY <1>0, <1>3, <2>1
  <2>3. peer'[x] = kpos /\ \A y \in Contexts : y # x => heap'[y] = heap[y] /\ peer'[y] = peer[y]
    BY <1>0, <2>1, ConnectFresh DEF IInv
  <2>4. InvalidSuspect' /\ LeakNeedsPassword'
    BY <2>1, <2>3, StoreLeaks
  <2> QED BY <1>0, <1>1, <2>2, <2>4
<1>8. ASSUME NEW x \in Contexts, ReconnectForAuth(x) PROVE LeakInv'
  <2>1. /\ Connect(kpos, x) /\ kpc' = "auth" /\ kctx' = x /\ kctx = NULL
        /\ kpos \in Protected /\ status[kpos] = INVALID
        /\ UNCHANGED <<status, ctx, kpos, kstatus>>
    BY <1>2, <1>8 DEF ReconnectForAuth, Reconnecting, KeeperContext, poolVars
  <2>2. KeeperContext' /\ Reopening' /\ StatusSuspect'
    BY <2>1 DEF KeeperContext, Reopening, StatusSuspect, Suspect
  <2>3. \A y \in Contexts : y # x => heap'[y] = heap[y] /\ peer'[y] = peer[y]
    BY <1>0, <2>1, ConnectFresh DEF IInv
  <2>4. InvalidSuspect' /\ LeakNeedsPassword'
    BY <2>1, <2>3, NothingLeaks
  <2> QED BY <1>0, <1>1, <2>2, <2>4
<1>9. CASE ReconnectAuth
  <2>1. /\ Store(kctx, AuthStatus) /\ PassAdvance(AuthStatus) /\ kctx' = NULL
        /\ heap' = heap /\ peer' = peer /\ kctx \in Contexts /\ peer[kctx] = kpos
        /\ kpos \in Protected /\ status[kpos] = INVALID
    BY <1>2, <1>9 DEF ReconnectAuth, Reopening, IInv, AuthContext, netVars
  <2>2. Suspect(kpos) /\ AuthStatus \in {VALID, INVALID}
    BY <1>0, <2>1, SuspectOnward, AuthStatusType
  <2>3. KeeperContext' /\ Reopening' /\ StatusSuspect'
    BY <1>3, <2>1, <2>2
  <2>4. InvalidSuspect' /\ LeakNeedsPassword'
    BY <2>1, <2>2, StoreLeaks
  <2> QED BY <1>0, <1>1, <2>3, <2>4
<1> QED BY <1>4, <1>5, <1>6, <1>7, <1>8, <1>9 DEF PassStep

LEMMA OtherLeakStep ==
    ASSUME LeakInv,
           \/ \E c \in Clients : Invoke(c) \/ ClientStep(c) \/ ClientLock(c) \/ Serve(c)
           \/ \E s \in Filled : Crash(s) \/ Recover(s)
    PROVE  LeakInv'
<1> USE DEF LeakInv
<1>0. TypeOK /\ IInv' /\ VALID # INVALID
  <2>1. IInv'
    BY StepIInv DEF Next
  <2> QED BY <2>1 DEF IInv, VALID, INVALID
<1>1. UNCHANGED keeperVars
  BY ClientFrame, ServerFrame
<1>2. /\ \A y \in Contexts : heap'[y] # "free" => heap[y] # "free" /\ peer'[y] = peer[y]
      /\ \A s \in Slots : \/ ctx'[s] = ctx[s] /\ status'[s] = status[s]
                         \/ /\ ctx'[s] = NULL /\ status'[s] = INVALID
                            /\ ctx[s] # NULL => heap'[ctx[s]] = "free"
  <2>1. ASSUME NEW c \in Clients, FailOver(c)
        PROVE  /\ \A y \in Contexts : heap'[y] # "free" => heap[y] # "free" /\ peer'[y] = peer[y]
               /\ \A s \in Slots : \/ ctx'[s] = ctx[s] /\ status'[s] = status[s]
                                  \/ /\ ctx'[s] = NULL /\ status'[s] = INVALID
                                     /\ ctx[s] # NULL => heap'[ctx[s]] = "free"
    <3>1. reset_redis_connection(conn[c]) /\ conn[c] \in Slots /\ ctx[conn[c]] \in Contexts
      BY <2>1, WaitHasContext DEF FailOver, IInv
    <3> QED BY <1>0, <3>1 DEF reset_redis_connection, redisFree, TypeOK
  <2>2. CASE UNCHANGED <<status, ctx, heap, peer>>
    BY <2>2
  <2>3. ASSUME NEW s \in Filled, Crash(s) \/ Recover(s)
        PROVE  /\ UNCHANGED <<status, ctx>>
               /\ \A y \in Contexts : heap'[y] # "free" => heap[y] # "free" /\ peer'[y] = peer[y]
    BY <1>0, <2>3, CrashOwned, ServerFrame DEF poolVars
  <2> QED BY <1>0, <2>1, <2>2, <2>3, ClientChanges DEF netVars
<1>3. KeeperContext' /\ FreshSlots' /\ Reopening' /\ StatusSuspect'
  <2>1. UNCHANGED <<kpc, kpos, kstatus, kctx>> /\ kpos \in Slots
    BY <1>0, <1>1 DEF keeperVars, TypeOK
  <2> QED BY <1>2, <2>1 DEF KeeperContext, FreshSlots, Starting, Before, Reopening,
          StatusSuspect, Suspect
<1>4. InvalidSuspect' /\ LeakNeedsPassword'
  BY <1>1, <1>2, NothingLeaks DEF keeperVars
<1> QED BY <1>0, <1>3, <1>4

LEMMA InitLeakInv == Init => LeakInv
<1> SUFFICES ASSUME Init PROVE LeakInv
  OBVIOUS
<1>1. /\ KeeperContext /\ FreshSlots /\ Reopening /\ StatusSuspect /\ InvalidSuspect
      /\ LeakNeedsPassword
  BY DEF Init, KeeperContext, FreshSlots, Reopening, StatusSuspect, InvalidSuspect,
     LeakNeedsPassword, Leaked, VALID, INVALID
<1> QED BY <1>1, InitIInv DEF LeakInv

(* A slot that dynoc_start has not filled, or that AUTH left in doubt,      *)
(* stays recognisable until the next pass of the health check.             *)
THEOREM LeakInvariant == Spec => []LeakInv
<1>1. ASSUME LeakInv, UNCHANGED vars PROVE LeakInv'
  <2>1. IInv'
    BY <1>1, StepIInv DEF LeakInv
  <2> QED BY <1>1, <2>1 DEF LeakInv, vars, poolVars, netVars, keeperVars, KeeperContext,
          FreshSlots, Starting, Before, Reopening, StatusSuspect, InvalidSuspect, Suspect,
          LeakNeedsPassword, Leaked
<1>2. LeakInv /\ [Next]_vars => LeakInv'
  BY <1>1, StartLeakStep, PassLeakStep, OtherLeakStep DEF Next
<1> QED BY <1>2, InitLeakInv, PTL DEF Spec

(* Every connection the client loses was opened for a node with a password *)
(* or for one behind such a node in the same datacenter: without passwords *)
(* no sequence of crashes, resets and reconnections leaks one.             *)
THEOREM LeaksOnlyAroundAuth == Spec => []LeakNeedsPassword
<1>1. LeakInv => LeakNeedsPassword
  BY DEF LeakInv
<1> QED BY <1>1, LeakInvariant, PTL
=============================================================================
