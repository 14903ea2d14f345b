------------------------------ MODULE NetlinkProofs ------------------------------
(***************************************************************************)
(* Theorems about what one request over netlink is made of: NetlinkContext,*)
(* the deadline it waits under, for any number of calls and goroutines;    *)
(* and LinuxDump, the answer that is collected and put together, for every *)
(* device and every way to cut its dump into messages.                     *)
(*                                                                         *)
(* Of the deadline: it is the socket's only while a call owns it, so no    *)
(* call is interrupted by another's.  Of the answer: the device that is    *)
(* returned has no peer twice and everything that the kernel sent; and if  *)
(* nobody changed it while the dump was under way, it is the kernel's,     *)
(* with every peer in its place and all allowed IPs in order.              *)
(***************************************************************************)
EXTENDS NetlinkContext, LinuxDump, FiniteSetTheorems, SequenceTheorems, WellFoundedInduction,
        TLAPS

-----------------------------------------------------------------------------
(* NetlinkContext: the inductive invariant.                                *)

\* A call's AfterFunc goroutine exists only once it is armed, runs only on a
\* context that has ended, and is accounted for before the deadline is cleared.
AfterFuncDiscipline ==
  \A c \in Calls :
    /\ pc[c] \in {"new", "set", "arm"} => after[c] = "none"
    /\ pc[c] \in {"check", "stop", "join", "clear"} => after[c] # "none"
    /\ pc[c] \in {"clear", "done"} => after[c] \in {"none", "stopped", "fired"}
    /\ after[c] \in {"started", "moved", "fired"} => ctxDone[c]

\* Every deadline on the socket has an owner that is going to clear it.
DeadlineOwner ==
  /\ ~ hasDeadlines => deadline = Unset
  /\ deadline \in Calls => MayHoldDeadline(deadline)
  /\ deadline = Past => \E c \in Calls : MayHoldDeadline(c) /\ ctxDone[c]

IInv == TypeOK /\ AfterFuncDiscipline /\ DeadlineOwner

-----------------------------------------------------------------------------
(* Type correctness.                                                       *)

\* withContext goes on to one of three steps.
LEMMA FirstSteps ==
  ASSUME TypeOK, NEW c \in Calls PROVE FirstStep(c) \in {"lock", "set", "arm"}
<1>1. kind[c] \in Kinds BY DEF TypeOK
<1>2. CASE kind[c] = "background" BY <1>2 DEF FirstStep
<1>3. CASE kind[c] = "deadline" BY <1>3 DEF FirstStep
<1>4. CASE kind[c] = "cancel" BY <1>4 DEF FirstStep
<1> QED BY <1>1, <1>2, <1>3, <1>4 DEF Kinds

\* No call has begun.
LEMMA TypeInit == Init => TypeOK
BY DEF Init, TypeOK, Reply, Kinds, PCs, Afters, FnErrs, Results

\* Every step of Next keeps each variable in its type.
LEMMA TypeStep == TypeOK /\ [Next]_vars => TypeOK'
<1> SUFFICES ASSUME TypeOK, [Next]_vars PROVE TypeOK'
    OBVIOUS
<1> USE DEF TypeOK, Kinds, PCs, Afters, FnErrs, Results, ctxVars, sockVars
<1>1. ASSUME NEW c \in Calls, Caller(c) PROVE TypeOK'
  <2>1. CASE BeginCancelled(c) BY <2>1 DEF BeginCancelled, Goto
  <2>2. CASE Begin(c) BY <2>2, FirstSteps DEF Begin, Goto
  <2>3. CASE SetCtxDeadline(c) BY <2>3 DEF SetCtxDeadline, SetDeadline, Goto
  <2>4. CASE Arm(c) BY <2>4 DEF Arm, Goto
  <2>5. CASE Lock(c) BY <2>5, NamesAssumption DEF Lock, MayUseSocket, Goto
  <2>6. CASE Send(c) BY <2>6 DEF Send, Goto
  <2>7. CASE Receive(c) BY <2>7 DEF Receive, FnReturns, Goto
  <2>8. CASE Timeout(c) BY <2>8 DEF Timeout, FnReturns, Goto
  <2>9. CASE Check(c) BY <2>9 DEF Check, Goto
  <2>10. CASE Stop(c) BY <2>10 DEF Stop, AwaitsFired, Goto
  <2>11. CASE Join(c) BY <2>11 DEF Join, Goto
  <2>12. CASE Clear(c) BY <2>12 DEF Clear, SetDeadline, Goto
  <2> QED BY <1>1, <2>1, <2>2, <2>3, <2>4, <2>5, <2>6, <2>7, <2>8, <2>9,
             <2>10, <2>11, <2>12 DEF Caller
<1>2. ASSUME NEW c \in Calls, AfterFunc(c) PROVE TypeOK'
  BY <1>2 DEF AfterFunc, MoveDeadline, CloseFired, SetDeadline
<1>3. ASSUME NEW c \in Calls, KernelAnswers(c) PROVE TypeOK'
  <2>1. PICK errno \in BOOLEAN : replies' = Append(replies, [to |-> c, errno |-> errno])
    BY <1>3 DEF KernelAnswers
  <2>2. [to |-> c, errno |-> errno] \in Reply BY DEF Reply
  <2>3. replies' \in Seq(Reply) BY <2>1, <2>2
  <2> QED BY <1>3, <2>3 DEF KernelAnswers
<1>4. ASSUME NEW c \in Calls, TimePasses(c) \/ CtxEnds(c) PROVE TypeOK'
  <2>1. CASE TimePasses(c) BY <2>1 DEF TimePasses
  <2>2. CASE CtxEnds(c) BY <2>2 DEF CtxEnds
  <2> QED BY <1>4, <2>1, <2>2
<1>5. CASE UNCHANGED vars BY <1>5 DEF vars
<1> QED BY <1>1, <1>2, <1>3, <1>4, <1>5 DEF Next, AllDone

\* Every state of the protocol is well typed.
THEOREM TypeCorrect == Spec => []TypeOK
BY TypeInit, TypeStep, PTL DEF Spec

-----------------------------------------------------------------------------
(* The inductive invariant.                                                *)

\* No deadline and no AfterFunc goroutine exists yet.
LEMMA InvInit == Init => IInv
BY TypeInit, NamesAssumption
   DEF Init, IInv, AfterFuncDiscipline, DeadlineOwner

\* A call goes through its AfterFunc goroutine's states in order.
LEMMA DisciplineStep ==
  TypeOK /\ AfterFuncDiscipline /\ [Next]_vars => AfterFuncDiscipline'
<1> SUFFICES ASSUME TypeOK, AfterFuncDiscipline, [Next]_vars
             PROVE  AfterFuncDiscipline'
    OBVIOUS
<1> USE DEF TypeOK, PCs, Afters, AfterFuncDiscipline, ctxVars, sockVars
<1>1. ASSUME NEW c \in Calls, Caller(c) PROVE AfterFuncDiscipline'
  <2>1. CASE BeginCancelled(c) BY <2>1 DEF BeginCancelled, Goto
  <2>2. CASE Begin(c) BY <2>2, FirstSteps DEF Begin, Goto
  <2>3. CASE SetCtxDeadline(c) BY <2>3 DEF SetCtxDeadline, Goto
  <2>4. CASE Arm(c) BY <2>4 DEF Arm, Goto
  <2>5. CASE Lock(c) BY <2>5 DEF Lock, MayUseSocket, Goto
  <2>6. CASE Send(c) BY <2>6 DEF Send, Goto
  <2>7. CASE Receive(c) BY <2>7 DEF Receive, FnReturns, Goto
  <2>8. CASE Timeout(c) BY <2>8 DEF Timeout, FnReturns, Goto
  <2>9. CASE Check(c) BY <2>9 DEF Check, Goto
  <2>10. CASE Stop(c) BY <2>10 DEF Stop, AwaitsFired, Goto
  <2>11. CASE Join(c) BY <2>11 DEF Join, Goto
  <2>12. CASE Clear(c) BY <2>12 DEF Clear, Goto
  <2> QED BY <1>1, <2>1, <2>2, <2>3, <2>4, <2>5, <2>6, <2>7, <2>8, <2>9,
             <2>10, <2>11, <2>12 DEF Caller
<1>2. ASSUME NEW c \in Calls, AfterFunc(c) PROVE AfterFuncDiscipline'
  BY <1>2 DEF AfterFunc, MoveDeadline, CloseFired
<1>3. ASSUME NEW c \in Calls, KernelAnswers(c) \/ TimePasses(c) \/ CtxEnds(c)
      PROVE AfterFuncDiscipline'
  BY <1>3 DEF KernelAnswers, TimePasses, CtxEnds
<1>4. CASE UNCHANGED vars BY <1>4 DEF vars
<1> QED BY <1>1, <1>2, <1>3, <1>4 DEF Next, AllDone

\* What a step leaves alone of the deadline keeps its owner: the owner is
\* still in the part of withContext that ends with Clear.
LEMMA OwnerKept ==
  ASSUME IInv, UNCHANGED <<deadline, hasDeadlines>>,
         \A d \in Calls : MayHoldDeadline(d) => MayHoldDeadline(d)',
         \A d \in Calls : ctxDone[d] => ctxDone'[d]
  PROVE  DeadlineOwner'
BY NamesAssumption DEF IInv, DeadlineOwner

\* Whoever sets a deadline is still to clear it.
LEMMA OwnerStep == IInv /\ [Next]_vars => DeadlineOwner'
<1> SUFFICES ASSUME IInv, [Next]_vars PROVE DeadlineOwner'
    OBVIOUS
<1> USE DEF IInv, TypeOK, PCs, Afters, AfterFuncDiscipline, ctxVars, sockVars
<1>1. ASSUME NEW c \in Calls,
             \/ BeginCancelled(c) \/ Begin(c) \/ Arm(c) \/ Lock(c) \/ Send(c)
             \/ Receive(c) \/ Timeout(c) \/ Check(c) \/ Stop(c) \/ Join(c)
      PROVE DeadlineOwner'
  <2>1. UNCHANGED <<deadline, hasDeadlines, ctxDone>>
    BY <1>1 DEF BeginCancelled, Begin, Arm, Lock, Send, Receive, Timeout,
                Check, Stop, Join
  <2>2. \A d \in Calls : MayHoldDeadline(d) => MayHoldDeadline(d)'
    <3> SUFFICES ASSUME NEW d \in Calls, MayHoldDeadline(d)
                 PROVE  MayHoldDeadline(d)'
        OBVIOUS
    <3> USE DEF MayHoldDeadline, Goto
    <3>1. CASE BeginCancelled(c) BY <3>1 DEF BeginCancelled
    <3>2. CASE Begin(c) BY <3>2 DEF Begin
    <3>3. CASE Arm(c) BY <3>3 DEF Arm
    <3>4. CASE Lock(c) BY <3>4 DEF Lock, MayUseSocket
    <3>5. CASE Send(c) BY <3>5 DEF Send
    <3>6. CASE Receive(c) BY <3>6 DEF Receive, FnReturns
    <3>7. CASE Timeout(c) BY <3>7 DEF Timeout, FnReturns
    <3>8. CASE Check(c) BY <3>8 DEF Check
    <3>9. CASE Stop(c) BY <3>9 DEF Stop, AwaitsFired
    <3>10. CASE Join(c) BY <3>10 DEF Join
    <3> QED BY <1>1, <3>1, <3>2, <3>3, <3>4, <3>5, <3>6, <3>7, <3>8, <3>9, <3>10
  <2> QED BY <2>1, <2>2, OwnerKept
<1>2. ASSUME NEW c \in Calls, SetCtxDeadline(c) PROVE DeadlineOwner'
  BY <1>2, NamesAssumption
     DEF SetCtxDeadline, SetDeadline, Goto, DeadlineOwner, MayHoldDeadline
<1>3. ASSUME NEW c \in Calls, Clear(c) PROVE DeadlineOwner'
  BY <1>3, NamesAssumption DEF Clear, SetDeadline, DeadlineOwner
<1>4. ASSUME NEW c \in Calls, MoveDeadline(c) PROVE DeadlineOwner'
  <2>1. MayHoldDeadline(c)' /\ ctxDone'[c]
    BY <1>4 DEF MoveDeadline, MayHoldDeadline
  <2>2. CASE hasDeadlines
    BY <1>4, <2>1, <2>2, NamesAssumption DEF MoveDeadline, SetDeadline, DeadlineOwner
  <2>3. CASE ~ hasDeadlines
    BY <1>4, <2>3, NamesAssumption DEF MoveDeadline, SetDeadline, DeadlineOwner
  <2> QED BY <2>2, <2>3
<1>5. ASSUME NEW c \in Calls,
             CloseFired(c) \/ KernelAnswers(c) \/ TimePasses(c) \/ CtxEnds(c)
      PROVE DeadlineOwner'
  <2>1. UNCHANGED <<deadline, hasDeadlines>> /\ \A d \in Calls : ctxDone[d] => ctxDone'[d]
    BY <1>5 DEF CloseFired, KernelAnswers, TimePasses, CtxEnds
  <2>2. \A d \in Calls : MayHoldDeadline(d) => MayHoldDeadline(d)'
    BY <1>5 DEF CloseFired, KernelAnswers, TimePasses, CtxEnds, MayHoldDeadline
  <2> QED BY <2>1, <2>2, OwnerKept
<1>6. CASE UNCHANGED vars
  BY <1>6 DEF vars, DeadlineOwner, MayHoldDeadline
<1> QED BY <1>1, <1>2, <1>3, <1>4, <1>5, <1>6
        DEF Next, AllDone, Caller, AfterFunc

\* The invariant is inductive.
LEMMA InvStep == IInv /\ [Next]_vars => IInv'
BY TypeStep, DisciplineStep, OwnerStep DEF IInv

\* The socket's deadline always has an owner that is going to clear it.
THEOREM Invariance == Spec => []IInv
BY InvInit, InvStep, PTL DEF Spec

-----------------------------------------------------------------------------
(* The properties.                                                         *)

\* A deadline never stays on the connection once the call that set it is
\* over, whatever the other calls do meanwhile.
THEOREM DeadlineNeverStale == Spec => []NoStaleDeadline
<1>1. IInv => NoStaleDeadline
  BY DEF IInv, TypeOK, DeadlineOwner, NoStaleDeadline
<1> QED BY <1>1, Invariance, PTL

\* I/O is cut short only for a call under way whose context is over.
THEOREM InterruptionHasACause == Spec => []ExpiredForACause
<1>1. IInv => ExpiredForACause
  BY DEF IInv, TypeOK, DeadlineOwner, ExpiredForACause, Expired
<1> QED BY <1>1, Invariance, PTL

\* No AfterFunc goroutine outlives the call of withContext that armed it.
THEOREM AfterFuncJoined == Spec => []NoLateAfterFunc
<1>1. IInv => NoLateAfterFunc
  BY DEF IInv, AfterFuncDiscipline, NoLateAfterFunc
<1> QED BY <1>1, Invariance, PTL

-----------------------------------------------------------------------------
(* The stream of replies.  As long as no call has given up, the connection *)
(* owes at most one reply, the one its lock's holder is waiting for.       *)

NoErrYet ==
  \A c \in Calls :
    pc[c] \in {"new", "set", "arm", "lock", "send", "receive"} => err[c] = "none"

NobodyGaveUp == \A c \in Calls : err[c] # "timeout"

InStep ==
  /\ \A c \in Calls : err[c] # "mismatch"
  /\ \A c \in asked : pc[c] = "receive" /\ replies = <<>>
  /\ replies # <<>> => /\ Tail(replies) = <<>>
                       /\ pc[Head(replies).to] = "receive"

RInv == TypeOK /\ NoErrYet /\ (NobodyGaveUp => InStep)

\* A call has no error before its request was answered or cut short.
LEMMA NoErrStep == TypeOK /\ NoErrYet /\ [Next]_vars => NoErrYet'
<1> SUFFICES ASSUME TypeOK, NoErrYet, [Next]_vars PROVE NoErrYet'
    OBVIOUS
<1> USE DEF TypeOK, PCs, NoErrYet, ctxVars, sockVars
<1>1. ASSUME NEW c \in Calls, Caller(c) PROVE NoErrYet'
  <2>1. CASE BeginCancelled(c) BY <2>1 DEF BeginCancelled, Goto
  <2>2. CASE Begin(c) BY <2>2, FirstSteps DEF Begin, Goto
  <2>3. CASE SetCtxDeadline(c) BY <2>3 DEF SetCtxDeadline, Goto
  <2>4. CASE Arm(c) BY <2>4 DEF Arm, Goto
  <2>5. CASE Lock(c) BY <2>5, NamesAssumption DEF Lock, MayUseSocket, Goto
  <2>6. CASE Send(c) BY <2>6 DEF Send, Goto
  <2>7. CASE Receive(c) BY <2>7 DEF Receive, FnReturns, Goto
  <2>8. CASE Timeout(c) BY <2>8 DEF Timeout, FnReturns, Goto
  <2>9. CASE Check(c) BY <2>9 DEF Check, Goto
  <2>10. CASE Stop(c) BY <2>10 DEF Stop, AwaitsFired, Goto
  <2>11. CASE Join(c) BY <2>11 DEF Join, Goto
  <2>12. CASE Clear(c) BY <2>12 DEF Clear, Goto
  <2> QED BY <1>1, <2>1, <2>2, <2>3, <2>4, <2>5, <2>6, <2>7, <2>8, <2>9,
             <2>10, <2>11, <2>12 DEF Caller
<1>2. ASSUME NEW c \in Calls,
             AfterFunc(c) \/ KernelAnswers(c) \/ TimePasses(c) \/ CtxEnds(c)
      PROVE NoErrYet'
  BY <1>2 DEF AfterFunc, MoveDeadline, CloseFired, KernelAnswers, TimePasses, CtxEnds
<1>3. CASE UNCHANGED vars BY <1>3 DEF vars
<1> QED BY <1>1, <1>2, <1>3 DEF Next, AllDone

\* The next reply answers some call.
LEMMA NextReply == TypeOK /\ replies # <<>> => Head(replies).to \in Calls
<1> SUFFICES ASSUME TypeOK, replies # <<>> PROVE Head(replies).to \in Calls
    OBVIOUS
<1>1. Head(replies) \in Reply BY HeadTailProperties DEF TypeOK
<1> QED BY <1>1 DEF Reply

\* While nobody gave up, the reply stream holds only the next reply.
LEMMA InStepStep == RInv /\ [Next]_vars => (NobodyGaveUp => InStep)'
<1> SUFFICES ASSUME RInv, [Next]_vars, NobodyGaveUp' PROVE InStep'
    OBVIOUS
<1> USE DEF RInv, TypeOK, PCs, NoErrYet, ctxVars, sockVars
<1>1. ASSUME NEW c \in Calls,
             \/ BeginCancelled(c) \/ Begin(c) \/ SetCtxDeadline(c) \/ Arm(c)
             \/ Lock(c) \/ Check(c) \/ Stop(c) \/ Join(c) \/ Clear(c)
             \/ AfterFunc(c) \/ TimePasses(c) \/ CtxEnds(c)
      PROVE InStep'
  <2>1. UNCHANGED <<err, asked, replies>>
    BY <1>1 DEF BeginCancelled, Begin, SetCtxDeadline, Arm, Lock, Check, Stop,
                Join, Clear, AfterFunc, MoveDeadline, CloseFired, TimePasses,
                CtxEnds
  <2>2. InStep BY <2>1 DEF NobodyGaveUp
  <2>3. \A d \in Calls : pc[d] = "receive" => pc'[d] = "receive"
    <3> USE DEF Goto
    <3>1. CASE BeginCancelled(c) BY <3>1 DEF BeginCancelled
    <3>2. CASE Begin(c) BY <3>2 DEF Begin
    <3>3. CASE SetCtxDeadline(c) BY <3>3 DEF SetCtxDeadline
    <3>4. CASE Arm(c) BY <3>4 DEF Arm
    <3>5. CASE Lock(c) BY <3>5 DEF Lock, MayUseSocket
    <3>6. CASE Check(c) BY <3>6 DEF Check
    <3>7. CASE Stop(c) BY <3>7 DEF Stop, AwaitsFired
    <3>8. CASE Join(c) BY <3>8 DEF Join
    <3>9. CASE Clear(c) BY <3>9 DEF Clear
    <3>10. CASE AfterFunc(c) \/ TimePasses(c) \/ CtxEnds(c)
      BY <3>10 DEF AfterFunc, MoveDeadline, CloseFired, TimePasses, CtxEnds
    <3> QED BY <1>1, <3>1, <3>2, <3>3, <3>4, <3>5, <3>6, <3>7, <3>8, <3>9, <3>10
  <2>4. replies # <<>> => Head(replies).to \in Calls BY NextReply
  <2> QED BY <2>1, <2>2, <2>3, <2>4 DEF InStep
<1>2. ASSUME NEW c \in Calls, Send(c) PROVE InStep'
  <2>1. InStep BY <1>2 DEF Send, NobodyGaveUp
  <2>2. \A d \in Calls : pc[d] # "receive" BY <1>2 DEF Send
  <2>3. replies # <<>> => Head(replies).to \in Calls BY NextReply
  <2>4. asked = {} /\ replies = <<>> BY <2>1, <2>2, <2>3 DEF InStep
  <2> QED BY <1>2, <2>1, <2>4 DEF Send, Goto, InStep
<1>3. ASSUME NEW c \in Calls, Receive(c) PROVE InStep'
  <2>1. pc[c] = "receive" /\ replies # <<>> /\ replies' = Tail(replies) /\ asked' = asked
    BY <1>3 DEF Receive
  <2>2. PICK e \in {"mismatch", "errno", "ok"} :
          /\ err' = [err EXCEPT ![c] = e]
          /\ e = "mismatch" => Head(replies).to # c
    BY <1>3 DEF Receive, FnReturns
  <2>3. NobodyGaveUp BY <2>1, <2>2 DEF NobodyGaveUp
  <2>4. InStep BY <2>3
  <2>5. Head(replies).to \in Calls BY <2>1, NextReply
  <2>6. Head(replies).to = c BY <2>1, <2>4, <2>5 DEF InStep
  <2>7. asked = {} /\ Tail(replies) = <<>> BY <2>1, <2>4 DEF InStep
  <2> QED BY <2>1, <2>2, <2>4, <2>6, <2>7 DEF InStep
<1>4. ASSUME NEW c \in Calls, Timeout(c) PROVE InStep'
  BY <1>4 DEF Timeout, FnReturns, NobodyGaveUp
<1>5. ASSUME NEW c \in Calls, KernelAnswers(c) PROVE InStep'
  <2>1. UNCHANGED <<pc, err>> /\ c \in asked /\ asked' = asked \ {c}
    BY <1>5 DEF KernelAnswers
  <2>2. InStep BY <2>1 DEF NobodyGaveUp
  <2>3. replies = <<>> /\ pc[c] = "receive" BY <2>1, <2>2 DEF InStep
  <2>4. \A d \in asked : d = c BY <2>2, <2>3 DEF InStep
  <2>5. PICK errno \in BOOLEAN : replies' = Append(replies, [to |-> c, errno |-> errno])
    BY <1>5 DEF KernelAnswers
  <2>6. replies' = <<[to |-> c, errno |-> errno]>> BY <2>3, <2>5
  <2>7. Tail(replies') = <<>> /\ Head(replies').to = c BY <2>6
  <2>8. \A d \in Calls : err'[d] # "mismatch" BY <2>1, <2>2 DEF InStep
  <2>9. asked' = {} BY <2>1, <2>4
  <2>10. pc'[Head(replies').to] = "receive" BY <2>1, <2>3, <2>7
  <2> QED BY <2>7, <2>8, <2>9, <2>10 DEF InStep
<1>6. CASE UNCHANGED vars BY <1>6 DEF vars, NobodyGaveUp, InStep
<1> QED BY <1>1, <1>2, <1>3, <1>4, <1>5, <1>6 DEF Next, AllDone, Caller

\* Replies get out of step only after some call was interrupted: with any
\* number of calls at once, nobody reads another call's answer before that.
THEOREM RepliesInStep == Spec => []MismatchOnlyAfterTimeout
<1>1. Init => RInv
  BY TypeInit DEF Init, RInv, NoErrYet, InStep
<1>2. RInv /\ [Next]_vars => RInv'
  BY TypeStep, NoErrStep, InStepStep DEF RInv
<1>3. RInv => MismatchOnlyAfterTimeout
  BY DEF RInv, NobodyGaveUp, InStep, MismatchOnlyAfterTimeout
<1> QED BY <1>1, <1>2, <1>3, PTL DEF Spec

-----------------------------------------------------------------------------
(* One goroutine: its calls follow each other.                             *)

OneAtATime ==
  \A c, d \in Calls : InFlight(c) /\ InFlight(d) => c = d

SInv == IInv /\ OneAtATime /\ TimeoutIsOwn

\* One goroutine has one call under way at a time.
LEMMA OneAtATimeStep ==
  ASSUME Goroutines = 1, TypeOK, OneAtATime, [Next]_vars
  PROVE  OneAtATime'
<1> USE DEF TypeOK, OneAtATime, InFlight, PCs, ctxVars, sockVars
<1>1. ASSUME NEW c \in Calls, Begin(c) PROVE OneAtATime'
  <2> DEFINE S == {d \in Calls : InFlight(d)}
  <2>1. IsFiniteSet(S)
    <3>1. CASE S = {} BY <3>1, FS_EmptySet
    <3>2. CASE S # {}
      <4>1. PICK e \in S : TRUE BY <3>2
      <4>2. S = {e} BY <4>1
      <4>3. IsFiniteSet({e}) BY FS_Singleton
      <4> HIDE DEF S
      <4> QED BY <4>2, <4>3
    <3> QED BY <3>1, <3>2
  <2>2. Cardinality(S) \in Nat BY <2>1, FS_CardinalityType
  <2>3. Cardinality(S) < Goroutines BY <1>1 DEF Begin
  <2>4. Cardinality(S) = 0 BY <2>2, <2>3
  <2>5. S = {} BY <2>1, <2>4, FS_EmptySet
  <2>6. \A d \in Calls : ~ InFlight(d) BY <2>5
  <2> QED BY <1>1, <2>6 DEF Begin, Goto
<1>2. ASSUME NEW c \in Calls, Caller(c), ~ Begin(c) PROVE OneAtATime'
  <2> USE DEF Goto
  <2>1. CASE BeginCancelled(c) BY <2>1 DEF BeginCancelled
  <2>2. CASE SetCtxDeadline(c) BY <2>2 DEF SetCtxDeadline
  <2>3. CASE Arm(c) BY <2>3 DEF Arm
  <2>4. CASE Lock(c) BY <2>4 DEF Lock, MayUseSocket
  <2>5. CASE Send(c) BY <2>5 DEF Send
  <2>6. CASE Receive(c) BY <2>6 DEF Receive, FnReturns
  <2>7. CASE Timeout(c) BY <2>7 DEF Timeout, FnReturns
  <2>8. CASE Check(c) BY <2>8 DEF Check
  <2>9. CASE Stop(c) BY <2>9 DEF Stop, AwaitsFired
  <2>10. CASE Join(c) BY <2>10 DEF Join
  <2>11. CASE Clear(c) BY <2>11 DEF Clear
  <2> QED BY <1>2, <2>1, <2>2, <2>3, <2>4, <2>5, <2>6, <2>7, <2>8, <2>9,
             <2>10, <2>11 DEF Caller
<1>3. ASSUME NEW c \in Calls,
             AfterFunc(c) \/ KernelAnswers(c) \/ TimePasses(c) \/ CtxEnds(c)
      PROVE OneAtATime'
  BY <1>3 DEF AfterFunc, MoveDeadline, CloseFired, KernelAnswers, TimePasses, CtxEnds
<1>4. CASE UNCHANGED vars BY <1>4 DEF vars
<1> QED BY <1>1, <1>2, <1>3, <1>4 DEF Next, AllDone

\* So an interruption is the caller's own doing.
LEMMA OwnStep ==
  ASSUME IInv, OneAtATime, TimeoutIsOwn, [Next]_vars
  PROVE  TimeoutIsOwn'
<1> USE DEF TypeOK, TimeoutIsOwn, ctxVars, sockVars
<1>1. TypeOK BY DEF IInv
<1>2. \A c \in Calls : (ctxDone[c] => ctxDone'[c]) /\ (timeUp[c] => timeUp'[c])
  BY <1>1 DEF Next, Caller, AfterFunc, AllDone, vars, BeginCancelled, Begin,
     SetCtxDeadline, Arm, Lock, Send, Receive, Timeout, Check, Stop, Join, Clear,
     MoveDeadline, CloseFired, KernelAnswers, TimePasses, CtxEnds
<1>3. ASSUME NEW c \in Calls, Timeout(c) PROVE TimeoutIsOwn'
  <2>1. InFlight(c) BY <1>3 DEF Timeout, InFlight
  <2>2. PICK d \in Calls : MayHoldDeadline(d) /\ (ctxDone[d] \/ timeUp[d])
    BY <1>3 DEF Timeout, Expired, IInv, DeadlineOwner
  <2>3. InFlight(d) BY <2>2 DEF MayHoldDeadline, InFlight
  <2>4. d = c BY <2>1, <2>3 DEF OneAtATime
  <2>5. err' = [err EXCEPT ![c] = "timeout"] BY <1>3 DEF Timeout, FnReturns
  <2> QED BY <1>1, <1>2, <2>2, <2>4, <2>5
<1>4. ASSUME NEW c \in Calls, Receive(c) PROVE TimeoutIsOwn'
  <2>1. PICK e \in {"mismatch", "errno", "ok"} : err' = [err EXCEPT ![c] = e]
    BY <1>4 DEF Receive, FnReturns
  <2> QED BY <1>1, <1>2, <2>1
<1>5. ASSUME UNCHANGED err PROVE TimeoutIsOwn' BY <1>2, <1>5
<1> QED BY <1>3, <1>4, <1>5 DEF Next, Caller, AfterFunc, AllDone, vars,
     BeginCancelled, Begin, SetCtxDeadline, Arm, Lock, Send, Check, Stop, Join,
     Clear, MoveDeadline, CloseFired, KernelAnswers, TimePasses, CtxEnds

\* A program that makes its calls one at a time sees a timeout only from the
\* call's own context, never from an earlier call's leftovers.
THEOREM OneGoroutine == Goroutines = 1 /\ Spec => []TimeoutIsOwn
<1>1. Init => SInv
  BY InvInit DEF Init, SInv, OneAtATime, InFlight, TimeoutIsOwn
<1>2. Goroutines = 1 /\ SInv /\ [Next]_vars => SInv'
  BY InvStep, OneAtATimeStep, OwnStep DEF SInv, IInv
<1>3. SInv => TimeoutIsOwn BY DEF SInv
<1>4. CASE Goroutines = 1 BY <1>1, <1>2, <1>3, <1>4, PTL DEF Spec
<1>5. CASE Goroutines # 1 BY <1>5
<1> QED BY <1>4, <1>5

-----------------------------------------------------------------------------
(* LinuxDump.                                                              *)

-----------------------------------------------------------------------------
(* Sequences.                                                              *)

\* RemoveAt leaves out one element and keeps the order of the others.
LEMMA RemovedAt ==
  ASSUME NEW S, NEW s \in Seq(S), NEW i \in 1 .. Len(s)
  PROVE  /\ RemoveAt(s, i) \in Seq(S)
         /\ Len(RemoveAt(s, i)) = Len(s) - 1
         /\ \A j \in 1 .. Len(s) - 1 :
              RemoveAt(s, i)[j] = s[IF j < i THEN j ELSE j + 1]
<1> DEFINE l == SubSeq(s, 1, i - 1)
           r == SubSeq(s, i + 1, Len(s))
<1>1. Len(s) \in Nat /\ \A j \in 1 .. Len(s) : s[j] \in S
  OBVIOUS
<1>2. /\ l \in Seq(S) /\ Len(l) = i - 1
      /\ \A j \in 1 .. i - 1 : l[j] = s[j]
  BY <1>1, SubSeqProperties
<1>3. /\ r \in Seq(S) /\ Len(r) = Len(s) - i
      /\ \A j \in 1 .. Len(s) - i : r[j] = s[i + j]
  BY <1>1, SubSeqProperties
<1>4. RemoveAt(s, i) = l \o r
  BY DEF RemoveAt
<1> HIDE DEF l, r
<1>5. /\ l \o r \in Seq(S) /\ Len(l \o r) = Len(l) + Len(r)
      /\ \A j \in 1 .. Len(l) + Len(r) :
           (l \o r)[j] = IF j <= Len(l) THEN l[j] ELSE r[j - Len(l)]
  BY <1>2, <1>3, ConcatProperties
<1>6. ASSUME NEW j \in 1 .. Len(s) - 1
      PROVE  (l \o r)[j] = s[IF j < i THEN j ELSE j + 1]
  <2>1. j \in 1 .. Len(l) + Len(r)
    BY <1>1, <1>2, <1>3
  <2>2. CASE j < i
    BY <1>1, <1>2, <1>5, <2>1, <2>2
  <2>3. CASE ~ (j < i)
    <3>1. j - Len(l) \in 1 .. Len(s) - i
      BY <1>1, <1>2, <2>3
    <3>2. (l \o r)[j] = r[j - Len(l)]
      BY <1>1, <1>2, <1>5, <2>1, <2>3
    <3>3. i + (j - Len(l)) = j + 1
      BY <1>1, <1>2
    <3> QED BY <1>3, <2>3, <3>1, <3>2, <3>3
  <2> QED BY <2>2, <2>3
<1> QED BY <1>1, <1>2, <1>3, <1>4, <1>5, <1>6

\* A concatenation has the elements of both.
LEMMA ConcatHas ==
  ASSUME NEW S, NEW s \in Seq(S), NEW t \in Seq(S)
  PROVE  /\ \A q \in DOMAIN s : q \in DOMAIN (s \o t) /\ (s \o t)[q] = s[q]
         /\ \A j \in DOMAIN t : \E q \in DOMAIN (s \o t) : (s \o t)[q] = t[j]
<1>1. /\ Len(s) \in Nat /\ Len(t) \in Nat
      /\ DOMAIN s = 1 .. Len(s) /\ DOMAIN t = 1 .. Len(t)
  BY LenProperties
<1>2. /\ DOMAIN (s \o t) = 1 .. Len(s) + Len(t)
      /\ \A q \in 1 .. Len(s) + Len(t) :
           (s \o t)[q] = IF q <= Len(s) THEN s[q] ELSE t[q - Len(s)]
  BY ConcatProperties, LenProperties
<1> DEFINE u == s \o t
<1>3. DOMAIN u = 1 .. Len(s) + Len(t)
  BY <1>2
<1>4. \A q \in 1 .. Len(s) + Len(t) : u[q] = IF q <= Len(s) THEN s[q] ELSE t[q - Len(s)]
  BY <1>2
<1> HIDE DEF u
<1>5. \A q \in DOMAIN s : q \in DOMAIN u /\ u[q] = s[q]
  BY <1>1, <1>3, <1>4
<1>6. ASSUME NEW j \in DOMAIN t PROVE \E q \in DOMAIN u : u[q] = t[j]
  <2>1. Len(s) + j \in 1 .. Len(s) + Len(t)
    BY <1>1
  <2>2. u[Len(s) + j] = t[j]
    BY <1>1, <1>4, <2>1
  <2> QED BY <1>3, <2>1, <2>2
<1> QED BY <1>5, <1>6 DEF u

\* A set of natural numbers has a least member.
LEMMA LeastMember ==
  ASSUME NEW T \in SUBSET Nat, T # {}
  PROVE  \E n \in T : \A m \in T : n <= m
<1>1. PICK n \in T : \A m \in T : ~ (<<m, n>> \in OpToRel(<, Nat))
  BY NatLessThanWellFounded, WFMin
<1>2. \A m \in T : ~ (m < n)
  BY <1>1 DEF OpToRel
<1> QED BY <1>2

\* RemoveFirst makes a sequence of the same elements.
LEMMA RemovedFirst ==
  ASSUME NEW S, NEW s \in Seq(S), NEW a
  PROVE  RemoveFirst(s, a) \in Seq(S)
<1> DEFINE I == {i \in 1 .. Len(s) : s[i] = a}
<1>1. CASE I = {}
  BY <1>1 DEF RemoveFirst
<1>2. CASE I # {}
  <2>1. \E n \in I : \A m \in I : n <= m
    <3>1. I \in SUBSET Nat
      OBVIOUS
    <3> HIDE DEF I
    <3> QED BY <1>2, <3>1, LeastMember
  <2>2. Min(I) \in I
    BY <2>1 DEF Min
  <2>3. RemoveFirst(s, a) = RemoveAt(s, Min(I))
    BY <1>2 DEF RemoveFirst, SelectInSeq
  <2> QED BY <2>2, <2>3, RemovedAt
<1> QED BY <1>1, <1>2

-----------------------------------------------------------------------------
(* What the kernel has left to send.                                       *)

\* What is sent of a peer keeps its key.
LEMMA ContinuedIs ==
  ASSUME DumpTypeOK, NEW p \in Peer
  PROVE  Continued(p) \in Fragment /\ Continued(p).key = p.key
<1>1. /\ p.ips \in Seq(IPs) /\ Len(p.ips) \in Nat /\ sent \in Nat
      /\ \A i \in 1 .. Len(p.ips) : p.ips[i] \in IPs
  BY DEF DumpTypeOK, Peer
<1>2. SubSeq(p.ips, sent + 1, Len(p.ips)) \in Seq(IPs)
  BY <1>1, SubSeqProperties
<1>3. <<>> \in Seq(IPs)
  OBVIOUS
<1> QED BY <1>2, <1>3 DEF Continued, Peer, Fragment

LEMMA PeersAre ==
  ASSUME DumpTypeOK
  PROVE  /\ peers \in Seq(Peer) /\ Len(peers) \in Nat /\ DOMAIN peers = 1 .. Len(peers)
         /\ \A i \in 1 .. Len(peers) : peers[i] \in Peer
         /\ Peer \subseteq Fragment
<1>1. Peer \subseteq Fragment
  BY DEF Peer, Fragment
<1>2. peers \in Seq(Peer)
  BY DEF DumpTypeOK
<1> QED BY <1>1, <1>2

\* The rest is a piece of the peers, behind the first d of them; only its first
\* one may be a peer that is continued.
RestBehind(d) ==
  /\ Rest \in Seq(Fragment)
  /\ d + Len(Rest) = Len(peers)
  /\ \A i \in 1 .. Len(Rest) :
       Rest[i] = IF i = 1 /\ part # Nil /\ peers[d + i].key = part
                 THEN Continued(peers[d + i]) ELSE peers[d + i]

LEMMA RestAfter ==
  ASSUME DumpTypeOK, ~ Lost, NEW d \in 0 .. Len(peers),
         d + 1 = IF last = Nil THEN 1 ELSE 1 + CHOOSE i \in Position(last) : TRUE
  PROVE  RestBehind(d)
<1> DEFINE rest == SubSeq(peers, d + 1, Len(peers))
           cont == part # Nil /\ rest # <<>> /\ rest[1].key = part
<1>1. /\ Len(peers) \in Nat /\ d \in Int
      /\ \A i \in d + 1 .. Len(peers) : peers[i] \in Fragment /\ peers[i] \in Peer
  BY PeersAre
<1>2. /\ rest \in Seq(Fragment)
      /\ Len(rest) = Len(peers) - d
      /\ \A i \in 1 .. Len(peers) - d : rest[i] = peers[d + i]
  BY <1>1, SubSeqProperties
<1>3. Rest = IF cont THEN [rest EXCEPT ![1] = Continued(@)] ELSE rest
  <2> DEFINE from == IF last = Nil THEN 1 ELSE 1 + CHOOSE i \in Position(last) : TRUE
             behind == SubSeq(peers, from, Len(peers))
  <2>1. Rest = IF part # Nil /\ behind # <<>> /\ behind[1].key = part
               THEN [behind EXCEPT ![1] = Continued(@)] ELSE behind
    BY DEF Rest
  <2>2. from = d + 1
    OBVIOUS
  <2> HIDE DEF from
  <2> QED BY <2>1, <2>2
<1> HIDE DEF rest
<1>4. CASE cont
  <2>1. 1 \in 1 .. Len(rest) /\ rest[1] = peers[d + 1] /\ peers[d + 1] \in Peer
    BY <1>1, <1>2, <1>4
  <2>2. Continued(rest[1]) \in Fragment
    BY <2>1, ContinuedIs
  <2>3. Rest = [rest EXCEPT ![1] = Continued(rest[1])]
    BY <1>3, <1>4
  <2>4. /\ Rest \in Seq(Fragment) /\ Len(Rest) = Len(rest)
        /\ \A i \in 1 .. Len(rest) : Rest[i] = IF i = 1 THEN Continued(rest[1]) ELSE rest[i]
    BY <1>2, <2>1, <2>2, <2>3, ExceptSeq
  <2>5. part # Nil /\ peers[d + 1].key = part
    BY <1>4, <2>1
  <2>6. ASSUME NEW i \in 1 .. Len(Rest)
        PROVE  Rest[i] = IF i = 1 /\ part # Nil /\ peers[d + i].key = part
                         THEN Continued(peers[d + i]) ELSE peers[d + i]
    BY <1>2, <2>1, <2>4, <2>5
  <2> QED BY <1>1, <1>2, <2>4, <2>6 DEF RestBehind
<1>5. CASE ~ cont
  <2>1. Rest = rest
    BY <1>3, <1>5
  <2>2. ASSUME NEW i \in 1 .. Len(rest)
        PROVE  rest[i] = peers[d + i] /\ ~ (i = 1 /\ part # Nil /\ peers[d + i].key = part)
    <3>1. rest[i] = peers[d + i] /\ rest # <<>>
      BY <1>1, <1>2
    <3> QED BY <1>5, <3>1
  <2>3. \A i \in 1 .. Len(Rest) :
          Rest[i] = IF i = 1 /\ part # Nil /\ peers[d + i].key = part
                    THEN Continued(peers[d + i]) ELSE peers[d + i]
    BY <2>1, <2>2
  <2> QED BY <1>1, <1>2, <2>1, <2>3 DEF RestBehind
<1> QED BY <1>4, <1>5

LEMMA RestIs ==
  ASSUME DumpTypeOK
  PROVE  /\ Rest \in Seq(Fragment)
         /\ Rest # <<>> => \E d \in 0 .. Len(peers) : RestBehind(d)
<1>1. CASE Lost
  <2>1. Rest = <<>>
    BY <1>1 DEF Rest
  <2> QED BY <2>1
<1>2. CASE ~ Lost
  <2> DEFINE d == IF last = Nil THEN 0 ELSE CHOOSE i \in Position(last) : TRUE
  <2>1. d \in 0 .. Len(peers)
    <3>1. Len(peers) \in Nat /\ DOMAIN peers = 1 .. Len(peers)
      BY DEF DumpTypeOK
    <3>2. CASE last = Nil
      BY <3>1, <3>2
    <3>3. CASE last # Nil
      <4>1. Position(last) # {} /\ Position(last) \subseteq 1 .. Len(peers)
        BY <1>2, <3>1, <3>3 DEF Lost, Position
      <4> QED BY <3>1, <3>3, <4>1
    <3> QED BY <3>2, <3>3
  <2>2. d + 1 = IF last = Nil THEN 1 ELSE 1 + CHOOSE i \in Position(last) : TRUE
    BY <2>1, PeersAre
  <2> HIDE DEF d
  <2>3. RestBehind(d)
    BY <1>2, <2>1, <2>2, RestAfter
  <2> QED BY <2>1, <2>3 DEF RestBehind
<1> QED BY <1>1, <1>2

\* No peer is in it twice.
LEMMA RestDistinct ==
  ASSUME DumpTypeOK, Distinct(peers)
  PROVE  Distinct(Rest)
<1>1. CASE Rest = <<>>
  BY <1>1 DEF Distinct
<1>2. CASE Rest # <<>>
  <2>1. PICK d \in 0 .. Len(peers) : RestBehind(d)
    BY <1>2, RestIs
  <2>2. /\ Len(peers) \in Nat /\ Len(Rest) \in Nat
        /\ DOMAIN peers = 1 .. Len(peers) /\ DOMAIN Rest = 1 .. Len(Rest)
        /\ \A i \in 1 .. Len(peers) : peers[i] \in Peer
    BY <2>1 DEF RestBehind, DumpTypeOK
  <2>3. ASSUME NEW i \in 1 .. Len(Rest)
        PROVE  d + i \in 1 .. Len(peers) /\ Rest[i].key = peers[d + i].key
    <3>1. d + i \in 1 .. Len(peers) /\ d + 1 \in 1 .. Len(peers)
      BY <2>1, <2>2 DEF RestBehind
    <3>2. Continued(peers[d + 1]).key = peers[d + 1].key
      BY <2>2, <3>1, ContinuedIs
    <3> QED BY <2>1, <3>1, <3>2 DEF RestBehind
  <2>4. ASSUME NEW i \in 1 .. Len(Rest), NEW j \in 1 .. Len(Rest), Rest[i].key = Rest[j].key
        PROVE  i = j
    <3>1. d + i = d + j
      <4>1. peers[d + i].key = peers[d + j].key /\ d + i \in DOMAIN peers /\ d + j \in DOMAIN peers
        BY <2>2, <2>3, <2>4
      <4> QED BY <4>1 DEF Distinct
    <3> QED BY <2>2, <3>1
  <2> QED BY <2>2, <2>4 DEF Distinct
<1> QED BY <1>1, <1>2

-----------------------------------------------------------------------------
(* The messages, and the device that is put together from them.            *)

LEMMA PeersSent ==
  ASSUME DumpTypeOK, NEW n \in Nat, n <= Len(Rest)
  PROVE  /\ SubSeq(Rest, 1, n) \in Seq(Fragment)
         /\ Len(SubSeq(Rest, 1, n)) = n
         /\ \A i \in 1 .. n : SubSeq(Rest, 1, n)[i] = Rest[i]
<1>1. Rest \in Seq(Fragment)
  BY RestIs
<1>2. Len(Rest) \in Nat /\ \A i \in 1 .. n : Rest[i] \in Fragment
  BY <1>1, ElementOfSeq, LenProperties
<1> QED BY <1>2, SubSeqProperties

\* The peer that is sent in part, behind n others, with j of its allowed IPs.
Short(p, j)    == [p EXCEPT !.ips = SubSeq(@, 1, j)]
Part(n, j)     == Short(Rest[n + 1], j)
WithPart(n, j) == Append(SubSeq(Rest, 1, n), Part(n, j))

LEMMA PartSent ==
  ASSUME DumpTypeOK, NEW n \in Nat, n < Len(Rest),
         NEW j \in Nat, j <= Len(Rest[n + 1].ips)
  PROVE  /\ Part(n, j) \in Fragment /\ Part(n, j).key = Rest[n + 1].key
         /\ WithPart(n, j) \in Seq(Fragment)
         /\ Len(WithPart(n, j)) = n + 1
         /\ \A i \in 1 .. n : WithPart(n, j)[i] = Rest[i]
         /\ WithPart(n, j)[n + 1] = Part(n, j)
<1>1. Rest \in Seq(Fragment) /\ Len(Rest) \in Nat
  BY RestIs, LenProperties
<1>2. Rest[n + 1] \in Fragment
  BY <1>1, ElementOfSeq
<1>3. SubSeq(Rest[n + 1].ips, 1, j) \in Seq(IPs)
  <2>1. Rest[n + 1].ips \in Seq(IPs)
    BY <1>2 DEF Fragment
  <2>2. \A i \in 1 .. j : Rest[n + 1].ips[i] \in IPs
    BY <2>1, ElementOfSeq, LenProperties
  <2> QED BY <2>2, SubSeqProperties
<1>4. Part(n, j) \in Fragment /\ Part(n, j).key = Rest[n + 1].key
  BY <1>2, <1>3 DEF Fragment, Part, Short
<1>5. SubSeq(Rest, 1, n) \in Seq(Fragment)
  BY PeersSent
<1> QED BY <1>4, <1>5, PeersSent, AppendProperties DEF WithPart

LEMMA SendTypes ==
  ASSUME DumpTypeOK, NEW frags \in Seq(Fragment), SendMessage(frags)
  PROVE  /\ msgs' \in Seq(Message)
         /\ Len(msgs') = Len(msgs) + 1 /\ Len(msgs) \in Nat
         /\ \A m \in 1 .. Len(msgs) : msgs'[m] = msgs[m]
         /\ msgs'[Len(msgs) + 1].peers = frags
         /\ msgs = <<>> => msgs'[1].dev = dev
<1> DEFINE e == [dev |-> IF msgs = <<>> THEN dev ELSE Nil, peers |-> frags]
<1>1. msgs \in Seq(Message) /\ e \in Message
  BY DEF DumpTypeOK, Message
<1>2. msgs' = Append(msgs, e)
  BY DEF SendMessage
<1>3. e.peers = frags /\ (msgs = <<>> => e.dev = dev)
  OBVIOUS
<1> HIDE DEF e
<1> QED BY <1>1, <1>2, <1>3, AppendProperties, LenProperties, EmptySeq

\* The first of the peers that are left to be merged.
LEMMA HeadIs ==
  ASSUME DumpTypeOK, todo # <<>>
  PROVE  /\ Head(todo) \in Fragment /\ Head(todo).key \in Keys
         /\ Head(todo).ips \in Seq(IPs)
         /\ Tail(todo) \in Seq(Fragment)
         /\ Len(Tail(todo)) = Len(todo) - 1
         /\ Len(todo) \in Nat \ {0}
<1>1. todo \in Seq(Fragment)
  BY DEF DumpTypeOK
<1>2. Head(todo) \in Fragment
  BY <1>1, HeadTailProperties
<1>3. Head(todo).key \in Keys /\ Head(todo).ips \in Seq(IPs)
  BY <1>2 DEF Fragment
<1> QED BY <1>1, <1>2, <1>3, HeadTailProperties, EmptySeq

LEMMA FirstIs ==
  ASSUME DumpTypeOK
  PROVE  /\ first.peers \in Seq(Fragment) /\ first.dev \in Values \union {Nil}
         /\ Len(first.peers) \in Nat /\ DOMAIN first.peers = 1 .. Len(first.peers)
         /\ first = [dev |-> first.dev, peers |-> first.peers]
         /\ \A i \in 1 .. Len(first.peers) :
              /\ first.peers[i] \in Fragment
              /\ first.peers[i].key \in Keys /\ first.peers[i].ips \in Seq(IPs)
<1>1. /\ first.peers \in Seq(Fragment) /\ first.dev \in Values \union {Nil}
      /\ first = [dev |-> first.dev, peers |-> first.peers]
  BY DEF DumpTypeOK, Message
<1>2. \A i \in 1 .. Len(first.peers) : first.peers[i] \in Fragment
  BY <1>1, ElementOfSeq
<1>3. \A p \in Fragment : p.key \in Keys /\ p.ips \in Seq(IPs)
  BY DEF Fragment
<1> QED BY <1>1, <1>2, <1>3, LenProperties

\* One turn of mergeDevices, for a peer that is known: it gets the allowed IPs.
LEMMA KnownMerged ==
  ASSUME DumpTypeOK, MergeKnown,
         NEW x, x = knownPeers[Head(todo).key]
  PROVE  /\ x \in 1 .. Len(first.peers)
         /\ first' \in Message /\ first'.dev = first.dev
         /\ Len(first'.peers) = Len(first.peers)
         /\ \A i \in 1 .. Len(first.peers) :
              first'.peers[i] = IF i = x THEN [first.peers[i] EXCEPT !.ips = @ \o Head(todo).ips]
                                         ELSE first.peers[i]
<1>1. x \in 1 .. Len(first.peers)
  <2>1. PICK K \in SUBSET Keys : knownPeers \in [K -> DOMAIN first.peers]
    BY DEF DumpTypeOK
  <2> QED BY <2>1, FirstIs DEF MergeKnown
<1> DEFINE q == [first.peers[x] EXCEPT !.ips = @ \o Head(todo).ips]
           s == [first.peers EXCEPT ![x] = q]
<1>2. first' = [first EXCEPT !.peers = s]
  BY <1>1, FirstIs DEF MergeKnown
<1>3. q \in Fragment
  <2>1. first.peers[x] \in Fragment /\ first.peers[x].ips \in Seq(IPs)
    BY <1>1, FirstIs
  <2>2. Head(todo).ips \in Seq(IPs)
    BY HeadIs DEF MergeKnown
  <2>3. first.peers[x].ips \o Head(todo).ips \in Seq(IPs)
    BY <2>1, <2>2, ConcatProperties
  <2> QED BY <2>1, <2>3 DEF Fragment
<1> HIDE DEF q
<1>4. /\ s \in Seq(Fragment) /\ Len(s) = Len(first.peers)
      /\ \A i \in 1 .. Len(first.peers) : s[i] = IF i = x THEN q ELSE first.peers[i]
  BY <1>1, <1>3, FirstIs, ExceptSeq
<1> HIDE DEF s
<1>5. first'.peers = s /\ first'.dev = first.dev /\ first' \in Message
  BY <1>2, <1>4, FirstIs DEF Message
<1> QED BY <1>1, <1>4, <1>5 DEF q

\* And for one that is not: it is appended.
LEMMA NewMerged ==
  ASSUME DumpTypeOK, MergeNew
  PROVE  /\ first' \in Message /\ first'.dev = first.dev
         /\ Len(first'.peers) = Len(first.peers) + 1
         /\ \A i \in 1 .. Len(first.peers) : first'.peers[i] = first.peers[i]
         /\ first'.peers[Len(first.peers) + 1] = Head(todo)
<1> DEFINE s == Append(first.peers, Head(todo))
<1>1. first' = [first EXCEPT !.peers = s]
  BY DEF MergeNew
<1>2. /\ s \in Seq(Fragment) /\ Len(s) = Len(first.peers) + 1
      /\ \A i \in 1 .. Len(first.peers) : s[i] = first.peers[i]
      /\ s[Len(first.peers) + 1] = Head(todo)
  BY FirstIs, HeadIs, AppendProperties DEF MergeNew
<1> HIDE DEF s
<1>3. first'.peers = s /\ first'.dev = first.dev /\ first' \in Message
  BY <1>1, <1>2, FirstIs DEF Message
<1> QED BY <1>2, <1>3

-----------------------------------------------------------------------------
(* Changes by other programs.                                              *)

LEMMA RemovedPeers ==
  ASSUME DumpTypeOK, NEW i \in DOMAIN peers, PeerRemoved(i)
  PROVE  peers' \in Seq(Peer) /\ (Distinct(peers) => Distinct(peers'))
<1>1. peers' = RemoveAt(peers, i) /\ i \in 1 .. Len(peers)
  BY PeersAre DEF PeerRemoved
<1>2. /\ peers' \in Seq(Peer) /\ Len(peers') = Len(peers) - 1
      /\ \A j \in 1 .. Len(peers) - 1 : peers'[j] = peers[IF j < i THEN j ELSE j + 1]
  BY <1>1, PeersAre, RemovedAt
<1>3. DOMAIN peers' = 1 .. Len(peers) - 1
  BY <1>2, LenProperties
<1>4. ASSUME Distinct(peers), NEW m \in DOMAIN peers', NEW n \in DOMAIN peers',
             peers'[m].key = peers'[n].key
      PROVE  m = n
  <2> DEFINE was(j) == IF j < i THEN j ELSE j + 1
  <2>1. was(m) \in DOMAIN peers /\ was(n) \in DOMAIN peers
    BY <1>1, <1>3, PeersAre
  <2>2. peers[was(m)].key = peers[was(n)].key
    BY <1>2, <1>3, <1>4
  <2>3. was(m) = was(n)
    BY <1>4, <2>1, <2>2 DEF Distinct
  <2> QED BY <1>1, <1>3, <2>3, PeersAre
<1> QED BY <1>2, <1>4 DEF Distinct

LEMMA AddedPeers ==
  ASSUME DumpTypeOK, NEW k \in Keys, NEW v \in Values, NEW a \in IPs, PeerAdded(k, v, a)
  PROVE  peers' \in Seq(Peer) /\ (Distinct(peers) => Distinct(peers'))
<1> DEFINE p == [key |-> k, attrs |-> v, ips |-> <<a>>]
           e(i) == [peers[i] EXCEPT !.ips = RemoveFirst(@, a)]
           s == [i \in DOMAIN peers |-> e(i)]
<1>1. p \in Peer /\ p.key = k
  BY DEF Peer
<1>2. ASSUME NEW i \in 1 .. Len(peers)
      PROVE  e(i) \in Peer /\ e(i).key = peers[i].key
  <2>1. peers[i] \in Peer
    BY PeersAre
  <2>2. peers[i].ips \in Seq(IPs)
    BY <2>1 DEF Peer
  <2>3. RemoveFirst(peers[i].ips, a) \in Seq(IPs)
    BY <2>2, RemovedFirst
  <2> QED BY <2>1, <2>3 DEF Peer
<1> HIDE DEF e, p
<1>3. s = [i \in 1 .. Len(peers) |-> e(i)] /\ Len(peers) \in Nat
  BY PeersAre
<1>4. s \in Seq(Peer) /\ Len(s) = Len(peers) /\ \A i \in 1 .. Len(peers) : s[i] = e(i)
  BY <1>2, <1>3, IsASeq
<1>5. peers' = Append(s, p)
  BY DEF PeerAdded, e, p
<1> HIDE DEF s
<1>6. /\ peers' \in Seq(Peer) /\ Len(peers') = Len(peers) + 1
      /\ \A i \in 1 .. Len(peers) : peers'[i].key = peers[i].key
      /\ peers'[Len(peers) + 1].key = k
  BY <1>1, <1>2, <1>4, <1>5, AppendProperties
<1>7. DOMAIN peers' = 1 .. Len(peers) + 1
  BY <1>6, LenProperties
<1>8. \A i \in 1 .. Len(peers) : peers[i].key # k
  BY PeersAre DEF PeerAdded, Position
<1>9. ASSUME Distinct(peers), NEW m \in DOMAIN peers', NEW n \in DOMAIN peers',
             peers'[m].key = peers'[n].key
      PROVE  m = n
  <2>1. m \in 1 .. Len(peers) + 1 /\ n \in 1 .. Len(peers) + 1
    BY <1>7
  <2>2. CASE m = Len(peers) + 1 \/ n = Len(peers) + 1
    BY <1>3, <1>6, <1>8, <1>9, <2>1, <2>2
  <2>3. CASE m # Len(peers) + 1 /\ n # Len(peers) + 1
    <3>1. m \in 1 .. Len(peers) /\ n \in 1 .. Len(peers)
      BY <1>3, <2>1, <2>3
    <3>2. peers[m].key = peers[n].key
      BY <1>6, <1>9, <3>1
    <3> QED BY <1>9, <3>1, <3>2, PeersAre DEF Distinct
  <2> QED BY <2>2, <2>3
<1> QED BY <1>6, <1>9 DEF Distinct

-----------------------------------------------------------------------------
(* The inductive invariant: what holds whatever others do to the device.   *)

\* What a call has done so far.
Phases ==
  /\ msgs = <<>> => last = Nil /\ part = Nil /\ sent = 0
  /\ stage = "parse" => msgs # <<>>
  /\ todo # <<>> => stage = "parse"
  /\ stage = "dump" => next = 1
  /\ next = 1 => todo = <<>> /\ first.peers = <<>>
  /\ next <= Len(msgs) + 1
  /\ stage # "done" => outcome = "none"
  /\ outcome = "ok" => next = Len(msgs) + 1 /\ next > 1

\* The kernel has every peer once, and sends it once in a message.
KeysOnce == Distinct(peers) /\ \A m \in 1 .. Len(msgs) : Distinct(msgs[m].peers)

\* knownPeers is where each peer is.
Known ==
  /\ \A i \in DOMAIN first.peers :
       first.peers[i].key \in DOMAIN knownPeers /\ knownPeers[first.peers[i].key] = i
  /\ \A k \in DOMAIN knownPeers : first.peers[knownPeers[k]].key = k

\* The message that is merged, and how many of its peers have been.
Merging == msgs[next - 1].peers
Merged  == Len(Merging) - Len(todo)
Remaining ==
  next > 1 => Merged >= 0 /\ \A i \in 1 .. Len(todo) : todo[i] = Merging[Merged + i]

\* The device d has what the kernel sent in fr.
Holds(d, fr) ==
  \E p \in DOMAIN d.peers :
    /\ d.peers[p].key = fr.key
    /\ \A j \in DOMAIN fr.ips : \E q \in DOMAIN d.peers[p].ips :
         d.peers[p].ips[q] = fr.ips[j]

\* It has all that was merged.
Kept ==
  /\ \A m \in 1 .. next - 2 : \A i \in DOMAIN msgs[m].peers : Holds(first, msgs[m].peers[i])
  /\ next > 1 => \A i \in 1 .. Merged : Holds(first, Merging[i])

-----------------------------------------------------------------------------
(* Type correctness.                                                       *)

LEMMA TypesStep ==
  ASSUME DumpTypeOK, Phases, [DumpNext]_dumpVars
  PROVE  DumpTypeOK'
<1> USE NilAssumption
<1>1. ASSUME NEW n \in 0 .. Len(peers), SendsPeers(n) PROVE DumpTypeOK'
  <2>1. SubSeq(Rest, 1, n) \in Seq(Fragment) /\ Rest[n] \in Fragment
    <3>1. Rest \in Seq(Fragment) /\ n \in 1 .. Len(Rest)
      BY <1>1, RestIs, LenProperties, PeersAre DEF SendsPeers
    <3> QED BY <3>1, PeersSent, ElementOfSeq, LenProperties
  <2>2. msgs' \in Seq(Message)
    BY <1>1, <2>1, SendTypes DEF SendsPeers
  <2>3. Rest[n].key \in Keys
    BY <2>1 DEF Fragment
  <2> QED BY <1>1, <2>2, <2>3 DEF SendsPeers, DumpTypeOK
<1>2. ASSUME NEW n \in 0 .. Len(peers), n < Len(Rest),
             NEW j \in 0 .. Len(Rest[n + 1].ips), SendsPart(n, j)
      PROVE  DumpTypeOK'
  <2>1. Rest \in Seq(Fragment) /\ Len(Rest) \in Nat /\ n \in Nat
    BY RestIs, LenProperties, PeersAre
  <2>2. Rest[n + 1] \in Fragment /\ (n # 0 => Rest[n] \in Fragment)
    BY <1>2, <2>1, ElementOfSeq
  <2>3. /\ Rest[n + 1].key \in Keys /\ Rest[n + 1].ips \in Seq(IPs)
        /\ (n # 0 => Rest[n].key \in Keys)
    BY <2>2 DEF Fragment
  <2>4. j \in Nat /\ j <= Len(Rest[n + 1].ips)
    BY <2>3, LenProperties
  <2>5. WithPart(n, j) \in Seq(Fragment)
    BY <1>2, <2>1, <2>4, PartSent
  <2>6. SendMessage(WithPart(n, j))
    BY <1>2 DEF SendsPart, WithPart, Part, Short
  <2>7. msgs' \in Seq(Message)
    BY <2>5, <2>6, SendTypes
  <2>8. sent' \in Nat
    BY <1>2, <2>4 DEF SendsPart, DumpTypeOK
  <2>9. last' \in Keys \union {Nil} /\ part' \in Keys \union {Nil}
    BY <1>2, <2>3 DEF SendsPart, DumpTypeOK
  <2> QED BY <1>2, <2>7, <2>8, <2>9 DEF SendsPart, DumpTypeOK
<1>3. CASE SendsLast
  <2>1. msgs' \in Seq(Message)
    BY <1>3, RestIs, SendTypes DEF SendsLast
  <2> QED BY <1>3, <2>1 DEF SendsLast, kernelVars, DumpTypeOK
<1>4. ASSUME NEW i \in DOMAIN peers, PeerRemoved(i) PROVE DumpTypeOK'
  <2>1. peers' \in Seq(Peer)
    BY <1>4, RemovedPeers
  <2> QED BY <1>4, <2>1 DEF PeerRemoved, Changed, Others, DumpTypeOK
<1>5. ASSUME NEW k \in Keys, NEW v \in Values, NEW a \in IPs, PeerAdded(k, v, a) PROVE DumpTypeOK'
  <2>1. peers' \in Seq(Peer)
    BY <1>5, AddedPeers
  <2> QED BY <1>5, <2>1 DEF PeerAdded, Changed, Others, DumpTypeOK
<1>6. CASE Fails
  BY <1>6 DEF Fails, Return, kernelVars, DumpTypeOK
<1>7. CASE ParseFirst
  <2>1. 1 \in 1 .. Len(msgs) /\ msgs \in Seq(Message)
    BY <1>7, EmptySeq, LenProperties DEF ParseFirst, Phases, DumpTypeOK
  <2>2. msgs[1] \in Message
    BY <2>1, ElementOfSeq
  <2>3. msgs[1].peers \in Seq(Fragment)
    BY <2>2 DEF Message
  <2> DEFINE K == {msgs[1].peers[i].key : i \in DOMAIN msgs[1].peers}
  <2>4. K \in SUBSET Keys
    <3>1. \A i \in DOMAIN msgs[1].peers : msgs[1].peers[i] \in Fragment
      BY <2>3, ElementOfSeq, LenProperties
    <3> QED BY <3>1 DEF Fragment
  <2>5. knownPeers' \in [K -> DOMAIN first'.peers]
    BY <1>7 DEF ParseFirst
  <2> HIDE DEF K
  <2>6. \E k \in SUBSET Keys : knownPeers' \in [k -> DOMAIN first'.peers]
    BY <2>4, <2>5
  <2>7. next' \in Nat \ {0} /\ first' \in Message
    BY <1>7, <2>2 DEF ParseFirst
  <2> QED BY <1>7, <2>6, <2>7 DEF ParseFirst, kernelVars, DumpTypeOK
<1>8. CASE ParseNext
  <2>1. next \in 1 .. Len(msgs) /\ msgs \in Seq(Message) /\ next + 1 \in Nat \ {0}
    BY <1>8, LenProperties DEF ParseNext, DumpTypeOK
  <2>2. msgs[next] \in Message
    BY <2>1, ElementOfSeq
  <2>3. todo' \in Seq(Fragment)
    BY <1>8, <2>2 DEF ParseNext, Message
  <2> QED BY <1>8, <2>1, <2>3 DEF ParseNext, kernelVars, DumpTypeOK
<1>9. CASE MergeKnown
  <2>1. todo' \in Seq(Fragment)
    BY <1>9, HeadIs DEF MergeKnown
  <2>2. first' \in Message /\ Len(first'.peers) = Len(first.peers)
    BY <1>9, KnownMerged
  <2>3. DOMAIN first'.peers = DOMAIN first.peers
    <3>1. first'.peers \in Seq(Fragment)
      BY <2>2 DEF Message
    <3> QED BY <2>2, <3>1, FirstIs, LenProperties
  <2> QED BY <1>9, <2>1, <2>2, <2>3 DEF MergeKnown, kernelVars, DumpTypeOK
<1>10. CASE MergeNew
  <2>1. todo' \in Seq(Fragment)
    BY <1>10, HeadIs DEF MergeNew
  <2>2. first' \in Message /\ Len(first'.peers) = Len(first.peers) + 1
    BY <1>10, NewMerged
  <2>3. DOMAIN first'.peers = 1 .. Len(first.peers) + 1
    <3>1. first'.peers \in Seq(Fragment)
      BY <2>2 DEF Message
    <3> QED BY <2>2, <3>1, LenProperties
  <2>4. PICK K \in SUBSET Keys : knownPeers \in [K -> DOMAIN first.peers]
    BY DEF DumpTypeOK
  <2>5. knownPeers' \in [K \union {Head(todo).key} -> DOMAIN first'.peers]
    BY <1>10, <2>3, <2>4, FirstIs DEF MergeNew
  <2>6. K \union {Head(todo).key} \in SUBSET Keys
    BY <1>10, HeadIs DEF MergeNew
  <2> QED BY <1>10, <2>1, <2>2, <2>5, <2>6 DEF MergeNew, kernelVars, DumpTypeOK
<1>11. CASE Finish
  BY <1>11 DEF Finish, Return, kernelVars, DumpTypeOK
<1>12. CASE UNCHANGED dumpVars
  BY <1>12 DEF dumpVars, kernelVars, DumpTypeOK
<1> QED BY <1>1, <1>2, <1>3, <1>4, <1>5, <1>6, <1>7, <1>8, <1>9, <1>10, <1>11, <1>12 DEF DumpNext

-----------------------------------------------------------------------------
(* The steps preserve the parts of the invariant.                          *)

\* The kernel sends a message.
Sending ==
  \/ \E n \in 0 .. Len(peers) :
       SendsPeers(n) \/ (n < Len(Rest) /\ \E j \in 0 .. Len(Rest[n + 1].ips) : SendsPart(n, j))
  \/ SendsLast

\* Another program changes the device.
Changing ==
  \/ \E i \in DOMAIN peers : PeerRemoved(i)
  \/ \E k \in Keys, v \in Values, a \in IPs : PeerAdded(k, v, a)

\* Whatever a message has, it is of the first peers of the rest.
SendsFrom(fr) ==
  /\ stage = "dump" /\ SendMessage(fr)
  /\ Len(fr) <= Len(Rest)
  /\ \A i \in 1 .. Len(fr) : fr[i].key = Rest[i].key
  /\ UNCHANGED <<dev, peers, coherent, changes, next, todo, first, knownPeers, outcome>>
  /\ stage' \in {"dump", "parse"}

LEMMA SendsSome ==
  ASSUME DumpTypeOK, Sending
  PROVE  \E fr \in Seq(Fragment) : SendsFrom(fr)
<1>1. Rest \in Seq(Fragment) /\ Len(Rest) \in Nat /\ Len(peers) \in Nat
  BY RestIs, LenProperties, PeersAre
<1>2. ASSUME NEW n \in 0 .. Len(peers), SendsPeers(n)
      PROVE  SendsFrom(SubSeq(Rest, 1, n)) /\ SubSeq(Rest, 1, n) \in Seq(Fragment)
  <2>1. n \in Nat /\ n <= Len(Rest)
    BY <1>1, <1>2 DEF SendsPeers
  <2> QED BY <1>1, <1>2, <2>1, PeersSent DEF SendsPeers, SendsFrom
<1>3. ASSUME NEW n \in 0 .. Len(peers), n < Len(Rest),
             NEW j \in 0 .. Len(Rest[n + 1].ips), SendsPart(n, j)
      PROVE  \E fr \in Seq(Fragment) : SendsFrom(fr)
  <2> DEFINE fr == WithPart(n, j)
  <2>1. Rest[n + 1] \in Fragment /\ n \in Nat
    BY <1>1, <1>3, ElementOfSeq
  <2>2. Rest[n + 1].ips \in Seq(IPs)
    BY <2>1 DEF Fragment
  <2>3. j \in Nat /\ j <= Len(Rest[n + 1].ips)
    BY <2>2, LenProperties
  <2>4. SendMessage(fr)
    BY <1>3 DEF SendsPart, WithPart, Part, Short
  <2>5. /\ fr \in Seq(Fragment) /\ Len(fr) = n + 1
        /\ \A i \in 1 .. n : fr[i] = Rest[i]
        /\ fr[n + 1].key = Rest[n + 1].key
    BY <1>3, <2>1, <2>3, PartSent
  <2> HIDE DEF fr
  <2>6. \A i \in 1 .. Len(fr) : fr[i].key = Rest[i].key
    BY <2>1, <2>5
  <2> QED BY <1>1, <1>3, <2>1, <2>4, <2>5, <2>6 DEF SendsPart, SendsFrom
<1>4. CASE SendsLast
  <2>1. SendsFrom(Rest)
    BY <1>1, <1>4 DEF SendsLast, kernelVars, SendsFrom
  <2> QED BY <1>1, <2>1
<1> QED BY <1>2, <1>3, <1>4 DEF Sending

LEMMA PhasesStep ==
  ASSUME DumpTypeOK, Phases, [DumpNext]_dumpVars
  PROVE  Phases'
<1>1. Len(msgs) \in Nat /\ next \in Nat \ {0} /\ msgs \in Seq(Message)
  BY LenProperties DEF DumpTypeOK
<1>2. CASE Sending
  <2>1. PICK fr \in Seq(Fragment) : SendsFrom(fr)
    BY <1>2, SendsSome
  <2>2. Len(msgs') = Len(msgs) + 1 /\ msgs' \in Seq(Message)
    BY <2>1, SendTypes DEF SendsFrom
  <2>3. msgs' # <<>>
    BY <1>1, <2>2, EmptySeq
  <2> QED BY <1>1, <2>1, <2>2, <2>3 DEF SendsFrom, Phases
<1>3. CASE Changing
  BY <1>3 DEF Changing, PeerRemoved, PeerAdded, Changed, Others, Phases
<1>4. CASE Fails
  BY <1>4 DEF Fails, Return, kernelVars, Phases
<1>5. CASE ParseFirst
  BY <1>1, <1>5, EmptySeq DEF ParseFirst, kernelVars, Phases
<1>6. CASE ParseNext
  BY <1>1, <1>6 DEF ParseNext, kernelVars, Phases
<1>7. CASE MergeKnown
  BY <1>1, <1>7 DEF MergeKnown, kernelVars, Phases
<1>8. CASE MergeNew
  BY <1>1, <1>8 DEF MergeNew, kernelVars, Phases
<1>9. CASE Finish
  BY <1>1, <1>9, EmptySeq DEF Finish, Return, kernelVars, Phases
<1>10. CASE UNCHANGED dumpVars
  BY <1>10 DEF dumpVars, kernelVars, Phases
<1> QED BY <1>2, <1>3, <1>4, <1>5, <1>6, <1>7, <1>8, <1>9, <1>10 DEF DumpNext, Sending, Changing

LEMMA KeysOnceStep ==
  ASSUME DumpTypeOK, KeysOnce, [DumpNext]_dumpVars
  PROVE  KeysOnce'
<1>1. CASE Sending
  <2>1. PICK fr \in Seq(Fragment) : SendsFrom(fr)
    BY <1>1, SendsSome
  <2>2. /\ Len(msgs') = Len(msgs) + 1 /\ Len(msgs) \in Nat
        /\ \A m \in 1 .. Len(msgs) : msgs'[m] = msgs[m]
        /\ msgs'[Len(msgs) + 1].peers = fr
    BY <2>1, SendTypes DEF SendsFrom
  <2>3. Distinct(fr)
    <3>1. Distinct(Rest) /\ Rest \in Seq(Fragment)
      BY RestDistinct, RestIs DEF KeysOnce
    <3>2. DOMAIN fr \subseteq DOMAIN Rest /\ \A i \in DOMAIN fr : fr[i].key = Rest[i].key
      <4>1. /\ DOMAIN fr = 1 .. Len(fr) /\ DOMAIN Rest = 1 .. Len(Rest)
            /\ Len(fr) \in Nat /\ Len(Rest) \in Nat
        BY <3>1, LenProperties
      <4> QED BY <2>1, <4>1 DEF SendsFrom
    <3> QED BY <3>1, <3>2 DEF Distinct
  <2>4. Distinct(peers')
    BY <2>1 DEF SendsFrom, KeysOnce
  <2> QED BY <2>2, <2>3, <2>4 DEF KeysOnce, Distinct
<1>2. CASE Changing
  <2>1. Distinct(peers')
    BY <1>2, RemovedPeers, AddedPeers DEF Changing, KeysOnce
  <2>2. msgs' = msgs
    BY <1>2 DEF Changing, PeerRemoved, PeerAdded, Others
  <2> QED BY <2>1, <2>2 DEF KeysOnce, Distinct
<1>3. CASE UNCHANGED <<peers, msgs>>
  BY <1>3 DEF KeysOnce, Distinct
<1> QED BY <1>1, <1>2, <1>3 DEF DumpNext, Sending, Changing, Fails, ParseFirst, ParseNext,
           MergeKnown, MergeNew, Finish, dumpVars, kernelVars

\* A step of the kernel, of another program, or one that only ends the call.
LEMMA OtherSteps ==
  ASSUME [DumpNext]_dumpVars
  PROVE  \/ Sending \/ ParseFirst \/ ParseNext \/ MergeKnown \/ MergeNew
         \/ UNCHANGED <<msgs, next, todo, first, knownPeers>>
  BY DEF DumpNext, Sending, PeerRemoved, PeerAdded, Others, Fails, Finish, dumpVars, kernelVars

LEMMA KnownStep ==
  ASSUME DumpTypeOK, Phases, KeysOnce, Known, [DumpNext]_dumpVars
  PROVE  Known'
<1>1. CASE UNCHANGED <<first, knownPeers>>
  BY <1>1 DEF Known
<1>2. CASE ParseFirst
  <2> DEFINE ps == msgs[1].peers
  <2>1. 1 \in 1 .. Len(msgs)
    BY <1>2, EmptySeq DEF ParseFirst, Phases, DumpTypeOK
  <2>2. Distinct(ps)
    BY <2>1 DEF KeysOnce
  <2>3. /\ first'.peers = ps
        /\ knownPeers' = [k \in {ps[i].key : i \in DOMAIN ps} |->
                            CHOOSE i \in DOMAIN ps : ps[i].key = k]
    BY <1>2 DEF ParseFirst
  <2> HIDE DEF ps
  <2>4. ASSUME NEW i \in DOMAIN ps
        PROVE  ps[i].key \in DOMAIN knownPeers' /\ knownPeers'[ps[i].key] = i
    <3>1. (CHOOSE j \in DOMAIN ps : ps[j].key = ps[i].key) = i
      BY <2>2 DEF Distinct
    <3> QED BY <2>3, <3>1
  <2>5. ASSUME NEW k \in DOMAIN knownPeers' PROVE ps[knownPeers'[k]].key = k
    <3>1. \E i \in DOMAIN ps : ps[i].key = k
      BY <2>3
    <3> QED BY <2>3, <3>1
  <2> QED BY <2>3, <2>4, <2>5 DEF Known
<1>3. CASE MergeKnown
  <2> DEFINE x == knownPeers[Head(todo).key]
  <2>1. /\ Len(first'.peers) = Len(first.peers) /\ first' \in Message
        /\ \A i \in 1 .. Len(first.peers) :
             first'.peers[i] = IF i = x THEN [first.peers[i] EXCEPT !.ips = @ \o Head(todo).ips]
                                        ELSE first.peers[i]
    BY <1>3, KnownMerged
  <2>2. first'.peers \in Seq(Fragment)
    BY <2>1 DEF Message
  <2>3. DOMAIN first'.peers = DOMAIN first.peers /\ DOMAIN first.peers = 1 .. Len(first.peers)
    BY <2>1, <2>2, FirstIs, LenProperties
  <2>4. \A i \in DOMAIN first.peers : first'.peers[i].key = first.peers[i].key
    <3>1. ASSUME NEW i \in 1 .. Len(first.peers)
          PROVE  [first.peers[i] EXCEPT !.ips = @ \o Head(todo).ips].key = first.peers[i].key
      <4>1. first.peers[i] \in Fragment
        BY FirstIs
      <4> QED BY <4>1 DEF Fragment
    <3> QED BY <2>1, <2>3, <3>1
  <2>5. PICK K \in SUBSET Keys : knownPeers \in [K -> DOMAIN first.peers]
    BY DEF DumpTypeOK
  <2>6. knownPeers' = knownPeers
    BY <1>3 DEF MergeKnown
  <2> QED BY <2>3, <2>4, <2>5, <2>6 DEF Known
<1>4. CASE MergeNew
  <2> DEFINE h == Head(todo).key
             l == Len(first.peers)
  <2>1. /\ Len(first'.peers) = l + 1 /\ first' \in Message
        /\ \A i \in 1 .. l : first'.peers[i] = first.peers[i]
        /\ first'.peers[l + 1] = Head(todo)
    BY <1>4, NewMerged
  <2>2. first'.peers \in Seq(Fragment)
    BY <2>1 DEF Message
  <2>3. DOMAIN first'.peers = 1 .. l + 1 /\ DOMAIN first.peers = 1 .. l /\ l \in Nat
    BY <2>1, <2>2, FirstIs, LenProperties
  <2>4. PICK K \in SUBSET Keys : knownPeers \in [K -> DOMAIN first.peers]
    BY DEF DumpTypeOK
  <2>5. h \notin DOMAIN knownPeers
    BY <1>4 DEF MergeNew
  <2>6. knownPeers' = [k \in DOMAIN knownPeers \union {h} |-> IF k = h THEN l + 1 ELSE knownPeers[k]]
    BY <1>4 DEF MergeNew
  <2>7. first'.peers[l + 1].key = h
    BY <2>1
  <2> HIDE DEF h, l
  <2>8. ASSUME NEW i \in DOMAIN first'.peers
        PROVE  first'.peers[i].key \in DOMAIN knownPeers' /\ knownPeers'[first'.peers[i].key] = i
    <3>1. CASE i = l + 1
      BY <2>6, <2>7, <3>1
    <3>2. CASE i # l + 1
      <4>1. i \in 1 .. l
        BY <2>3, <3>2
      <4>2. first.peers[i].key \in DOMAIN knownPeers /\ knownPeers[first.peers[i].key] = i
        BY <2>3, <4>1 DEF Known
      <4> QED BY <2>1, <2>5, <2>6, <4>1, <4>2
    <3> QED BY <3>1, <3>2
  <2>9. ASSUME NEW k \in DOMAIN knownPeers' PROVE first'.peers[knownPeers'[k]].key = k
    <3>1. CASE k = h
      BY <2>6, <2>7, <3>1
    <3>2. CASE k # h
      <4>1. k \in DOMAIN knownPeers /\ knownPeers'[k] = knownPeers[k]
        BY <2>6, <3>2
      <4>2. knownPeers[k] \in 1 .. l /\ first.peers[knownPeers[k]].key = k
        BY <2>3, <2>4, <4>1 DEF Known
      <4> QED BY <2>1, <4>1, <4>2
    <3> QED BY <3>1, <3>2
  <2> QED BY <2>8, <2>9 DEF Known
<1>5. CASE Sending
  <2>1. UNCHANGED <<first, knownPeers>>
    BY <1>5, SendsSome DEF SendsFrom
  <2> QED BY <1>1, <2>1
<1>6. CASE ParseNext
  BY <1>6 DEF ParseNext, Known
<1> QED BY <1>1, <1>2, <1>3, <1>4, <1>5, <1>6, OtherSteps

LEMMA RemainingStep ==
  ASSUME DumpTypeOK, Phases, Remaining, [DumpNext]_dumpVars
  PROVE  Remaining' /\ (next > 1 => Len(Merging) \in Nat)
<1>1. /\ Len(msgs) \in Nat /\ next \in Nat \ {0} /\ msgs \in Seq(Message)
      /\ todo \in Seq(Fragment) /\ Len(todo) \in Nat
  BY LenProperties DEF DumpTypeOK
<1>2. ASSUME NEW m \in 1 .. Len(msgs)
      PROVE  msgs[m].peers \in Seq(Fragment) /\ Len(msgs[m].peers) \in Nat
  <2>1. msgs[m] \in Message
    BY <1>1, ElementOfSeq
  <2>2. msgs[m].peers \in Seq(Fragment)
    BY <2>1 DEF Message
  <2> QED BY <2>2, LenProperties
<1>3. next > 1 => Len(Merging) \in Nat
  BY <1>1, <1>2 DEF Merging, Phases
<1>4. Remaining'
  <2>1. CASE UNCHANGED <<msgs, next, todo>>
    BY <2>1 DEF Remaining, Merged, Merging
  <2>2. CASE Sending
    <3>1. next' = 1
      BY <2>2, SendsSome DEF SendsFrom, Phases
    <3> QED BY <3>1 DEF Remaining
  <2>3. CASE ParseFirst
    <3>1. next' = 2 /\ msgs' = msgs /\ todo' = <<>> /\ 1 \in 1 .. Len(msgs)
      BY <1>1, <2>3, EmptySeq DEF ParseFirst, Phases
    <3>2. Merging' = msgs[1].peers /\ Len(todo') = 0
      BY <3>1 DEF Merging
    <3>3. Merged' = Len(msgs[1].peers) /\ Merged' >= 0
      BY <1>2, <3>1, <3>2 DEF Merged
    <3> QED BY <3>2, <3>3 DEF Remaining
  <2>4. CASE ParseNext
    <3>1. /\ next' = next + 1 /\ msgs' = msgs /\ todo' = msgs[next].peers
          /\ next \in 1 .. Len(msgs)
      BY <1>1, <2>4 DEF ParseNext
    <3>2. Merging' = msgs[next].peers
      BY <1>1, <3>1 DEF Merging
    <3>3. Merged' = 0
      BY <1>2, <3>1, <3>2 DEF Merged
    <3> QED BY <1>2, <3>1, <3>2, <3>3 DEF Remaining
  <2>5. CASE MergeKnown \/ MergeNew
    <3>1. todo # <<>> /\ todo' = Tail(todo) /\ UNCHANGED <<msgs, next>>
      BY <2>5 DEF MergeKnown, MergeNew
    <3>2. Len(todo') = Len(todo) - 1 /\ \A i \in 1 .. Len(todo) - 1 : todo'[i] = todo[i + 1]
      BY <1>1, <3>1, HeadTailProperties
    <3>3. next > 1
      BY <1>1, <3>1 DEF Phases
    <3>4. Merging' = Merging /\ Merged' = Merged + 1
      BY <1>1, <1>3, <3>1, <3>2, <3>3 DEF Merging, Merged
    <3>5. Merged \in Nat
      BY <1>1, <1>3, <3>3 DEF Remaining, Merged
    <3>6. ASSUME NEW i \in 1 .. Len(todo') PROVE todo'[i] = Merging[Merged + 1 + i]
      <4>1. i + 1 \in 1 .. Len(todo) /\ todo'[i] = todo[i + 1]
        BY <1>1, <3>2
      <4>2. todo[i + 1] = Merging[Merged + (i + 1)]
        BY <3>3, <4>1 DEF Remaining
      <4> QED BY <3>5, <4>1, <4>2
    <3> QED BY <3>4, <3>5, <3>6 DEF Remaining
  <2> QED BY <2>1, <2>2, <2>3, <2>4, <2>5, OtherSteps
<1> QED BY <1>3, <1>4

\* A turn of mergeDevices takes nothing away, and adds what it merges.
LEMMA MergeHolds ==
  ASSUME DumpTypeOK, Known, MergeKnown \/ MergeNew
  PROVE  /\ \A fr : Holds(first, fr) => Holds(first', fr)
         /\ Holds(first', Head(todo))
<1> DEFINE h == Head(todo)
<1>1. /\ h.key \in Keys /\ h.ips \in Seq(IPs)
      /\ DOMAIN h.ips = 1 .. Len(h.ips) /\ Len(h.ips) \in Nat
  BY HeadIs, LenProperties DEF MergeKnown, MergeNew
<1>2. DOMAIN first.peers = 1 .. Len(first.peers) /\ Len(first.peers) \in Nat
  BY FirstIs
<1>3. CASE MergeKnown
  <2> DEFINE x == knownPeers[h.key]
             old == first.peers[x]
             both == old.ips \o h.ips
  <2>1. /\ x \in 1 .. Len(first.peers) /\ first' \in Message
        /\ Len(first'.peers) = Len(first.peers)
        /\ \A i \in 1 .. Len(first.peers) :
             first'.peers[i] = IF i = x THEN [first.peers[i] EXCEPT !.ips = @ \o h.ips]
                                        ELSE first.peers[i]
    BY <1>3, KnownMerged
  <2>2. DOMAIN first'.peers = 1 .. Len(first.peers)
    <3>1. first'.peers \in Seq(Fragment)
      BY <2>1 DEF Message
    <3> QED BY <2>1, <3>1, LenProperties
  <2>3. old \in Fragment /\ old.ips \in Seq(IPs) /\ old.key = h.key
    BY <1>3, <2>1, FirstIs DEF Known, MergeKnown
  <2>4. first'.peers[x].key = old.key /\ first'.peers[x].ips = both
    BY <2>1, <2>3 DEF Fragment
  <2> HIDE DEF h, x, old
  <2>5. /\ \A q \in DOMAIN old.ips : q \in DOMAIN both /\ both[q] = old.ips[q]
        /\ \A j \in DOMAIN h.ips : \E q \in DOMAIN both : both[q] = h.ips[j]
    <3> DEFINE a == old.ips
               b == h.ips
    <3>1. a \in Seq(IPs) /\ b \in Seq(IPs)
      BY <1>1, <2>3
    <3> HIDE DEF a, b
    <3>2. /\ \A q \in DOMAIN a : q \in DOMAIN (a \o b) /\ (a \o b)[q] = a[q]
          /\ \A j \in DOMAIN b : \E q \in DOMAIN (a \o b) : (a \o b)[q] = b[j]
      BY <3>1, ConcatHas
    <3> QED BY <3>2 DEF a, b
  <2> HIDE DEF both
  <2>6. \A i \in 1 .. Len(first.peers) : i # x => first'.peers[i] = first.peers[i]
    BY <2>1
  <2>7. ASSUME NEW fr, Holds(first, fr) PROVE Holds(first', fr)
    <3>1. PICK p \in DOMAIN first.peers :
            /\ first.peers[p].key = fr.key
            /\ \A j \in DOMAIN fr.ips : \E q \in DOMAIN first.peers[p].ips :
                 first.peers[p].ips[q] = fr.ips[j]
      BY <2>7 DEF Holds
    <3>2. CASE p = x
      BY <1>2, <2>2, <2>4, <2>5, <3>1, <3>2 DEF Holds, old
    <3>3. CASE p # x
      BY <1>2, <2>2, <2>6, <3>1, <3>3 DEF Holds
    <3> QED BY <3>2, <3>3
  <2>8. Holds(first', h)
    <3>1. x \in DOMAIN first'.peers /\ first'.peers[x].key = h.key
      BY <2>1, <2>2, <2>3, <2>4
    <3> QED BY <2>4, <2>5, <3>1 DEF Holds
  <2> QED BY <2>7, <2>8 DEF h
<1>4. CASE MergeNew
  <2> DEFINE l == Len(first.peers)
  <2>1. /\ Len(first'.peers) = l + 1 /\ first' \in Message
        /\ \A i \in 1 .. l : first'.peers[i] = first.peers[i]
        /\ first'.peers[l + 1] = h
    BY <1>4, NewMerged
  <2>2. DOMAIN first'.peers = 1 .. l + 1
    <3>1. first'.peers \in Seq(Fragment)
      BY <2>1 DEF Message
    <3> QED BY <2>1, <3>1, LenProperties
  <2>3. \A i \in DOMAIN first.peers : i \in DOMAIN first'.peers /\ first'.peers[i] = first.peers[i]
    BY <1>2, <2>1, <2>2
  <2>4. l + 1 \in DOMAIN first'.peers
    BY <1>2, <2>2
  <2> HIDE DEF h, l
  <2>5. ASSUME NEW fr, Holds(first, fr) PROVE Holds(first', fr)
    BY <2>3, <2>5 DEF Holds
  <2>6. Holds(first', h)
    BY <2>1, <2>4 DEF Holds
  <2> QED BY <2>5, <2>6 DEF h
<1> QED BY <1>3, <1>4

LEMMA KeptStep ==
  ASSUME DumpTypeOK, Phases, Known, Remaining, Kept, [DumpNext]_dumpVars
  PROVE  Kept'
<1>1. /\ Len(msgs) \in Nat /\ next \in Nat \ {0} /\ msgs \in Seq(Message)
      /\ todo \in Seq(Fragment) /\ Len(todo) \in Nat
  BY LenProperties DEF DumpTypeOK
<1>2. ASSUME NEW m \in 1 .. Len(msgs)
      PROVE  /\ msgs[m].peers \in Seq(Fragment) /\ Len(msgs[m].peers) \in Nat
             /\ DOMAIN msgs[m].peers = 1 .. Len(msgs[m].peers)
  <2>1. msgs[m] \in Message
    BY <1>1, ElementOfSeq
  <2>2. msgs[m].peers \in Seq(Fragment)
    BY <2>1 DEF Message
  <2> QED BY <2>2, LenProperties
<1>3. next > 1 => next - 1 \in 1 .. Len(msgs) /\ Len(Merging) \in Nat
  BY <1>1, <1>2 DEF Merging, Phases
<1>4. CASE UNCHANGED <<msgs, next, todo, first>>
  BY <1>4 DEF Kept, Merged, Merging
<1>5. CASE Sending
  <2>1. next' = 1
    BY <1>5, SendsSome DEF SendsFrom, Phases
  <2> QED BY <2>1 DEF Kept
<1>6. CASE ParseFirst
  <2>1. /\ next' = 2 /\ msgs' = msgs /\ todo' = <<>> /\ first' = msgs[1]
        /\ 1 \in 1 .. Len(msgs)
    BY <1>1, <1>6, EmptySeq DEF ParseFirst, Phases
  <2>2. Merging' = msgs[1].peers /\ Len(todo') = 0
    BY <2>1 DEF Merging
  <2>3. Merged' = Len(msgs[1].peers)
    BY <1>2, <2>1, <2>2 DEF Merged
  <2>4. ASSUME NEW i \in 1 .. Len(msgs[1].peers) PROVE Holds(first', Merging'[i])
    BY <1>2, <2>1, <2>2 DEF Holds
  <2> QED BY <2>1, <2>3, <2>4 DEF Kept
<1>7. CASE ParseNext
  <2>1. /\ next' = next + 1 /\ msgs' = msgs /\ todo' = msgs[next].peers /\ first' = first
        /\ next \in 1 .. Len(msgs) /\ todo = <<>> /\ next > 1
    BY <1>1, <1>7 DEF ParseNext
  <2>2. Merging' = msgs[next].peers /\ Len(todo) = 0
    BY <1>1, <2>1 DEF Merging
  <2>3. Merged' = 0 /\ Merged = Len(Merging)
    BY <1>2, <1>3, <2>1, <2>2 DEF Merged
  <2>4. ASSUME NEW m \in 1 .. next' - 2, NEW i \in DOMAIN msgs'[m].peers
        PROVE  Holds(first', msgs'[m].peers[i])
    <3>1. CASE m = next - 1
      <4>1. i \in 1 .. Merged /\ msgs'[m].peers[i] = Merging[i]
        BY <1>2, <1>3, <2>1, <2>3, <3>1 DEF Merging
      <4> QED BY <2>1, <4>1 DEF Kept
    <3>2. CASE m # next - 1
      <4>1. m \in 1 .. next - 2
        BY <1>1, <2>1, <3>2
      <4> QED BY <2>1, <4>1 DEF Kept
    <3> QED BY <3>1, <3>2
  <2> QED BY <2>3, <2>4 DEF Kept
<1>8. CASE MergeKnown \/ MergeNew
  <2>1. todo # <<>> /\ todo' = Tail(todo) /\ UNCHANGED <<msgs, next>>
    BY <1>8 DEF MergeKnown, MergeNew
  <2>2. /\ Len(todo') = Len(todo) - 1 /\ 1 \in 1 .. Len(todo) /\ Head(todo) = todo[1]
    BY <1>1, <2>1, HeadTailProperties, EmptySeq
  <2>3. next > 1
    BY <1>1, <2>1 DEF Phases
  <2>4. Merging' = Merging /\ Merged' = Merged + 1
    BY <1>1, <1>3, <2>1, <2>2, <2>3 DEF Merging, Merged
  <2>5. Merged \in Nat /\ Head(todo) = Merging[Merged + 1]
    BY <1>1, <1>3, <2>2, <2>3 DEF Remaining, Merged
  <2>6. (\A fr : Holds(first, fr) => Holds(first', fr)) /\ Holds(first', Head(todo))
    BY <1>8, MergeHolds
  <2>7. ASSUME NEW i \in 1 .. Merged + 1 PROVE Holds(first', Merging[i])
    <3>1. CASE i = Merged + 1
      BY <2>5, <2>6, <3>1
    <3>2. CASE i # Merged + 1
      <4>1. i \in 1 .. Merged
        BY <2>5, <3>2
      <4> QED BY <2>3, <2>6, <4>1 DEF Kept
    <3> QED BY <3>1, <3>2
  <2> QED BY <2>1, <2>4, <2>6, <2>7 DEF Kept
<1> QED BY <1>4, <1>5, <1>6, <1>7, <1>8, OtherSteps

-----------------------------------------------------------------------------
(* A dump that nobody disturbs.  Its messages cut the list of peers at      *)
(* places that follow each other: before a place are done peers, and, if a  *)
(* peer is open, sent of its allowed IPs.                                   *)

Cut(ps) ==
  {c \in [done : Nat, sent : Nat, open : BOOLEAN] :
     /\ c.done <= Len(ps)
     /\ ~ c.open => c.sent = 0
     /\ c.open => c.done < Len(ps) /\ c.sent < Len(ps[c.done + 1].ips)}

Start   == [done |-> 0, sent |-> 0, open |-> FALSE]
End(ps) == [done |-> Len(ps), sent |-> 0, open |-> FALSE]

\* Of how many peers there is something before the cut, and which of the
\* allowed IPs of the peer at x.
Upto(c)      == IF c.open THEN c.done + 1 ELSE c.done
From(c, x)   == IF x = c.done + 1 THEN c.sent ELSE 0
To(ps, c, x) == IF x <= c.done THEN Len(ps[x].ips) ELSE c.sent

\* What a message that lies between the cuts u and v has of the peer at x.
Piece(ps, u, v, x) ==
  [key   |-> ps[x].key,
   attrs |-> IF u.open /\ x = u.done + 1 THEN Nil ELSE ps[x].attrs,
   ips   |-> SubSeq(ps[x].ips, From(u, x) + 1, To(ps, v, x))]

Between(ps, u, v, fr) ==
  /\ u.done <= v.done
  /\ u.done = v.done => u.sent <= v.sent /\ (u.open => v.open)
  /\ Len(fr) = Upto(v) - u.done
  /\ \A i \in 1 .. Len(fr) : fr[i] = Piece(ps, u, v, u.done + i)

\* What is there of the peer at x before the cut c; the first n peers are there
\* as far as c.
Have(ps, c, x) ==
  [key |-> ps[x].key, attrs |-> ps[x].attrs, ips |-> SubSeq(ps[x].ips, 1, To(ps, c, x))]
Built(ps, c, n, qs) == Len(qs) = n /\ \A x \in 1 .. n : qs[x] = Have(ps, c, x)

\* The first k peers of the message between u and v have been merged.
Assembled(ps, u, v, k, qs) ==
  IF k = 0 THEN Built(ps, u, Upto(u), qs) ELSE Built(ps, v, u.done + k, qs)

\* The kernel goes on at c.
CursorAt(c) ==
  /\ last = IF c.done = 0 THEN Nil ELSE peers[c.done].key
  /\ part = IF c.open THEN peers[c.done + 1].key ELSE Nil
  /\ sent = c.sent

CutsAre(c) ==
  /\ c[0] = Start
  /\ \A m \in 1 .. Len(msgs) : Between(peers, c[m - 1], c[m], msgs[m].peers)
  /\ stage = "dump" => CursorAt(c[Len(msgs)])
  /\ stage # "dump" => c[Len(msgs)] = End(peers)
  /\ next > 1 => Assembled(peers, c[next - 2], c[next - 1], Merged, first.peers)

InPieces ==
  coherent /\ outcome # "error" => \E c \in [0 .. Len(msgs) -> Cut(peers)] : CutsAre(c)

\* The device's own attributes are those of the first message.
DevOnce == (msgs # <<>> => msgs[1].dev = dev) /\ (next > 1 => first.dev = dev)

-----------------------------------------------------------------------------
(* Where the kernel cuts.                                                  *)

LEMMA CutIs ==
  ASSUME NEW ps, NEW c \in Cut(ps)
  PROVE  /\ c.done \in Nat /\ c.sent \in Nat /\ c.open \in BOOLEAN /\ c.done <= Len(ps)
         /\ ~ c.open => c.sent = 0
         /\ c.open => c.done < Len(ps) /\ c.sent < Len(ps[c.done + 1].ips)
  BY DEF Cut

LEMMA PeerIs ==
  ASSUME NEW ps \in Seq(Peer), NEW x \in 1 .. Len(ps)
  PROVE  /\ ps[x] \in Peer /\ ps[x].key \in Keys /\ ps[x].attrs \in Values
         /\ ps[x].ips \in Seq(IPs) /\ Len(ps[x].ips) \in Nat
         /\ ps[x] = [key |-> ps[x].key, attrs |-> ps[x].attrs, ips |-> ps[x].ips]
         /\ SubSeq(ps[x].ips, 1, Len(ps[x].ips)) = ps[x].ips
<1>1. ps[x] \in Peer
  BY ElementOfSeq
<1>2. /\ ps[x].key \in Keys /\ ps[x].attrs \in Values /\ ps[x].ips \in Seq(IPs)
      /\ ps[x] = [key |-> ps[x].key, attrs |-> ps[x].attrs, ips |-> ps[x].ips]
  BY <1>1 DEF Peer
<1> QED BY <1>1, <1>2, LenProperties, SubSeqFull

\* The first j elements of the rest behind the first f.
LEMMA PieceOfRest ==
  ASSUME NEW S, NEW s \in Seq(S), NEW f \in 0 .. Len(s), NEW j \in 0 .. Len(s) - f
  PROVE  /\ SubSeq(SubSeq(s, f + 1, Len(s)), 1, j) = SubSeq(s, f + 1, f + j)
         /\ Len(SubSeq(s, f + 1, Len(s))) = Len(s) - f
<1> DEFINE r == SubSeq(s, f + 1, Len(s))
<1>1. Len(s) \in Nat /\ \A i \in 1 .. Len(s) : s[i] \in S
  BY ElementOfSeq, LenProperties
<1>2. /\ r \in Seq(S) /\ Len(r) = Len(s) - f
      /\ \A i \in 1 .. Len(s) - f : r[i] = s[f + i]
  BY <1>1, SubSeqProperties
<1>3. /\ SubSeq(s, f + 1, f + j) \in Seq(S) /\ Len(SubSeq(s, f + 1, f + j)) = j
      /\ \A i \in 1 .. j : SubSeq(s, f + 1, f + j)[i] = s[f + i]
  BY <1>1, SubSeqProperties
<1> HIDE DEF r
<1>4. /\ SubSeq(r, 1, j) \in Seq(S) /\ Len(SubSeq(r, 1, j)) = j
      /\ \A i \in 1 .. j : SubSeq(r, 1, j)[i] = r[i]
  <2>1. \A i \in 1 .. j : r[i] \in S
    BY <1>1, <1>2
  <2> QED BY <1>1, <2>1, SubSeqProperties
<1>5. \A i \in 1 .. j : SubSeq(r, 1, j)[i] = SubSeq(s, f + 1, f + j)[i]
  BY <1>1, <1>2, <1>3, <1>4
<1>6. SubSeq(r, 1, j) = SubSeq(s, f + 1, f + j)
  BY <1>3, <1>4, <1>5, SeqEqual
<1> QED BY <1>2, <1>6 DEF r

\* A peer that is continued has its further allowed IPs.
LEMMA ContinuedAtCut ==
  ASSUME coherent, NEW p \in Peer
  PROVE  Continued(p) = [key |-> p.key, attrs |-> Nil, ips |-> SubSeq(p.ips, sent + 1, Len(p.ips))]
<1> DEFINE q == SubSeq(p.ips, sent + 1, Len(p.ips))
<1>1. Continued(p) = [p EXCEPT !.attrs = Nil, !.ips = q]
  BY DEF Continued
<1> HIDE DEF q
<1>2. Continued(p) = [key |-> p.key, attrs |-> Nil, ips |-> q]
  BY <1>1 DEF Peer
<1> QED BY <1>2 DEF q

\* At a cut, the rest is what lies between it and the end.
LEMMA RestAtCut ==
  ASSUME DumpTypeOK, Distinct(peers), coherent, NEW c \in Cut(peers), CursorAt(c)
  PROVE  /\ Len(Rest) = Len(peers) - c.done
         /\ \A i \in 1 .. Len(Rest) : Rest[i] = Piece(peers, c, End(peers), c.done + i)
<1> DEFINE d == c.done
<1>1. /\ peers \in Seq(Peer) /\ Len(peers) \in Nat /\ DOMAIN peers = 1 .. Len(peers)
      /\ d \in 0 .. Len(peers)
      /\ \A x \in 1 .. Len(peers) : peers[x].key \in Keys /\ peers[x].key # Nil
  <2>1. peers \in Seq(Peer) /\ Len(peers) \in Nat /\ DOMAIN peers = 1 .. Len(peers)
    BY PeersAre
  <2>2. d \in Nat /\ d <= Len(peers)
    BY CutIs
  <2>3. ASSUME NEW x \in 1 .. Len(peers) PROVE peers[x].key \in Keys /\ peers[x].key # Nil
    BY <2>1, PeerIs, NilAssumption
  <2> QED BY <2>1, <2>2, <2>3
<1>2. /\ c.sent \in Nat /\ c.open \in BOOLEAN /\ (~ c.open => c.sent = 0)
      /\ (c.open => d + 1 \in 1 .. Len(peers))
  BY <1>1, CutIs
<1>3. d # 0 => Position(last) = {d}
  BY <1>1 DEF Position, Distinct, CursorAt
<1>4. ~ Lost
  <2>1. last # Nil => Position(last) # {}
    BY <1>3 DEF CursorAt
  <2>2. part # Nil => d + 1 \in Position(part)
    BY <1>1, <1>2 DEF Position, CursorAt
  <2> QED BY <2>1, <2>2 DEF Lost
<1>5. d + 1 = IF last = Nil THEN 1 ELSE 1 + CHOOSE i \in Position(last) : TRUE
  <2>1. CASE d = 0
    BY <2>1 DEF CursorAt
  <2>2. CASE d # 0
    <3>1. last # Nil
      BY <1>1, <2>2 DEF CursorAt
    <3> DEFINE at == CHOOSE i \in Position(last) : TRUE
    <3>2. at = d
      BY <1>3, <2>2
    <3> HIDE DEF at
    <3>3. 1 + at = d + 1
      BY <1>1, <3>2
    <3> QED BY <3>1, <3>3 DEF at
  <2> QED BY <2>1, <2>2
<1>6. RestBehind(d)
  BY <1>1, <1>4, <1>5, RestAfter
<1>7. ASSUME NEW i \in 1 .. Len(Rest)
      PROVE  Rest[i] = Piece(peers, c, End(peers), d + i)
  <2> DEFINE x == d + i
             p == peers[x]
  <2>1. /\ x \in 1 .. Len(peers) /\ i \in Nat
        /\ Rest[i] = IF i = 1 /\ part # Nil /\ p.key = part THEN Continued(p) ELSE p
    BY <1>1, <1>6, LenProperties, SMTT(20) DEF RestBehind
  <2>2. /\ p.ips \in Seq(IPs) /\ Len(p.ips) \in Nat
        /\ p = [key |-> p.key, attrs |-> p.attrs, ips |-> p.ips]
        /\ SubSeq(p.ips, 1, Len(p.ips)) = p.ips
    BY <1>1, <2>1, PeerIs
  <2>3. To(peers, End(peers), x) = Len(p.ips)
    BY <2>1 DEF To, End
  <2>4. (i = 1 /\ part # Nil /\ p.key = part) <=> (c.open /\ x = d + 1)
    BY <1>1, <1>2, <2>1 DEF CursorAt
  <2>5. CASE c.open /\ x = d + 1
    <3>1. Continued(p) = [key |-> p.key, attrs |-> Nil, ips |-> SubSeq(p.ips, sent + 1, Len(p.ips))]
      BY <1>1, <2>1, PeerIs, ContinuedAtCut
    <3>2. Rest[i] = Continued(p)
      BY <2>1, <2>4, <2>5
    <3>3. From(c, x) = sent
      BY <2>5 DEF From, CursorAt
    <3>4. Piece(peers, c, End(peers), x) =
            [key |-> p.key, attrs |-> Nil, ips |-> SubSeq(p.ips, sent + 1, Len(p.ips))]
      BY <2>3, <2>5, <3>3 DEF Piece
    <3> QED BY <3>1, <3>2, <3>4
  <2>6. CASE ~ (c.open /\ x = d + 1)
    <3>1. From(c, x) = 0
      BY <1>2, <2>6 DEF From
    <3>2. Rest[i] = [key |-> p.key, attrs |-> p.attrs, ips |-> p.ips]
      BY <2>1, <2>2, <2>4, <2>6
    <3>3. Piece(peers, c, End(peers), x) =
            [key |-> p.key, attrs |-> p.attrs, ips |-> SubSeq(p.ips, 1, Len(p.ips))]
      <4>1. From(c, x) + 1 = 1
        BY <3>1
      <4> QED BY <2>3, <2>6, <4>1, Zenon DEF Piece
    <3> QED BY <2>2, <3>2, <3>3
  <2> QED BY <2>5, <2>6
<1> QED BY <1>1, <1>6, <1>7 DEF RestBehind

\* As far as the peers before a cut go, it does not matter what follows.
LEMMA PieceBefore ==
  ASSUME NEW ps, NEW u, NEW v, NEW x \in Nat, Len(ps) \in Nat, x <= v.done, x <= Len(ps)
  PROVE  Piece(ps, u, v, x) = Piece(ps, u, End(ps), x)
<1>1. To(ps, v, x) = Len(ps[x].ips) /\ To(ps, End(ps), x) = Len(ps[x].ips)
  BY DEF To, End
<1> QED BY <1>1 DEF Piece

\* The end of the dump is a cut.
LEMMA EndIs ==
  ASSUME NEW ps \in Seq(Peer)
  PROVE  /\ End(ps) \in Cut(ps) /\ Upto(End(ps)) = Len(ps)
         /\ Start \in Cut(ps) /\ Upto(Start) = 0
<1>1. Len(ps) \in Nat
  BY LenProperties
<1> QED BY <1>1 DEF End, Start, Cut, Upto

\* The part of a peer that fills a message.
\* The cut behind n more peers and j of the allowed IPs that are left of another.
Until(u, n, j) ==
  [done |-> u.done + n, sent |-> From(u, u.done + n + 1) + j, open |-> TRUE]

LEMMA PieceCut ==
  ASSUME NEW ps \in Seq(Peer), NEW u \in Cut(ps), NEW n \in Nat, u.done + n < Len(ps),
         NEW j \in Nat, j < Len(Piece(ps, u, End(ps), u.done + n + 1).ips)
  PROVE  /\ Short(Piece(ps, u, End(ps), u.done + n + 1), j)
               = Piece(ps, u, Until(u, n, j), u.done + n + 1)
         /\ Until(u, n, j) \in Cut(ps)
<1> DEFINE x == u.done + n + 1
           v == Until(u, n, j)
           ips == ps[x].ips
           f == From(u, x)
           key == ps[x].key
           attrs == IF u.open /\ x = u.done + 1 THEN Nil ELSE ps[x].attrs
<1>1. /\ u.done \in Nat /\ u.sent \in Nat /\ u.open \in BOOLEAN
      /\ ~ u.open => u.sent = 0
      /\ u.open => u.sent < Len(ps[u.done + 1].ips)
  BY CutIs
<1>2. x \in 1 .. Len(ps) /\ Len(ps) \in Nat
  BY <1>1, LenProperties
<1>3. ips \in Seq(IPs) /\ Len(ips) \in Nat
  BY <1>2, PeerIs
<1>4. f \in 0 .. Len(ips)
  <2>1. CASE x = u.done + 1
    <3>1. f = u.sent
      BY <2>1 DEF From
    <3>2. CASE u.open
      BY <1>1, <1>3, <2>1, <3>1, <3>2
    <3>3. CASE ~ u.open
      BY <1>1, <1>3, <3>1, <3>3
    <3> QED BY <3>2, <3>3
  <2>2. CASE x # u.done + 1
    BY <1>3, <2>2 DEF From
  <2> QED BY <2>1, <2>2
<1>5. To(ps, End(ps), x) = Len(ips) /\ To(ps, v, x) = f + j
  <2>1. ~ (x <= v.done) /\ v.sent = f + j
    BY <1>1 DEF Until
  <2>2. x <= End(ps).done
    BY <1>2 DEF End
  <2> QED BY <2>1, <2>2 DEF To
<1>6. /\ Piece(ps, u, End(ps), x) = [key |-> key, attrs |-> attrs, ips |-> SubSeq(ips, f + 1, Len(ips))]
      /\ Piece(ps, u, v, x) = [key |-> key, attrs |-> attrs, ips |-> SubSeq(ips, f + 1, f + j)]
  BY <1>5 DEF Piece
<1>v. v = [done |-> u.done + n, sent |-> f + j, open |-> TRUE]
  BY DEF Until
<1> HIDE DEF ips, f, key, attrs, v
<1>7. 0 \in 0 .. Len(ips) - f /\ Len(SubSeq(ips, f + 1, Len(ips))) = Len(ips) - f
  BY <1>3, <1>4, PieceOfRest
<1>8. j \in 0 .. Len(ips) - f /\ f + j < Len(ips)
  BY <1>3, <1>4, <1>6, <1>7
<1>9. SubSeq(SubSeq(ips, f + 1, Len(ips)), 1, j) = SubSeq(ips, f + 1, f + j)
  BY <1>3, <1>4, <1>8, PieceOfRest
<1>10. Short(Piece(ps, u, End(ps), x), j) = Piece(ps, u, v, x)
  <2> DEFINE p == Piece(ps, u, End(ps), x)
             q == SubSeq(p.ips, 1, j)
  <2>1. q = SubSeq(ips, f + 1, f + j)
    <3>1. p.ips = SubSeq(ips, f + 1, Len(ips))
      BY <1>6
    <3> QED BY <1>9, <3>1
  <2> HIDE DEF q
  <2>2. [p EXCEPT !.ips = q] = [key |-> key, attrs |-> attrs, ips |-> q]
    BY <1>6
  <2> QED BY <1>6, <2>1, <2>2 DEF q, Short
<1>11. v \in Cut(ps)
  <2>1. /\ v \in [done : Nat, sent : Nat, open : BOOLEAN] /\ v.open
        /\ v.done < Len(ps) /\ v.done + 1 = x /\ v.sent = f + j
    BY <1>1, <1>3, <1>4, <1>v
  <2>2. v.sent < Len(ps[v.done + 1].ips)
    BY <1>8, <2>1 DEF ips
  <2>3. v.done <= Len(ps)
    BY <1>1, <1>2, <2>1
  <2> QED BY <2>1, <2>2, <2>3 DEF Cut
<1> QED BY <1>10, <1>11 DEF v

\* A message lies between the cut at which the kernel is and another one.
SendsUntil(u, v, fr) ==
  /\ SendMessage(fr)
  /\ Between(peers, u, v, fr)
  /\ stage' = "dump" => CursorAt(v)'
  /\ stage' # "dump" => v = End(peers)

LEMMA SendCuts ==
  ASSUME DumpTypeOK, Distinct(peers), coherent, NEW u \in Cut(peers), CursorAt(u), Sending
  PROVE  \E v \in Cut(peers), fr \in Seq(Fragment) : SendsUntil(u, v, fr)
<1> DEFINE d == u.done
<1>1. /\ peers \in Seq(Peer) /\ Len(peers) \in Nat
      /\ d \in Nat /\ d <= Len(peers) /\ u.sent \in Nat
  <2>1. peers \in Seq(Peer) /\ Len(peers) \in Nat
    BY PeersAre
  <2>2. d \in Nat /\ d <= Len(peers) /\ u.sent \in Nat
    BY CutIs
  <2> QED BY <2>1, <2>2
<1>o. (u.open => d < Len(peers)) /\ (~ u.open => u.sent = 0)
  BY CutIs
<1>2. /\ Rest \in Seq(Fragment) /\ Len(Rest) = Len(peers) - d
      /\ \A i \in 1 .. Len(Rest) : Rest[i] = Piece(peers, u, End(peers), d + i)
  BY RestIs, RestAtCut
<1>n. Len(peers) \in Nat /\ d \in Nat /\ d <= Len(peers) /\ u.sent \in Nat
  BY <1>1
<1>r. Len(Rest) = Len(peers) - d
  BY <1>2
<1>3. ASSUME NEW i \in 1 .. Len(Rest) PROVE Rest[i].key = peers[d + i].key
  <2>1. Rest[i] = Piece(peers, u, End(peers), d + i)
    BY <1>2
  <2> QED BY <2>1 DEF Piece
<1>4. ASSUME NEW n \in 0 .. Len(peers), SendsPeers(n)
      PROVE  \E v \in Cut(peers), fr \in Seq(Fragment) : SendsUntil(u, v, fr)
  <2> DEFINE v == [done |-> d + n, sent |-> 0, open |-> FALSE]
             fr == SubSeq(Rest, 1, n)
  <2>1. n \in 1 .. Len(Rest) /\ n \in Nat /\ n <= Len(Rest) /\ n # 0 /\ d + n < Len(peers)
    BY <1>1, <1>2, <1>4 DEF SendsPeers
  <2>2. v \in Cut(peers) /\ v.done = d + n /\ v.sent = 0 /\ v.open = FALSE
    BY <1>1, <2>1 DEF Cut
  <2>3. fr \in Seq(Fragment) /\ Len(fr) = n /\ \A i \in 1 .. n : fr[i] = Rest[i]
    BY <2>1, PeersSent
  <2>4. SendMessage(fr) /\ stage' = "dump" /\ peers' = peers
    BY <1>4 DEF SendsPeers
  <2> HIDE DEF fr
  <2>5. last' = peers[d + n].key /\ part' = Nil /\ sent' = 0
    BY <1>3, <1>4, <2>1 DEF SendsPeers
  <2> HIDE DEF v
  <2>6. CursorAt(v)'
    BY <1>1, <2>1, <2>2, <2>4, <2>5 DEF CursorAt
  <2>7. ASSUME NEW i \in 1 .. n PROVE fr[i] = Piece(peers, u, v, d + i)
    <3>1. d + i \in Nat /\ d + i <= v.done /\ d + i <= Len(peers) /\ i \in 1 .. Len(Rest)
      BY <1>1, <1>2, <2>1, <2>2
    <3>2. fr[i] = Piece(peers, u, End(peers), d + i)
      BY <1>2, <2>3, <3>1
    <3> QED BY <1>1, <3>1, <3>2, PieceBefore
  <2>8. Between(peers, u, v, fr)
    <3>1. Upto(v) = d + n
      BY <2>2 DEF Upto
    <3>2. d <= v.done /\ d # v.done
      BY <1>n, <2>1, <2>2
    <3>3. Len(fr) = Upto(v) - d
      BY <1>n, <2>1, <2>3, <3>1
    <3> QED BY <2>3, <2>7, <3>2, <3>3 DEF Between
  <2> QED BY <2>2, <2>3, <2>4, <2>6, <2>8 DEF SendsUntil
<1>5. ASSUME NEW n \in 0 .. Len(peers), n < Len(Rest),
             NEW j \in 0 .. Len(Rest[n + 1].ips), SendsPart(n, j)
      PROVE  \E v \in Cut(peers), fr \in Seq(Fragment) : SendsUntil(u, v, fr)
  <2> DEFINE x == d + n + 1
             v == Until(u, n, j)
             f == Part(n, j)
             fr == WithPart(n, j)
  <2>1. /\ n \in Nat /\ n + 1 \in 1 .. Len(Rest) /\ d + n < Len(peers)
        /\ d + (n + 1) = x /\ x \in Nat
    <3>1. n \in Nat /\ n < Len(Rest)
      BY <1>n, <1>5
    <3>2. n + 1 \in 1 .. Len(Rest) /\ d + n < Len(peers)
      BY <1>n, <1>r, <3>1
    <3>3. d + (n + 1) = x /\ x \in Nat
      BY <1>n, <3>1
    <3> QED BY <3>1, <3>2, <3>3
  <2>2. Rest[n + 1] = Piece(peers, u, End(peers), x) /\ Rest[n + 1].key = peers[x].key
    BY <1>2, <1>3, <2>1
  <2>3. j \in Nat /\ j < Len(Rest[n + 1].ips) /\ j <= Len(Rest[n + 1].ips)
    <3>1. Rest[n + 1] \in Fragment
      BY <1>2, <2>1, ElementOfSeq
    <3>2. Rest[n + 1].ips \in Seq(IPs)
      BY <3>1 DEF Fragment
    <3> QED BY <1>5, <3>2, LenProperties DEF SendsPart
  <2>4. f = Piece(peers, u, v, x) /\ v \in Cut(peers)
    <3> DEFINE p == Piece(peers, u, End(peers), x)
    <3>1. f = Short(p, j) /\ j < Len(p.ips)
      BY <2>2, <2>3 DEF Part
    <3>2. n \in Nat /\ j \in Nat /\ peers \in Seq(Peer) /\ d + n < Len(peers)
      BY <1>1, <2>1, <2>3
    <3> QED BY <3>1, <3>2, PieceCut
  <2>5. SendMessage(fr) /\ stage' = "dump" /\ peers' = peers
    BY <1>5 DEF SendsPart, WithPart, Part, Short
  <2>6. /\ fr \in Seq(Fragment) /\ Len(fr) = n + 1
        /\ \A i \in 1 .. n : fr[i] = Rest[i]
        /\ fr[n + 1] = f
    BY <1>5, <2>1, <2>3, PartSent
  <2> HIDE DEF f, fr
  <2>7. v.done = d + n
    BY DEF Until
  <2>s. v.sent = From(u, x) + j
    BY DEF Until
  <2>o. v.open
    BY DEF Until
  <2>8. From(u, x) = IF n = 0 THEN u.sent ELSE 0
    BY <1>1, <2>1 DEF From
  <2>9. /\ last' = IF n = 0 THEN last ELSE Rest[n].key
        /\ part' = Rest[n + 1].key
        /\ sent' = IF n = 0 THEN sent + j ELSE j
    BY <1>5 DEF SendsPart
  <2> HIDE DEF v
  <2>10. last' = IF v.done = 0 THEN Nil ELSE peers[v.done].key
    <3>1. CASE n = 0
      BY <1>1, <2>7, <2>9, <3>1 DEF CursorAt
    <3>2. CASE n # 0
      <4>1. n \in 1 .. Len(Rest) /\ v.done # 0
        BY <1>1, <1>2, <2>1, <2>7, <3>2
      <4> QED BY <1>3, <2>7, <2>9, <3>2, <4>1
    <3> QED BY <3>1, <3>2
  <2>11. part' = peers[v.done + 1].key
    BY <1>1, <2>1, <2>2, <2>7, <2>9
  <2>12. sent' = v.sent
    <3>1. CASE n = 0
      BY <2>8, <2>s, <2>9, <3>1 DEF CursorAt
    <3>2. CASE n # 0
      BY <2>3, <2>8, <2>s, <2>9, <3>2
    <3> QED BY <3>1, <3>2
  <2>13. CursorAt(v)'
    BY <2>5, <2>o, <2>10, <2>11, <2>12 DEF CursorAt
  <2>14. ASSUME NEW i \in 1 .. n + 1 PROVE fr[i] = Piece(peers, u, v, d + i)
    <3>1. CASE i = n + 1
      BY <2>1, <2>4, <2>6, <3>1
    <3>2. CASE i # n + 1
      <4>1. /\ d + i \in Nat /\ d + i <= v.done /\ d + i <= Len(peers)
            /\ i \in 1 .. n /\ i \in 1 .. Len(Rest)
        <5>1. n \in Nat /\ i \in 1 .. n
          BY <2>1, <3>2
        <5>2. d + i \in Nat /\ d + i <= v.done
          BY <1>n, <2>7, <5>1
        <5>3. d + n < Len(peers) /\ d + i <= Len(peers)
          BY <1>n, <2>1, <5>1
        <5>4. i \in 1 .. Len(Rest)
          BY <1>n, <1>r, <5>1, <5>3
        <5> QED BY <5>1, <5>2, <5>3, <5>4
      <4>2. fr[i] = Piece(peers, u, End(peers), d + i)
        BY <1>2, <2>6, <4>1
      <4> QED BY <1>1, <4>1, <4>2, PieceBefore
    <3> QED BY <3>1, <3>2
  <2>15. /\ d <= v.done /\ Len(fr) = Upto(v) - d
         /\ d = v.done => u.sent <= v.sent
    <3>1. Upto(v) = d + n + 1
      BY <2>7, <2>o DEF Upto
    <3>2. Len(fr) = n + 1 /\ n \in Nat
      BY <2>1, <2>6
    <3>3. d <= v.done /\ Len(fr) = Upto(v) - d
      BY <1>n, <2>7, <3>1, <3>2
    <3>4. ASSUME d = v.done PROVE u.sent <= v.sent
      <4>1. n = 0
        BY <1>n, <2>7, <3>2, <3>4
      <4>2. v.sent = u.sent + j
        BY <2>8, <2>s, <4>1
      <4> QED BY <1>n, <2>3, <4>2
    <3> QED BY <3>3, <3>4
  <2>16. Between(peers, u, v, fr)
    BY <2>6, <2>o, <2>14, <2>15 DEF Between
  <2> QED BY <2>4, <2>5, <2>6, <2>13, <2>16 DEF SendsUntil
<1>6. CASE SendsLast
  <2>1. SendMessage(Rest) /\ stage' = "parse"
    BY <1>6 DEF SendsLast
  <2>2. End(peers).done = Len(peers) /\ End(peers).sent = 0 /\ ~ End(peers).open
    BY DEF End
  <2>3. /\ d <= End(peers).done
        /\ d = End(peers).done => u.sent <= End(peers).sent /\ (u.open => End(peers).open)
    BY <1>1, <1>o, <2>2
  <2>4. Between(peers, u, End(peers), Rest)
    BY <1>1, <1>2, <2>3, EndIs DEF Between
  <2> QED BY <1>1, <1>2, <2>1, <2>4, EndIs DEF SendsUntil
<1> QED BY <1>4, <1>5, <1>6 DEF Sending

-----------------------------------------------------------------------------
(* What is put together of the pieces.                                     *)

LEMMA PieceNew ==
  ASSUME NEW ps, NEW u \in Cut(ps), NEW v, NEW x \in Nat, ~ (u.open /\ x = u.done + 1)
  PROVE  Piece(ps, u, v, x) = Have(ps, v, x)
<1>1. From(u, x) = 0
  <2>1. CASE x = u.done + 1
    BY <2>1, CutIs DEF From
  <2>2. CASE x # u.done + 1
    BY <2>2 DEF From
  <2> QED BY <2>1, <2>2
<1>2. From(u, x) + 1 = 1
  BY <1>1
<1> QED BY <1>2, Zenon DEF Piece, Have

LEMMA HaveBefore ==
  ASSUME NEW ps, NEW u \in Cut(ps), NEW v \in Cut(ps), u.done <= v.done,
         NEW y \in Nat, y <= u.done
  PROVE  Have(ps, u, y) = Have(ps, v, y)
<1>1. y <= v.done
  BY CutIs
<1>2. To(ps, u, y) = Len(ps[y].ips) /\ To(ps, v, y) = Len(ps[y].ips)
  BY <1>1 DEF To
<1> QED BY <1>2 DEF Have

\* The piece of a peer that was open continues what is there of it.
LEMMA PieceContinues ==
  ASSUME NEW ps \in Seq(Peer), NEW u \in Cut(ps), NEW v \in Cut(ps), u.open,
         u.done <= v.done, u.done = v.done => u.sent <= v.sent /\ (u.open => v.open),
         NEW x, x = u.done + 1
  PROVE  Have(ps, u, x).ips \o Piece(ps, u, v, x).ips = Have(ps, v, x).ips
<1> DEFINE ips == ps[x].ips
           t == To(ps, v, x)
<1>1. /\ u.done \in Nat /\ u.sent \in Nat /\ v.done \in Nat /\ v.sent \in Nat
      /\ u.done < Len(ps) /\ u.sent < Len(ips)
      /\ v.open => v.sent < Len(ps[v.done + 1].ips)
  BY CutIs
<1>2. x \in 1 .. Len(ps) /\ Len(ps) \in Nat
  BY <1>1, LenProperties
<1>3. ips \in Seq(IPs) /\ Len(ips) \in Nat
  BY <1>2, PeerIs
<1>4. To(ps, u, x) = u.sent /\ From(u, x) = u.sent
  BY <1>1 DEF To, From
<1>5. t \in Nat /\ u.sent <= t /\ t <= Len(ips)
  <2>1. CASE x <= v.done
    <3>1. t = Len(ips)
      BY <2>1 DEF To
    <3> QED BY <1>1, <1>3, <3>1
  <2>2. CASE ~ (x <= v.done)
    <3>1. u.done = v.done /\ v.done + 1 = x /\ t = v.sent
      BY <1>1, <2>2 DEF To
    <3>2. u.sent <= v.sent /\ v.sent < Len(ips)
      BY <1>1, <3>1
    <3> QED BY <1>1, <1>3, <3>1, <3>2
  <2> QED BY <2>1, <2>2
<1>6. /\ Have(ps, u, x).ips = SubSeq(ips, 1, u.sent)
      /\ Piece(ps, u, v, x).ips = SubSeq(ips, u.sent + 1, t)
      /\ Have(ps, v, x).ips = SubSeq(ips, 1, t)
  BY <1>4 DEF Have, Piece
<1> HIDE DEF ips, t
<1>7. /\ 1 \in 1 .. Len(ips) + 1 /\ u.sent \in 1 - 1 .. Len(ips) /\ t \in u.sent .. Len(ips)
  BY <1>1, <1>3, <1>5
<1>8. SubSeq(ips, 1, u.sent) \o SubSeq(ips, u.sent + 1, t) = SubSeq(ips, 1, t)
  BY <1>3, <1>7, ConcatAdjacentSubSeq
<1> QED BY <1>6, <1>8

\* A peer that is not known is appended.
LEMMA BuildsNew ==
  ASSUME DumpTypeOK, MergeNew, NEW v, NEW n \in Nat, Built(peers, v, n, first.peers),
         Head(todo) = Have(peers, v, n + 1)
  PROVE  Built(peers, v, n + 1, first'.peers)
<1>1. /\ Len(first.peers) = n /\ Len(first'.peers) = n + 1
      /\ \A y \in 1 .. n : first'.peers[y] = Have(peers, v, y)
      /\ first'.peers[n + 1] = Have(peers, v, n + 1)
  BY NewMerged DEF Built
<1>2. ASSUME NEW y \in 1 .. n + 1 PROVE first'.peers[y] = Have(peers, v, y)
  <2>1. CASE y = n + 1
    BY <1>1, <2>1
  <2>2. CASE y # n + 1
    <3>1. y \in 1 .. n
      BY <2>2
    <3> QED BY <1>1, <3>1
  <2> QED BY <2>1, <2>2
<1> QED BY <1>1, <1>2 DEF Built

\* Which peers are known while n of them are there.
LEMMA KnownSoFar ==
  ASSUME DumpTypeOK, KeysOnce, Known, NEW c, NEW n \in Nat, n <= Len(peers),
         Built(peers, c, n, first.peers), NEW x \in 1 .. Len(peers)
  PROVE  /\ peers[x].key \in DOMAIN knownPeers <=> x <= n
         /\ x <= n => knownPeers[peers[x].key] = x
<1>1. /\ DOMAIN first.peers = 1 .. n
      /\ Len(peers) \in Nat /\ DOMAIN peers = 1 .. Len(peers)
  BY FirstIs, PeersAre DEF Built
<1>2. ASSUME NEW y \in 1 .. n PROVE first.peers[y].key = peers[y].key
  <2>1. first.peers[y] = Have(peers, c, y)
    BY DEF Built
  <2> QED BY <2>1 DEF Have
<1>3. ASSUME x <= n
      PROVE  peers[x].key \in DOMAIN knownPeers /\ knownPeers[peers[x].key] = x
  <2>1. x \in 1 .. n
    BY <1>1, <1>3
  <2> QED BY <1>1, <1>2, <2>1 DEF Known
<1>4. ASSUME peers[x].key \in DOMAIN knownPeers PROVE x <= n
  <2> DEFINE y == knownPeers[peers[x].key]
  <2>1. y \in 1 .. n /\ first.peers[y].key = peers[x].key
    <3>1. PICK K \in SUBSET Keys : knownPeers \in [K -> DOMAIN first.peers]
      BY DEF DumpTypeOK
    <3> QED BY <1>1, <1>4, <3>1 DEF Known
  <2>2. y \in DOMAIN peers /\ peers[y].key = peers[x].key
    BY <1>1, <1>2, <2>1
  <2>3. y = x
    BY <1>1, <2>2 DEF KeysOnce, Distinct
  <2> QED BY <2>1, <2>3
<1> QED BY <1>3, <1>4

\* One turn of mergeDevices.
LEMMA MergeAssembles ==
  ASSUME DumpTypeOK, Phases, KeysOnce, Known, Remaining, MergeKnown \/ MergeNew,
         NEW u \in Cut(peers), NEW v \in Cut(peers), Between(peers, u, v, Merging),
         Assembled(peers, u, v, Merged, first.peers)
  PROVE  Assembled(peers, u, v, Merged + 1, first'.peers)
<1> DEFINE k == Merged
           d == u.done
           x == d + k + 1
           h == Head(todo)
<1>1. /\ todo # <<>> /\ next > 1 /\ todo \in Seq(Fragment)
      /\ Len(todo) \in Nat \ {0} /\ h = todo[1]
  <2>1. todo # <<>> /\ todo \in Seq(Fragment)
    BY DEF MergeKnown, MergeNew, DumpTypeOK
  <2>2. next > 1
    BY <2>1 DEF Phases, DumpTypeOK
  <2> QED BY <2>1, <2>2, EmptySeq
<1>2. /\ Len(peers) \in Nat /\ d \in Nat /\ d <= Len(peers)
      /\ v.done \in Nat /\ v.done <= Len(peers) /\ d <= v.done
  BY PeersAre, CutIs DEF Between
<1>3. Upto(v) \in Nat /\ Upto(v) <= Len(peers)
  BY <1>2, CutIs DEF Upto
<1>4. k \in Nat /\ k + 1 \in 1 .. Len(Merging) /\ x \in 1 .. Len(peers) /\ x \in Nat
  <2>1. Len(Merging) = Upto(v) - d /\ k = Len(Merging) - Len(todo) /\ k >= 0
    BY <1>1 DEF Between, Merged, Remaining
  <2>2. Len(todo) \in Nat /\ Len(todo) >= 1
    BY <1>1
  <2> HIDE DEF k
  <2>3. k \in Nat /\ k + 1 \in 1 .. Len(Merging) /\ Len(Merging) \in Nat
    BY <1>2, <1>3, <2>1, <2>2, SMTT(20)
  <2>4. d + k + 1 <= Upto(v)
    BY <1>2, <1>3, <2>1, <2>3, SMTT(20)
  <2> QED BY <1>2, <1>3, <2>3, <2>4, SMTT(20)
<1>5. h = Piece(peers, u, v, x)
  <2>1. h = Merging[k + 1]
    BY <1>1 DEF Remaining
  <2>2. Merging[k + 1] = Piece(peers, u, v, d + (k + 1))
    BY <1>4 DEF Between
  <2>3. d + (k + 1) = x
    BY <1>2, <1>4
  <2> QED BY <2>1, <2>2, <2>3
<1>6. h.key = peers[x].key
  BY <1>5 DEF Piece
<1> HIDE DEF k, h
<1>7. k + 1 # 0 /\ d + (k + 1) = x
  BY <1>2, <1>4
<1> SUFFICES Built(peers, v, x, first'.peers)
  BY <1>7 DEF Assembled, k
\* The peers before this one are there as far as v; it is new.
<1>8. ASSUME Built(peers, v, d + k, first.peers), ~ (u.open /\ x = d + 1)
      PROVE  Built(peers, v, x, first'.peers)
  <2>1. d + k \in Nat /\ d + k <= Len(peers) /\ d + k + 1 = x /\ ~ (x <= d + k)
    BY <1>2, <1>4
  <2>2. h.key \notin DOMAIN knownPeers
    BY <1>4, <1>6, <1>8, <2>1, KnownSoFar
  <2>3. MergeNew
    BY <2>2 DEF MergeKnown, h
  <2>4. h = Have(peers, v, x)
    BY <1>4, <1>5, <1>8, PieceNew
  <2> QED BY <1>8, <2>1, <2>3, <2>4, BuildsNew DEF h
<1>9. CASE k # 0
  <2>1. Built(peers, v, d + k, first.peers)
    BY <1>9 DEF Assembled, k
  <2>2. x # d + 1
    BY <1>2, <1>4, <1>9
  <2> QED BY <1>8, <2>1, <2>2
<1>10. CASE k = 0 /\ ~ u.open
  <2>1. d + k = d /\ Upto(u) = d
    BY <1>2, <1>10 DEF Upto
  <2>2. Built(peers, u, d, first.peers)
    BY <1>10, <2>1 DEF Assembled, k
  <2>3. ASSUME NEW y \in 1 .. d PROVE first.peers[y] = Have(peers, v, y)
    <3>1. first.peers[y] = Have(peers, u, y)
      BY <2>2 DEF Built
    <3>2. y \in Nat /\ y <= u.done
      BY <1>2
    <3> QED BY <1>2, <3>1, <3>2, HaveBefore
  <2>4. Built(peers, v, d + k, first.peers)
    BY <2>1, <2>2, <2>3 DEF Built
  <2> QED BY <1>8, <1>10, <2>4
<1>11. CASE k = 0 /\ u.open
  <2>1. x = d + 1 /\ Upto(u) = x
    BY <1>2, <1>11 DEF Upto
  <2>2. Built(peers, u, x, first.peers)
    BY <1>11, <2>1 DEF Assembled, k
  <2>3. h.key \in DOMAIN knownPeers /\ knownPeers[h.key] = x
    <3>1. x <= Len(peers) /\ x <= x
      BY <1>2, <1>4
    <3> QED BY <1>4, <1>6, <2>2, <3>1, KnownSoFar
  <2>4. MergeKnown
    BY <2>3 DEF MergeNew, h
  <2>5. /\ Len(first'.peers) = Len(first.peers)
        /\ \A i \in 1 .. Len(first.peers) :
             first'.peers[i] = IF i = x THEN [first.peers[i] EXCEPT !.ips = @ \o h.ips]
                                        ELSE first.peers[i]
    BY <2>3, <2>4, KnownMerged DEF h
  <2>6. Len(first.peers) = x /\ Len(first'.peers) = x /\ x \in 1 .. x
    BY <1>4, <2>2, <2>5 DEF Built
  <2>7. first'.peers[x] = Have(peers, v, x)
    <3> DEFINE o == Have(peers, u, x)
               both == o.ips \o h.ips
    <3>1. first.peers[x] = o
      BY <2>2, <2>6 DEF Built
    <3>2. first'.peers[x] = [o EXCEPT !.ips = both]
      BY <2>5, <2>6, <3>1
    <3>3. both = Have(peers, v, x).ips
      <4>1. Have(peers, u, x).ips \o Piece(peers, u, v, x).ips = Have(peers, v, x).ips
        BY <1>2, <1>11, <2>1, PeersAre, PieceContinues DEF Between
      <4> QED BY <1>5, <4>1
    <3> HIDE DEF both
    <3>4. first'.peers[x] = [key |-> peers[x].key, attrs |-> peers[x].attrs, ips |-> both]
      BY <3>2 DEF Have
    <3> QED BY <3>3, <3>4 DEF Have
  <2>8. ASSUME NEW y \in 1 .. x PROVE first'.peers[y] = Have(peers, v, y)
    <3>1. CASE y = x
      BY <2>7, <3>1
    <3>2. CASE y # x
      <4>1. y \in Nat /\ y <= d
        BY <1>2, <2>1, <3>2
      <4>2. first'.peers[y] = Have(peers, u, y)
        BY <2>2, <2>5, <2>6, <3>2 DEF Built
      <4> QED BY <1>2, <4>1, <4>2, HaveBefore
    <3> QED BY <3>1, <3>2
  <2> QED BY <2>6, <2>8 DEF Built
<1> QED BY <1>9, <1>10, <1>11

\* When a message is merged, the device is there as far as its end.
LEMMA AllMerged ==
  ASSUME NEW ps, NEW u \in Cut(ps), NEW v \in Cut(ps), NEW fr, NEW qs,
         Between(ps, u, v, fr), Len(fr) \in Nat, Assembled(ps, u, v, Len(fr), qs)
  PROVE  Built(ps, v, Upto(v), qs)
<1>1. u.done \in Nat /\ v.done \in Nat /\ u.done <= v.done /\ Len(fr) = Upto(v) - u.done
  BY CutIs DEF Between
<1>2. Upto(v) \in Nat
  BY <1>1, CutIs DEF Upto
<1>3. CASE Len(fr) # 0
  <2>1. u.done + Len(fr) = Upto(v)
    BY <1>1, <1>2
  <2> QED BY <1>3, <2>1 DEF Assembled
<1>4. CASE Len(fr) = 0
  <2>1. Upto(v) = u.done
    BY <1>1, <1>2, <1>4
  <2>2. v.done = u.done /\ ~ v.open
    BY <1>1, <2>1, CutIs DEF Upto
  <2>3. ~ u.open /\ Upto(u) = Upto(v)
    BY <2>1, <2>2 DEF Between, Upto
  <2>4. Built(ps, u, Upto(v), qs)
    BY <1>4, <2>3 DEF Assembled
  <2>5. ASSUME NEW y \in 1 .. Upto(v) PROVE qs[y] = Have(ps, v, y)
    <3>1. y \in Nat /\ y <= u.done
      BY <1>1, <2>1
    <3> QED BY <1>1, <2>4, <3>1, HaveBefore DEF Built
  <2> QED BY <2>4, <2>5 DEF Built
<1> QED BY <1>3, <1>4

LEMMA DevOnceStep ==
  ASSUME DumpTypeOK, Phases, DevOnce, [DumpNext]_dumpVars
  PROVE  DevOnce'
<1>1. Len(msgs) \in Nat /\ next \in Nat /\ msgs \in Seq(Message)
  BY LenProperties DEF DumpTypeOK
<1>2. dev' = dev
  BY DEF DumpNext, SendsPeers, SendsPart, SendsLast, PeerRemoved, PeerAdded, Others, Fails,
         ParseFirst, ParseNext, MergeKnown, MergeNew, Finish, dumpVars, kernelVars
<1>3. CASE Sending
  <2>1. PICK fr \in Seq(Fragment) : SendsFrom(fr)
    BY <1>3, SendsSome
  <2>2. /\ \A m \in 1 .. Len(msgs) : msgs'[m] = msgs[m]
        /\ msgs = <<>> => msgs'[1].dev = dev
        /\ next' = 1
    BY <2>1, SendTypes DEF SendsFrom, Phases
  <2>3. msgs # <<>> => 1 \in 1 .. Len(msgs)
    BY <1>1, EmptySeq
  <2> QED BY <1>2, <2>2, <2>3 DEF DevOnce
<1>4. CASE ParseFirst
  BY <1>2, <1>4 DEF ParseFirst, Phases, DevOnce
<1>5. CASE ParseNext
  BY <1>1, <1>2, <1>5 DEF ParseNext, DevOnce
<1>6. CASE MergeKnown
  <2>1. first'.dev = first.dev
    BY <1>6, KnownMerged
  <2> QED BY <1>2, <1>6, <2>1 DEF MergeKnown, DevOnce
<1>7. CASE MergeNew
  <2>1. first'.dev = first.dev
    BY <1>7, NewMerged
  <2> QED BY <1>2, <1>7, <2>1 DEF MergeNew, DevOnce
<1>8. CASE UNCHANGED <<msgs, next, todo, first, knownPeers>>
  BY <1>2, <1>8 DEF DevOnce
<1> QED BY <1>3, <1>4, <1>5, <1>6, <1>7, <1>8, OtherSteps

\* A step that only goes on with the messages leaves the cuts as they are.
LEMMA SameCuts ==
  ASSUME NEW c, CutsAre(c), UNCHANGED <<peers, last, part, sent, msgs>>,
         (stage' = "dump") = (stage = "dump"),
         next' > 1 => Assembled(peers, c[next' - 2], c[next' - 1], Merged', first'.peers)
  PROVE  CutsAre(c)'
<1>1. CASE stage = "dump"
  BY <1>1 DEF CutsAre, CursorAt
<1>2. CASE stage # "dump"
  BY <1>2 DEF CutsAre
<1> QED BY <1>1, <1>2

LEMMA InPiecesStep ==
  ASSUME DumpTypeOK, Phases, KeysOnce, Known, Remaining, InPieces, [DumpNext]_dumpVars
  PROVE  InPieces'
<1>1. /\ Len(msgs) \in Nat /\ next \in Nat \ {0} /\ msgs \in Seq(Message)
      /\ coherent \in BOOLEAN /\ peers \in Seq(Peer)
  BY LenProperties DEF DumpTypeOK
<1>2. CASE Changing
  <2>1. /\ stage = "dump" /\ stage' = "dump" /\ coherent' = (msgs = <<>>)
        /\ UNCHANGED <<last, part, sent, msgs, next>>
    BY <1>2 DEF Changing, PeerRemoved, PeerAdded, Changed, Others
  <2>2. peers' \in Seq(Peer)
    BY <1>2, RemovedPeers, AddedPeers DEF Changing
  <2>3. ASSUME msgs = <<>> PROVE \E c \in [0 .. Len(msgs') -> Cut(peers')] : CutsAre(c)'
    <3> DEFINE c == [i \in 0 .. 0 |-> Start]
    <3>1. Len(msgs') = 0 /\ Len(msgs) = 0 /\ next' = 1
      BY <2>1, <2>3, EmptySeq DEF Phases
    <3>2. c \in [0 .. 0 -> Cut(peers')] /\ c[0] = Start
      BY <2>2, EndIs
    <3>3. last' = Nil /\ part' = Nil /\ sent' = 0
      BY <2>1, <2>3 DEF Phases
    <3> HIDE DEF c
    <3>4. CursorAt(Start)'
      BY <3>3 DEF CursorAt, Start
    <3>5. CutsAre(c)'
      BY <2>1, <3>1, <3>2, <3>4 DEF CutsAre
    <3> QED BY <3>1, <3>2, <3>5
  <2> QED BY <2>1, <2>3 DEF InPieces
<1>3. CASE Fails
  BY <1>3 DEF Fails, Return, InPieces
<1> SUFFICES ASSUME ~ Changing, ~ Fails, coherent', outcome' # "error"
             PROVE  \E c \in [0 .. Len(msgs') -> Cut(peers')] : CutsAre(c)'
  BY <1>2, <1>3 DEF InPieces
<1>4. /\ coherent /\ outcome # "error" /\ peers' = peers
  <2>1. ASSUME Sending PROVE UNCHANGED <<coherent, outcome, peers>>
    BY <2>1, SendsSome DEF SendsFrom
  <2> QED BY <2>1 DEF DumpNext, Sending, Changing, ParseFirst, ParseNext, MergeKnown, MergeNew,
             Finish, Return, Phases, dumpVars, kernelVars
<1>5. PICK c \in [0 .. Len(msgs) -> Cut(peers)] : CutsAre(c)
  BY <1>4 DEF InPieces
<1>6. CASE Sending
  <2>1. stage = "dump" /\ next = 1 /\ next' = 1
    BY <1>6, SendsSome DEF SendsFrom, Phases
  <2>2. c[Len(msgs)] \in Cut(peers) /\ CursorAt(c[Len(msgs)])
    BY <1>1, <1>5, <2>1 DEF CutsAre
  <2>3. PICK v \in Cut(peers), fr \in Seq(Fragment) : SendsUntil(c[Len(msgs)], v, fr)
    BY <1>4, <1>6, <2>2, SendCuts DEF KeysOnce
  <2>4. /\ Len(msgs') = Len(msgs) + 1
        /\ \A m \in 1 .. Len(msgs) : msgs'[m] = msgs[m]
        /\ msgs'[Len(msgs) + 1].peers = fr
    BY <2>3, SendTypes DEF SendsUntil
  <2>5. PICK b \in [0 .. Len(msgs) + 1 -> Cut(peers)] :
               /\ \A i \in 0 .. Len(msgs) : b[i] = c[i]
               /\ b[Len(msgs) + 1] = v
    <3> DEFINE b == [i \in 0 .. Len(msgs) + 1 |-> IF i <= Len(msgs) THEN c[i] ELSE v]
    <3>1. /\ b \in [0 .. Len(msgs) + 1 -> Cut(peers)]
          /\ \A i \in 0 .. Len(msgs) : b[i] = c[i]
          /\ b[Len(msgs) + 1] = v
      BY <1>1, <1>5
    <3> QED BY <3>1
  <2>6. ASSUME NEW m \in 1 .. Len(msgs) + 1 PROVE Between(peers, b[m - 1], b[m], msgs'[m].peers)
    <3>1. CASE m = Len(msgs) + 1
      <4>1. m - 1 = Len(msgs) /\ Len(msgs) \in 0 .. Len(msgs)
        BY <1>1, <3>1
      <4>2. b[m - 1] = c[Len(msgs)] /\ b[m] = v /\ msgs'[m].peers = fr
        BY <2>4, <2>5, <3>1, <4>1
      <4> QED BY <2>3, <4>2 DEF SendsUntil
    <3>2. CASE m # Len(msgs) + 1
      <4>1. m \in 1 .. Len(msgs) /\ m \in 0 .. Len(msgs) /\ m - 1 \in 0 .. Len(msgs)
        BY <1>1, <3>2
      <4> QED BY <1>5, <2>4, <2>5, <4>1 DEF CutsAre
    <3> QED BY <3>1, <3>2
  <2>7. b[0] = Start
    BY <1>1, <1>5, <2>5 DEF CutsAre
  <2>8. (stage' = "dump" => CursorAt(v)') /\ (stage' # "dump" => v = End(peers))
    BY <2>3 DEF SendsUntil
  <2>9. CutsAre(b)'
    <3>1. \A m \in 1 .. Len(msgs') : Between(peers', b[m - 1], b[m], msgs'[m].peers)
      BY <1>4, <2>4, <2>6
    <3>2. b[Len(msgs')] = v
      BY <2>4, <2>5
    <3>3. stage' = "dump" => CursorAt(b[Len(msgs)])'
      BY <2>8, <3>2 DEF CursorAt
    <3>4. stage' # "dump" => b[Len(msgs')] = End(peers')
      BY <1>4, <2>8, <3>2
    <3>5. ~ (next' > 1)
      BY <2>1
    <3> QED BY <2>7, <3>1, <3>3, <3>4, <3>5 DEF CutsAre
  <2> QED BY <1>4, <2>4, <2>5, <2>9
<1>7. ASSUME UNCHANGED <<last, part, sent, msgs>>, (stage' = "dump") = (stage = "dump"),
             next' > 1 => Assembled(peers, c[next' - 2], c[next' - 1], Merged', first'.peers)
      PROVE  \E b \in [0 .. Len(msgs') -> Cut(peers')] : CutsAre(b)'
  <2>1. CutsAre(c)'
    BY <1>4, <1>5, <1>7, SameCuts
  <2> QED BY <1>4, <1>5, <1>7, <2>1
<1>8. CASE ParseFirst
  <2>1. /\ next' = 2 /\ UNCHANGED <<last, part, sent, msgs, stage, todo>>
        /\ first' = msgs[1] /\ todo' = <<>> /\ 1 \in 1 .. Len(msgs)
    BY <1>1, <1>8, EmptySeq DEF ParseFirst, Phases, kernelVars
  <2>2. /\ Merging' = msgs[1].peers /\ Merging' \in Seq(Fragment)
        /\ Merged' = Len(msgs[1].peers) /\ Len(msgs[1].peers) \in Nat
    <3>1. msgs[1].peers \in Seq(Fragment)
      <4>1. msgs[1] \in Message
        BY <1>1, <2>1, ElementOfSeq
      <4> QED BY <4>1 DEF Message
    <3>2. Len(todo') = 0 /\ Len(msgs[1].peers) \in Nat
      BY <2>1, <3>1, EmptySeq, LenProperties
    <3> QED BY <2>1, <3>1, <3>2 DEF Merging, Merged
  <2> DEFINE v == c[1]
             n == Len(msgs[1].peers)
  <2>3. c[0] = Start /\ v \in Cut(peers) /\ Between(peers, Start, v, msgs[1].peers)
    BY <1>1, <1>5, <2>1 DEF CutsAre
  <2>4. ASSUME NEW y \in 1 .. n PROVE msgs[1].peers[y] = Have(peers, v, y)
    <3>1. msgs[1].peers[y] = Piece(peers, Start, v, Start.done + y)
      BY <2>3 DEF Between
    <3>2. Start.done + y = y /\ y \in Nat /\ ~ Start.open
      BY <2>2 DEF Start
    <3>3. Start \in Cut(peers)
      BY <1>1, EndIs
    <3> QED BY <3>1, <3>2, <3>3, PieceNew
  <2>5. Assembled(peers, Start, v, n, msgs[1].peers)
    <3>1. CASE n = 0
      BY <1>1, <3>1, EndIs DEF Assembled, Built
    <3>2. CASE n # 0
      <4>1. Start.done + n = n
        BY <2>2 DEF Start
      <4> QED BY <2>4, <3>2, <4>1 DEF Assembled, Built
    <3> QED BY <3>1, <3>2
  <2>6. next' - 2 = 0 /\ next' - 1 = 1
    BY <2>1
  <2> QED BY <1>7, <2>1, <2>2, <2>3, <2>5, <2>6
<1>9. CASE ParseNext
  <2>1. /\ next' = next + 1 /\ UNCHANGED <<last, part, sent, msgs, stage, first>>
        /\ todo' = msgs[next].peers /\ todo = <<>> /\ next \in 1 .. Len(msgs) /\ next > 1
    BY <1>1, <1>9 DEF ParseNext, kernelVars
  <2>2. Merged' = 0
    <3>1. msgs[next] \in Message
      BY <1>1, <2>1, ElementOfSeq
    <3>2. msgs[next].peers \in Seq(Fragment)
      BY <3>1 DEF Message
    <3>3. next' - 1 = next /\ Len(msgs[next].peers) \in Nat
      BY <1>1, <2>1, <3>2, LenProperties
    <3> QED BY <2>1, <3>3 DEF Merging, Merged
  <2> DEFINE u == c[next - 2]
             v == c[next - 1]
  <2>3. /\ u \in Cut(peers) /\ v \in Cut(peers) /\ Between(peers, u, v, Merging)
        /\ Assembled(peers, u, v, Merged, first.peers)
    <3>1. /\ next - 2 \in 0 .. Len(msgs) /\ next - 1 \in 0 .. Len(msgs)
          /\ next - 1 \in 1 .. Len(msgs) /\ (next - 1) - 1 = next - 2
      BY <1>1, <2>1
    <3> QED BY <1>5, <2>1, <3>1 DEF CutsAre, Merging
  <2>4. Merged = Len(Merging) /\ Len(Merging) \in Nat
    <3>1. Len(todo) = 0 /\ Len(Merging) \in Nat
      BY <2>1, EmptySeq, RemainingStep
    <3> QED BY <3>1 DEF Merged
  <2>5. Built(peers, v, Upto(v), first.peers)
    BY <2>3, <2>4, AllMerged
  <2>6. next' - 2 = next - 1
    BY <1>1, <2>1
  <2> QED BY <1>7, <2>1, <2>2, <2>5, <2>6 DEF Assembled
<1>10. CASE MergeKnown \/ MergeNew
  <2>1. /\ UNCHANGED <<last, part, sent, msgs, stage, next>>
        /\ todo # <<>> /\ todo' = Tail(todo)
    BY <1>10 DEF MergeKnown, MergeNew, kernelVars
  <2>2. next > 1 /\ todo \in Seq(Fragment)
    BY <1>1, <2>1 DEF Phases, DumpTypeOK
  <2> DEFINE u == c[next - 2]
             v == c[next - 1]
  <2>3. /\ u \in Cut(peers) /\ v \in Cut(peers) /\ Between(peers, u, v, Merging)
        /\ Assembled(peers, u, v, Merged, first.peers)
    <3>1. next <= Len(msgs) + 1
      BY DEF Phases
    <3>2. /\ next - 2 \in 0 .. Len(msgs) /\ next - 1 \in 0 .. Len(msgs)
          /\ next - 1 \in 1 .. Len(msgs) /\ (next - 1) - 1 = next - 2
      BY <1>1, <2>2, <3>1
    <3> QED BY <1>5, <2>2, <3>2 DEF CutsAre, Merging
  <2>4. Merged' = Merged + 1
    <3>1. Len(todo') = Len(todo) - 1 /\ Len(todo) \in Nat /\ Merging' = Merging
      BY <2>1, <2>2, HeadTailProperties, LenProperties DEF Merging
    <3>2. Len(Merging) \in Nat
      BY <2>2, RemainingStep
    <3> QED BY <3>1, <3>2 DEF Merged
  <2>5. Assembled(peers, u, v, Merged + 1, first'.peers)
    BY <1>10, <2>3, MergeAssembles
  <2> QED BY <1>7, <2>1, <2>4, <2>5
<1>11. CASE Finish \/ UNCHANGED dumpVars
  <2>1. UNCHANGED <<last, part, sent, msgs, next, todo, first>> /\ (stage' = "dump") = (stage = "dump")
    BY <1>11 DEF Finish, Return, dumpVars, kernelVars
  <2>2. Merged' = Merged
    BY <2>1 DEF Merged, Merging
  <2> QED BY <1>5, <1>7, <2>1, <2>2 DEF CutsAre
<1> QED BY <1>6, <1>8, <1>9, <1>10, <1>11 DEF DumpNext, Sending, Changing
-----------------------------------------------------------------------------
(* The invariant.                                                          *)

Inv == DumpTypeOK /\ Phases /\ KeysOnce /\ Known /\ Remaining /\ Kept /\ DevOnce /\ InPieces

LEMMA InitInv == DumpInit => Inv
<1> SUFFICES ASSUME DumpInit PROVE Inv
  OBVIOUS
<1>1. peers \in Seq(Peer) /\ Distinct(peers)
  BY StartsAssumption DEF DumpInit
<1>2. Len(msgs) = 0 /\ DOMAIN first.peers = {} /\ Len(first.peers) = 0
  BY EmptySeq DEF DumpInit
<1>3. DumpTypeOK
  <2>1. knownPeers \in [{} -> DOMAIN first.peers] /\ {} \in SUBSET Keys
    BY DEF DumpInit
  <2>2. msgs \in Seq(Message) /\ todo \in Seq(Fragment) /\ first \in Message
    BY EmptySeq DEF DumpInit, Message
  <2>3. \E K \in SUBSET Keys : knownPeers \in [K -> DOMAIN first.peers]
    BY <2>1
  <2>4. /\ dev \in Values /\ last = Nil /\ part = Nil /\ coherent = TRUE
        /\ stage = "dump" /\ outcome = "none"
    BY DEF DumpInit
  <2>5. sent = 0 /\ changes = 0 /\ next = 1
    BY DEF DumpInit
  <2>6. sent \in Nat /\ changes \in Nat /\ next \in Nat \ {0}
    BY <2>5
  <2> QED BY <1>1, <2>2, <2>3, <2>4, <2>6, Zenon DEF DumpTypeOK
<1>4. Phases /\ KeysOnce /\ DevOnce
  BY <1>1, <1>2 DEF DumpInit, Phases, KeysOnce, DevOnce
<1>5. Known /\ Remaining /\ Kept
  BY <1>2 DEF DumpInit, Known, Remaining, Kept
<1>6. InPieces
  <2> DEFINE c == [i \in 0 .. 0 |-> Start]
  <2>1. c \in [0 .. Len(msgs) -> Cut(peers)] /\ c[0] = Start
    BY <1>1, <1>2, EndIs
  <2> HIDE DEF c
  <2>2. CursorAt(Start)
    BY DEF DumpInit, CursorAt, Start
  <2>3. CutsAre(c)
    BY <1>2, <2>1, <2>2 DEF CutsAre, DumpInit
  <2> QED BY <2>1, <2>3 DEF InPieces
<1> QED BY <1>3, <1>4, <1>5, <1>6 DEF Inv

LEMMA DumpInvStep == Inv /\ [DumpNext]_dumpVars => Inv'
  BY TypesStep, PhasesStep, KeysOnceStep, KnownStep, RemainingStep, KeptStep, DevOnceStep,
     InPiecesStep DEF Inv

LEMMA Invariant == DumpSpec => []Inv
  BY InitInv, DumpInvStep, PTL DEF DumpSpec

\* When the device is returned, all messages have been merged.
LEMMA AtTheEnd ==
  ASSUME Inv, outcome = "ok"
  PROVE  /\ stage = "done" /\ next > 1 /\ next \in Nat /\ Len(msgs) \in Nat
         /\ next - 1 = Len(msgs) /\ Merged = Len(Merging) /\ Len(Merging) \in Nat
<1>1. stage = "done" /\ todo = <<>> /\ next > 1 /\ next = Len(msgs) + 1
  BY DEF Inv, Phases
<1>2. next \in Nat /\ Len(msgs) \in Nat
  BY LenProperties DEF Inv, DumpTypeOK
<1>3. Len(Merging) \in Nat
  BY <1>1, RemainingStep DEF Inv
<1>4. Merged = Len(Merging)
  BY <1>1, <1>3, EmptySeq DEF Merged
<1> QED BY <1>1, <1>2, <1>3, <1>4

-----------------------------------------------------------------------------
(* Theorems.                                                               *)

\* Type correctness: in particular knownPeers points into the list that
\* parseDevice builds, so that the index mergeDevices takes from it is never
\* out of range.
THEOREM DumpTypeCorrect == DumpSpec => []DumpTypeOK
<1>1. Inv => DumpTypeOK
  BY DEF Inv
<1> QED BY <1>1, Invariant, PTL

\* mergeDevices puts no peer into the device twice, whatever other programs do
\* to the device while the dump is under way.
THEOREM NoneTwice == DumpSpec => []NoPeerTwice
<1>1. ASSUME Inv PROVE NoPeerTwice
  BY <1>1 DEF Inv, Known, NoPeerTwice, Distinct
<1>2. Inv => NoPeerTwice
  BY <1>1
<1> QED BY <1>2, Invariant, PTL

\* Every allowed IP of every message is in the device that getDeviceInternal
\* returns, with the peer that it was sent for.
THEOREM NoneLost == DumpSpec => []NothingLost
<1>1. ASSUME Inv, outcome = "ok", NEW m \in DOMAIN msgs, NEW i \in DOMAIN msgs[m].peers
      PROVE  Holds(first, msgs[m].peers[i])
  <2>1. /\ next - 1 = Len(msgs) /\ next \in Nat /\ Len(msgs) \in Nat /\ next > 1
        /\ Merged = Len(Merging) /\ Len(Merging) \in Nat
    BY <1>1, AtTheEnd
  <2>2. msgs \in Seq(Message) /\ m \in 1 .. Len(msgs)
    BY <1>1 DEF Inv, DumpTypeOK
  <2>3. CASE m = Len(msgs)
    <3>1. msgs[m] \in Message
      BY <2>2, ElementOfSeq
    <3>2. Merging = msgs[m].peers
      BY <2>1, <2>3 DEF Merging
    <3>3. msgs[m].peers \in Seq(Fragment)
      BY <3>1 DEF Message
    <3>4. i \in 1 .. Merged
      BY <1>1, <2>1, <3>2, <3>3
    <3> QED BY <1>1, <2>1, <3>2, <3>4 DEF Inv, Kept
  <2>4. CASE m # Len(msgs)
    <3>1. m \in 1 .. next - 2
      BY <2>1, <2>2, <2>4
    <3> QED BY <1>1, <3>1 DEF Inv, Kept
  <2> QED BY <2>3, <2>4
<1>2. ASSUME Inv PROVE NothingLost
  BY <1>1, <1>2 DEF NothingLost, Holds
<1>3. Inv => NothingLost
  BY <1>2
<1> QED BY <1>3, Invariant, PTL

\* However the kernel cuts its dump into messages, and although a peer that is
\* continued comes without its attributes, getDeviceInternal returns the
\* kernel's device, unless another program changed it in between.
THEOREM DumpExact == DumpSpec => []DumpIsDevice
<1>1. ASSUME Inv, outcome = "ok", coherent PROVE first = [dev |-> dev, peers |-> peers]
  <2>1. /\ stage = "done" /\ next - 1 = Len(msgs) /\ next \in Nat /\ Len(msgs) \in Nat /\ next > 1
        /\ Merged = Len(Merging) /\ Len(Merging) \in Nat
    BY <1>1, AtTheEnd
  <2>2. PICK c \in [0 .. Len(msgs) -> Cut(peers)] : CutsAre(c)
    BY <1>1 DEF Inv, InPieces
  <2> DEFINE u == c[next - 2]
             v == c[next - 1]
  <2>3. u \in Cut(peers) /\ v \in Cut(peers)
    BY <2>1, <2>2
  <2>4. Between(peers, u, v, Merging) /\ v = End(peers)
    <3>1. next - 1 \in 1 .. Len(msgs) /\ (next - 1) - 1 = next - 2
      BY <2>1
    <3> QED BY <2>1, <2>2, <3>1 DEF CutsAre, Merging
  <2>5. Assembled(peers, u, v, Len(Merging), first.peers)
    BY <2>1, <2>2 DEF CutsAre
  <2> HIDE DEF u, v
  <2>6. Built(peers, v, Upto(v), first.peers)
    BY <2>1, <2>3, <2>4, <2>5, AllMerged
  <2>7. peers \in Seq(Peer) /\ Len(peers) \in Nat
    BY <1>1, LenProperties DEF Inv, DumpTypeOK
  <2>8. Built(peers, End(peers), Len(peers), first.peers)
    BY <2>4, <2>6, <2>7, EndIs
  <2>9. ASSUME NEW x \in 1 .. Len(peers) PROVE first.peers[x] = peers[x]
    <3>1. first.peers[x] = Have(peers, End(peers), x)
      BY <2>8 DEF Built
    <3>2. To(peers, End(peers), x) = Len(peers[x].ips)
      BY DEF To, End
    <3> QED BY <2>7, <3>1, <3>2, PeerIs DEF Have
  <2>10. first.peers = peers
    <3>1. Len(first.peers) = Len(peers)
      BY <2>8 DEF Built
    <3>2. first.peers \in Seq(Fragment)
      BY <1>1, FirstIs DEF Inv
    <3>3. first.peers = [i \in 1 .. Len(peers) |-> first.peers[i]]
      BY <3>1, <3>2
    <3>4. peers = [i \in 1 .. Len(peers) |-> peers[i]]
      BY <2>7
    <3> QED BY <2>9, <3>3, <3>4, Zenon
  <2>11. first.dev = dev
    BY <1>1, <2>1 DEF Inv, DevOnce
  <2>12. first = [dev |-> first.dev, peers |-> first.peers]
    BY <1>1, FirstIs DEF Inv
  <2> QED BY <2>10, <2>11, <2>12
<1>2. Inv => DumpIsDevice
  BY <1>1 DEF DumpIsDevice
<1> QED BY <1>2, Invariant, PTL
===============================================================================
