---------------------------- MODULE NetlinkContext ----------------------------
(***************************************************************************)
(* Client.withContext of internal/wglinux/client_linux.go: how one netlink *)
(* request is bounded by a context.Context.  All calls on one Client share *)
(* one generic netlink socket, hence one I/O deadline and one stream of    *)
(* replies.  A context that ends starts a goroutine (context.AfterFunc)    *)
(* that moves the deadline into the past; the call that armed it stops or  *)
(* awaits that goroutine and clears the deadline on its way out.           *)
(*                                                                         *)
(* A member of Calls is one call of withContext, made at most once.        *)
(***************************************************************************)
EXTENDS Naturals, Sequences, FiniteSets

CONSTANTS Calls,        \* the calls made on one Client
          Goroutines,   \* bound: how many calls are under way at once
          Unset, Past,  \* a cleared socket deadline, and time.Unix(1, 0)
          Nobody        \* the connection's lock is free

ASSUME NamesAssumption ==
  /\ Unset \notin Calls /\ Past \notin Calls /\ Unset # Past
  /\ Nobody \notin Calls

ASSUME GoroutinesAssumption == Goroutines \in Nat

VARIABLES
  kind,         \* the context of each call: what ctx.Done and ctx.Deadline say
  timeUp,       \* the instant of the context's deadline has passed
  ctxDone,      \* ctx.Err() # nil
  pc,           \* where each call is
  after,        \* the call's AfterFunc goroutine
  err,          \* what fn (the netlink request) returned
  result,       \* what withContext returned
  hasDeadlines, \* the socket supports SetDeadline
  deadline,     \* the socket's deadline: Unset, Past or the call whose context set it
  lock,         \* the call that holds the connection's lock
  asked,        \* requests the kernel has and has not answered
  replies       \* answers in the socket's receive queue

ctxVars  == <<kind, timeUp, ctxDone>>
sockVars == <<hasDeadlines, deadline, lock, asked, replies>>
vars == <<ctxVars, pc, after, err, result, sockVars>>

Kinds   == {"background", "cancel", "deadline"}
PCs     == {"new", "set", "arm", "lock", "send", "receive", "check",
            "stop", "join", "clear", "done"}
Afters  == {"none", "armed", "stopped", "started", "moved", "fired"}
FnErrs  == {"none", "ok", "errno", "timeout", "mismatch"}
Results == FnErrs \union {"ctx"}
Reply   == [to : Calls, errno : BOOLEAN]

\* The types, and whose turn it is: a call uses the socket under its lock.
TypeOK ==
  /\ kind \in [Calls -> Kinds]
  /\ timeUp \in [Calls -> BOOLEAN]
  /\ ctxDone \in [Calls -> BOOLEAN]
  /\ pc \in [Calls -> PCs]
  /\ after \in [Calls -> Afters]
  /\ err \in [Calls -> FnErrs]
  /\ result \in [Calls -> Results]
  /\ hasDeadlines \in BOOLEAN
  /\ deadline \in Calls \union {Unset, Past}
  /\ lock \in Calls \union {Nobody}
  /\ asked \in SUBSET Calls
  /\ replies \in Seq(Reply)
  /\ \A c \in Calls : pc[c] \in {"send", "receive"} => lock = c

Init ==
  /\ kind \in [Calls -> Kinds]
  /\ timeUp = [c \in Calls |-> FALSE]
  /\ ctxDone = [c \in Calls |-> FALSE]
  /\ pc = [c \in Calls |-> "new"]
  /\ after = [c \in Calls |-> "none"]
  /\ err = [c \in Calls |-> "none"]
  /\ result = [c \in Calls |-> "none"]
  /\ hasDeadlines \in BOOLEAN
  /\ deadline = Unset
  /\ lock = Nobody
  /\ asked = {}
  /\ replies = <<>>

InFlight(c) == pc[c] \notin {"new", "done"}

\* I/O on the socket fails at once: its deadline is over.
Expired ==
  \/ deadline = Past
  \/ deadline \in Calls /\ timeUp[deadline]

\* The effect of SetDeadline: none on a socket without deadlines.
SetDeadline(d) == deadline' = IF hasDeadlines THEN d ELSE deadline

Goto(c, label) == pc' = [pc EXCEPT ![c] = label]

-----------------------------------------------------------------------------
(* The caller: the ctx.Err() check of Device and ConfigureDevice, then     *)
(* withContext.                                                            *)

BeginCancelled(c) ==
  /\ pc[c] = "new"
  /\ ctxDone[c]
  /\ result' = [result EXCEPT ![c] = "ctx"]
  /\ Goto(c, "done")
  /\ UNCHANGED <<ctxVars, after, err, sockVars>>

\* Mutant: the context is only checked before the call.
FirstStepUnbounded(c) == "lock"

\* ctx.Done() = nil: fn runs unbounded.  ctx.Deadline() is set first.
FirstStep(c) ==
  CASE kind[c] = "background" -> "lock"
    [] kind[c] = "deadline"   -> "set"
    [] kind[c] = "cancel"     -> "arm"

Begin(c) ==
  /\ pc[c] = "new"
  /\ ~ ctxDone[c]
  /\ Cardinality({d \in Calls : InFlight(d)}) < Goroutines
  /\ Goto(c, FirstStep(c))
  /\ UNCHANGED <<ctxVars, after, err, result, sockVars>>

\* SetDeadline(dl); if it fails, fn runs unbounded.
SetCtxDeadline(c) ==
  /\ pc[c] = "set"
  /\ SetDeadline(c)
  /\ Goto(c, IF hasDeadlines THEN "arm" ELSE "lock")
  /\ UNCHANGED <<ctxVars, after, err, result, hasDeadlines, lock, asked, replies>>

\* context.AfterFunc: on a context that has ended already, fn is started now.
Arm(c) ==
  /\ pc[c] = "arm"
  /\ after' = [after EXCEPT ![c] = IF ctxDone[c] THEN "started" ELSE "armed"]
  /\ Goto(c, "lock")
  /\ UNCHANGED <<ctxVars, err, result, sockVars>>

\* err := fn() returned: "return fn()" ends the call where nothing was armed.
FnReturns(c, e) ==
  /\ err' = [err EXCEPT ![c] = e]
  /\ result' = IF after[c] = "none" THEN [result EXCEPT ![c] = e] ELSE result
  /\ Goto(c, IF after[c] = "none" THEN "done" ELSE "check")

\* if err != nil && ctx.Err() != nil
Check(c) ==
  /\ pc[c] = "check"
  /\ result' = [result EXCEPT ![c] =
                  IF err[c] # "ok" /\ ctxDone[c] THEN "ctx" ELSE err[c]]
  /\ Goto(c, "stop")
  /\ UNCHANGED <<ctxVars, after, err, sockVars>>

\* Mutants: the clean-up never awaits the goroutine, or always.
AwaitsFiredNever(c) == FALSE
AwaitsFiredAlways(c) == TRUE

\* stop() is false: the goroutine was started.
AwaitsFired(c) == after[c] # "armed"

Stop(c) ==
  /\ pc[c] = "stop"
  /\ after' = [after EXCEPT ![c] = IF @ = "armed" THEN "stopped" ELSE @]
  /\ Goto(c, IF AwaitsFired(c) THEN "join" ELSE "clear")
  /\ UNCHANGED <<ctxVars, err, result, sockVars>>

\* <-fired
Join(c) ==
  /\ pc[c] = "join"
  /\ after[c] = "fired"
  /\ Goto(c, "clear")
  /\ UNCHANGED <<ctxVars, after, err, result, sockVars>>

\* SetDeadline(time.Time{})
Clear(c) ==
  /\ pc[c] = "clear"
  /\ SetDeadline(Unset)
  /\ Goto(c, "done")
  /\ UNCHANGED <<ctxVars, after, err, result, hasDeadlines, lock, asked, replies>>

-----------------------------------------------------------------------------
(* The AfterFunc goroutine.                                                *)

MoveDeadline(c) ==
  /\ after[c] = "started"
  /\ SetDeadline(Past)
  /\ after' = [after EXCEPT ![c] = "moved"]
  /\ UNCHANGED <<ctxVars, pc, err, result, hasDeadlines, lock, asked, replies>>

CloseFired(c) ==
  /\ after[c] = "moved"
  /\ after' = [after EXCEPT ![c] = "fired"]
  /\ UNCHANGED <<ctxVars, pc, err, result, sockVars>>

-----------------------------------------------------------------------------
(* genetlink.Conn.Execute, external: one request and its reply under the   *)
(* connection's lock.  Send and Receive fail once the deadline is over; a  *)
(* blocked Receive whose deadline is moved back in time before it runs     *)
(* again goes on waiting.  A reply to another request is an error.         *)

\* Mutant: Send and Receive instead of Execute.
MayUseSocketAnytime(c) == TRUE

\* Execute holds the connection's lock from the request to its reply.
MayUseSocket(c) == lock = Nobody

Lock(c) ==
  /\ pc[c] = "lock"
  /\ MayUseSocket(c)
  /\ lock' = c
  /\ Goto(c, "send")
  /\ UNCHANGED <<ctxVars, after, err, result, hasDeadlines, deadline, asked, replies>>

Send(c) ==
  /\ pc[c] = "send"
  /\ ~ Expired
  /\ asked' = asked \union {c}
  /\ Goto(c, "receive")
  /\ UNCHANGED <<ctxVars, after, err, result, hasDeadlines, deadline, lock, replies>>

Receive(c) ==
  /\ pc[c] = "receive"
  /\ ~ Expired
  /\ replies # <<>>
  /\ FnReturns(c, CASE Head(replies).to # c -> "mismatch"
                    [] Head(replies).to = c /\ Head(replies).errno -> "errno"
                    [] OTHER -> "ok")
  /\ replies' = Tail(replies)
  /\ lock' = Nobody
  /\ UNCHANGED <<ctxVars, after, hasDeadlines, deadline, asked>>

Timeout(c) ==
  /\ pc[c] \in {"send", "receive"}
  /\ Expired
  /\ FnReturns(c, "timeout")
  /\ lock' = Nobody
  /\ UNCHANGED <<ctxVars, after, hasDeadlines, deadline, asked, replies>>

KernelAnswers(c) ==
  /\ c \in asked
  /\ asked' = asked \ {c}
  /\ \E errno \in BOOLEAN :
       replies' = Append(replies, [to |-> c, errno |-> errno])
  /\ UNCHANGED <<ctxVars, pc, after, err, result, hasDeadlines, deadline, lock>>

-----------------------------------------------------------------------------
(* The contexts, external: a deadline passes, and some time later the      *)
(* timer cancels the context; or its owner cancels it.                     *)

TimePasses(c) ==
  /\ kind[c] = "deadline"
  /\ ~ timeUp[c]
  /\ timeUp' = [timeUp EXCEPT ![c] = TRUE]
  /\ UNCHANGED <<kind, ctxDone, pc, after, err, result, sockVars>>

CtxEnds(c) ==
  /\ kind[c] # "background"
  /\ ~ ctxDone[c]
  /\ ctxDone' = [ctxDone EXCEPT ![c] = TRUE]
  /\ after' = [after EXCEPT ![c] = IF @ = "armed" THEN "started" ELSE @]
  /\ UNCHANGED <<kind, timeUp, pc, err, result, sockVars>>

\* Every call has returned: the program may stop.
AllDone == (\A c \in Calls : pc[c] = "done") /\ UNCHANGED vars

-----------------------------------------------------------------------------
Caller(c) ==
  \/ BeginCancelled(c) \/ Begin(c) \/ SetCtxDeadline(c) \/ Arm(c)
  \/ Lock(c) \/ Send(c) \/ Receive(c) \/ Timeout(c)
  \/ Check(c) \/ Stop(c) \/ Join(c) \/ Clear(c)

AfterFunc(c) == MoveDeadline(c) \/ CloseFired(c)

Next ==
  \/ \E c \in Calls : \/ Caller(c) \/ AfterFunc(c) \/ KernelAnswers(c)
                      \/ TimePasses(c) \/ CtxEnds(c)
  \/ AllDone

Spec == Init /\ [][Next]_vars

\* The Go scheduler runs every goroutine that can run, and a free lock is
\* handed to a waiter (sync.Mutex does not starve); time passes.  Nothing is
\* assumed of the kernel, which may leave a request unanswered, nor of the
\* owner of a context.
GoFairness ==
  \A c \in Calls : /\ WF_vars(Caller(c))
                   /\ SF_vars(Lock(c))
                   /\ WF_vars(AfterFunc(c))
                   /\ WF_vars(TimePasses(c))

FairSpec == Spec /\ GoFairness

-----------------------------------------------------------------------------
(* Properties.                                                             *)

\* The part of withContext in which a call may have moved the deadline and
\* has not cleared it yet.
MayHoldDeadline(c) ==
  \/ pc[c] = "arm"
  \/ after[c] # "none" /\ pc[c] \notin {"new", "done"}

\* "The deadline does not stay on the connection" (testContext in
\* client_integration_test.go): the socket has one only while a call that
\* set it is still under way, so a later call never inherits it.
NoStaleDeadline ==
  deadline # Unset => \E c \in Calls : MayHoldDeadline(c)

\* I/O is cut short only on behalf of a call that is under way and whose own
\* context or deadline is over: no interruption outlives its cause.
ExpiredForACause ==
  Expired => \E c \in Calls : MayHoldDeadline(c) /\ (ctxDone[c] \/ timeUp[c])

\* Once withContext has returned, its AfterFunc goroutine has either been
\* stopped or has finished: it cannot touch the socket of a later call.
NoLateAfterFunc ==
  \A c \in Calls :
    pc[c] = "done" => after[c] \in {"none", "stopped", "fired"}

\* With one goroutine, only a call's own context makes it time out.
TimeoutIsOwn ==
  \A c \in Calls : err[c] = "timeout" => ctxDone[c] \/ timeUp[c]

\* Replies get out of step only after some call gave up on its own: a call
\* reads another call's answer only if that call had been interrupted.
MismatchOnlyAfterTimeout ==
  \A c \in Calls :
    err[c] = "mismatch" => \E d \in Calls \ {c} : err[d] = "timeout"

\* "Cancelling it interrupts a call that is waiting for the kernel": a call
\* whose context ends returns, even if the kernel never answers.
CancelledReturns ==
  \A c \in Calls :
    (InFlight(c) /\ hasDeadlines /\ ctxDone[c]) ~> (pc[c] = "done")

\* The same where it does hold, and for a context's deadline: as long as
\* goroutines do not overlap on the Client, a call whose context ends or whose
\* deadline passes returns, whatever the calls before it left behind.
AloneReturns ==
  [](Cardinality({c \in Calls : InFlight(c)}) <= 1)
  => \A c \in Calls :
       (InFlight(c) /\ hasDeadlines /\ (ctxDone[c] \/ timeUp[c])) ~> (pc[c] = "done")

\* If the kernel answers every request in the end, every call returns: waiting
\* for the lock or for the AfterFunc goroutine never blocks for good.
EveryCallReturns ==
  (\A c \in Calls : []<>(c \notin asked))
  => \A c \in Calls : InFlight(c) ~> (pc[c] = "done")
=============================================================================
