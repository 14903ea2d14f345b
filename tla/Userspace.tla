------------------------------- MODULE Userspace -------------------------------
(***************************************************************************)
(* Client of internal/wguser: Devices, Device and ConfigureDevice look for *)
(* socket files in two directories, in order, and talk to the daemons that *)
(* listen on them (UAPI is what they say to each other).  Daemons start,   *)
(* exit and leave socket files behind at any time.  On Windows the sockets *)
(* are named pipes, which have one directory and end with their daemon.    *)
(*                                                                         *)
(* The Client keeps no state, so one call is the whole story.  A socket is *)
(* <<d, n>>: the device n in the d-th directory.                           *)
(***************************************************************************)
EXTENDS Naturals, Sequences, SequencesExt, FiniteSets

CONSTANTS Platforms,  \* of {"unix", "windows"}
          Names,      \* names of devices
          Ops,        \* of {"devices", "device", "configure"}
          Contexts,   \* of {"background", "cancel", "deadline"}
          MaxChanges  \* bound: socket files that change during the call

ASSUME PlatformsAssumption == Platforms \subseteq {"unix", "windows"}
ASSUME NamesAssumption == IsFiniteSet(Names)
ASSUME OpsAssumption == Ops \subseteq {"devices", "device", "configure"}
ASSUME ContextsAssumption == Contexts \subseteq {"background", "cancel", "deadline"}
ASSUME MaxChangesAssumption == MaxChanges \in Nat

Directories == <<"wireguard", "amneziawg">>
Sockets == (DOMAIN Directories) \X Names

VARIABLES
  platform, op, name, ctx,
  ctxDone,   \* ctx.Err() # nil
  timeUp,    \* the context's deadline has passed
  pc,        \* "start", "find", "next", "wait" (for the daemon), "done"
  dir,       \* the directory that is read next
  todo,      \* the sockets that are left to be asked
  found,     \* the sockets whose devices are to be returned
  result,
  sock,      \* "none", "live", or "stale": a file nobody listens on
  hungUp,    \* the daemon at the other end has exited
  changes,
  stayed,    \* history: live ever since the call began
  seen,      \* history: live at some time since
  file,      \* history: there was a file at some time since
  cause      \* history: why it may fail: "unreadable", "dial", "died", "errno", "ctx"

callVars == <<platform, op, name, ctx, pc, dir, todo, found, result, cause>>
sockVars == <<sock, hungUp, changes, stayed, seen, file>>
vars == <<callVars, ctxDone, timeUp, sockVars>>

TypeOK ==
  /\ platform \in Platforms /\ op \in Ops /\ name \in Names /\ ctx \in Contexts
  /\ ctxDone \in BOOLEAN /\ timeUp \in BOOLEAN
  /\ pc \in {"start", "find", "next", "wait", "done"}
  /\ dir \in 1 .. Len(Directories) + 1
  /\ todo \in Seq(Sockets) /\ found \in Seq(Sockets)
  /\ result \in {"none", "ok", "notexist", "refused", "timeout", "ctx", "error", "panic"}
  /\ (result = "none") = (pc # "done")
  /\ sock \in [Sockets -> {"none", "stale", "live"}]
  /\ hungUp \in BOOLEAN
  /\ pc = "wait" => todo # <<>>
  /\ cause \subseteq {"unreadable", "dial", "died", "errno", "ctx"}

\* What may be at the place of a socket: a pipe is never stale.
Kinds(s) == IF platform = "unix" THEN {"none", "live", "stale"}
            ELSE IF s[1] = 1 THEN {"none", "live"} ELSE {"none"}

Init ==
  /\ platform \in Platforms /\ op \in Ops /\ name \in Names /\ ctx \in Contexts
  /\ op = "devices" => name = CHOOSE n \in Names : TRUE   \* not looked at
  /\ ctxDone = FALSE /\ timeUp = FALSE
  /\ pc = "start" /\ dir = 1
  /\ todo = <<>> /\ found = <<>>
  /\ result = "none"
  /\ sock \in {f \in [Sockets -> {"none", "stale", "live"}] :
                \A s \in Sockets : f[s] \in Kinds(s)}
  /\ hungUp = FALSE
  /\ changes = 0
  /\ stayed = {s \in Sockets : sock[s] = "live"}
  /\ seen = stayed
  /\ file = {s \in Sockets : sock[s] # "none"}
  /\ cause = {}

Return(res) == pc' = "done" /\ result' = res

\* The error path of an operation, for the reason why.
Error(res, why) == Return(res) /\ cause' = cause \union {why}

-----------------------------------------------------------------------------
(* The three operations.                                                   *)

\* ctx.Err()
Start ==
  /\ pc = "start"
  /\ IF ctxDone THEN Error("ctx", "ctx") ELSE pc' = "find" /\ UNCHANGED <<result, cause>>
  /\ UNCHANGED <<platform, op, name, ctx, dir, todo, found, ctxDone, timeUp, sockVars>>

\* Mutant: the first socket, whatever its name.
AskedAny(s) == TRUE

\* Device and ConfigureDevice pass over the other names.
Asked(s) == op = "devices" \/ s[2] = name

\* Mutant: the second directory is not read.
FindSocketsFirst ==
  /\ pc = "find" /\ dir <= Len(Directories)
  /\ dir' = dir + 1
  /\ todo' = todo \o SetToSeq({s \in Sockets : s[1] = dir /\ sock[s] # "none" /\ Asked(s)})
  /\ pc' = "next"
  /\ UNCHANGED <<platform, op, name, ctx, found, result, cause, ctxDone, timeUp, sockVars>>

\* findUNIXSockets: one directory after the other; findNamedPipes: the pipes of
\* one prefix, which are the first directory here.
FindSockets ==
  /\ pc = "find" /\ dir <= Len(Directories)
  /\ dir' = dir + 1
  /\ todo' = todo \o SetToSeq({s \in Sockets : s[1] = dir /\ sock[s] # "none" /\ Asked(s)})
  /\ pc' = IF dir = Len(Directories) THEN "next" ELSE "find"
  /\ UNCHANGED <<platform, op, name, ctx, found, result, cause, ctxDone, timeUp, sockVars>>

FindFails ==
  /\ pc = "find"
  /\ Error("error", "unreadable")
  /\ UNCHANGED <<platform, op, name, ctx, dir, todo, found, ctxDone, timeUp, sockVars>>

Finish ==
  /\ pc = "next" /\ todo = <<>>
  /\ Return(IF op = "devices" THEN "ok" ELSE "notexist")
  /\ UNCHANGED <<platform, op, name, ctx, dir, todo, found, cause, ctxDone, timeUp, sockVars>>

\* Mutant: only a socket that was removed is passed over.
SkippedRemoved(res) == res = "notexist"

\* errors.Is(err, os.ErrNotExist) || isStaleSocket(err)
Skipped(res) == res \in {"notexist", "refused"}

\* DialContext gives up on a context that has ended or whose deadline has
\* passed, the dial of a pipe on the latter only.
GivesUp == timeUp \/ (platform = "unix" /\ ctxDone)

\* A pipe's dial returns ctx.Err() then, which is nil until the context's own
\* timer has fired: neither a connection nor an error.
NilConn == platform = "windows" /\ ~ ctxDone

\* Mutant: break instead of continue.
DialFailsBreak ==
  /\ pc = "next" /\ todo # <<>>
  /\ sock[Head(todo)] # "live" /\ ~ GivesUp
  /\ LET res == IF sock[Head(todo)] = "none" THEN "notexist" ELSE "refused"
     IN  IF op = "devices" /\ Skipped(res)
         THEN todo' = <<>> /\ UNCHANGED <<pc, result>>
         ELSE Return(res) /\ UNCHANGED todo
  /\ UNCHANGED <<platform, op, name, ctx, dir, found, cause, ctxDone, timeUp, sockVars>>

\* Nobody listens on the socket: Devices goes on, the others return the error.
DialFails ==
  /\ pc = "next" /\ todo # <<>>
  /\ sock[Head(todo)] # "live" /\ ~ GivesUp
  /\ LET res == IF sock[Head(todo)] = "none" THEN "notexist" ELSE "refused"
     IN  IF op = "devices" /\ Skipped(res)
         THEN todo' = Tail(todo) /\ UNCHANGED <<pc, result>>
         ELSE Return(res) /\ UNCHANGED todo
  /\ UNCHANGED <<platform, op, name, ctx, dir, found, cause, ctxDone, timeUp, sockVars>>

\* Any other error: no permission, a pipe of another owner or a busy one.
DialErrs ==
  /\ pc = "next" /\ todo # <<>>
  /\ sock[Head(todo)] = "live" /\ ~ GivesUp
  /\ Error("error", "dial")
  /\ UNCHANGED <<platform, op, name, ctx, dir, todo, found, ctxDone, timeUp, sockVars>>

DialCancelled ==
  /\ pc = "next" /\ todo # <<>>
  /\ GivesUp /\ ~ NilConn
  /\ Error("ctx", "ctx")
  /\ UNCHANGED <<platform, op, name, ctx, dir, todo, found, ctxDone, timeUp, sockVars>>

\* The caller uses the connection that it does not have.
DialNil ==
  /\ pc = "next" /\ todo # <<>>
  /\ GivesUp /\ NilConn
  /\ Return("panic")
  /\ UNCHANGED <<platform, op, name, ctx, dir, todo, found, cause, ctxDone, timeUp, sockVars>>

Dial ==
  /\ pc = "next" /\ todo # <<>>
  /\ sock[Head(todo)] = "live" /\ ~ GivesUp
  /\ pc' = "wait"
  /\ hungUp' = FALSE
  /\ UNCHANGED <<platform, op, name, ctx, dir, todo, found, result, cause, ctxDone, timeUp,
                 sock, changes, stayed, seen, file>>

-----------------------------------------------------------------------------
(* The exchange with the daemon.                                           *)

\* A get or set that succeeds.
Succeed ==
  IF op = "devices"
  THEN /\ pc' = "next"
       /\ found' = Append(found, Head(todo))
       /\ todo' = Tail(todo)
       /\ UNCHANGED result
  ELSE Return("ok") /\ found' = <<Head(todo)>> /\ UNCHANGED todo

Answers ==
  /\ pc = "wait" /\ ~ hungUp
  /\ Succeed
  /\ UNCHANGED <<platform, op, name, ctx, dir, cause, ctxDone, timeUp, sockVars>>

\* An errno, or an answer that cannot be parsed.
Refuses ==
  /\ pc = "wait" /\ ~ hungUp
  /\ Error("error", "errno")
  /\ UNCHANGED <<platform, op, name, ctx, dir, todo, found, ctxDone, timeUp, sockVars>>

\* Writing or reading fails (EPIPE, ECONNRESET); or the stream just ends,
\* which a get takes for the end of the answer.
HangUp ==
  /\ pc = "wait" /\ hungUp
  /\ \/ Error("error", "died") /\ UNCHANGED <<todo, found>>
     \/ op # "configure" /\ Succeed /\ UNCHANGED cause
  /\ UNCHANGED <<platform, op, name, ctx, dir, ctxDone, timeUp, sockVars>>

\* Mutant: no deadline is set on the connection.
DeadlineOnConnNever == FALSE

\* conn.SetDeadline with the context's deadline, if it has one.
DeadlineOnConn == ctx = "deadline"

Timeout ==
  /\ pc = "wait" /\ DeadlineOnConn /\ timeUp
  /\ Error("timeout", "ctx")
  /\ UNCHANGED <<platform, op, name, ctx, dir, todo, found, ctxDone, timeUp, sockVars>>

-----------------------------------------------------------------------------
(* The context and the daemons, external.                                  *)

CtxEnds ==
  /\ ~ ctxDone
  /\ \/ ctx = "cancel"
     \/ ctx = "deadline"   \* cancelled early, or the timer
  /\ ctxDone' = TRUE
  /\ UNCHANGED <<callVars, timeUp, sockVars>>

TimePasses ==
  /\ ctx = "deadline" /\ ~ timeUp
  /\ timeUp' = TRUE
  /\ UNCHANGED <<callVars, ctxDone, sockVars>>

\* A daemon starts (it replaces a stale file), exits and removes its file, or
\* exits and leaves it; a stale file is removed.
SocketChanges(s, to) ==
  /\ changes < MaxChanges /\ pc # "done"
  /\ sock[s] # to /\ to \in Kinds(s)
  /\ ~ (sock[s] = "none" /\ to = "stale")
  /\ sock' = [sock EXCEPT ![s] = to]
  /\ changes' = changes + 1
  /\ stayed' = IF to = "live" THEN stayed ELSE stayed \ {s}
  /\ seen' = IF to = "live" THEN seen \union {s} ELSE seen
  /\ file' = IF to = "none" THEN file ELSE file \union {s}
  /\ hungUp' = (hungUp \/ (pc = "wait" /\ s = Head(todo)))
  /\ UNCHANGED <<callVars, ctxDone, timeUp>>

Caller ==
  \/ Start \/ FindSockets \/ FindFails \/ Finish \/ DialFails \/ DialCancelled \/ DialNil
  \/ Dial \/ HangUp \/ Timeout

Next ==
  \/ Caller \/ DialErrs \/ Answers \/ Refuses \/ CtxEnds \/ TimePasses
  \/ \E s \in Sockets, to \in {"none", "stale", "live"} : SocketChanges(s, to)

Spec == Init /\ [][Next]_vars

\* The Go scheduler runs the caller while it can run, and time passes.  A
\* daemon need not answer, a context need not be cancelled.
FairSpec == Spec /\ WF_vars(Caller) /\ WF_vars(TimePasses)

-----------------------------------------------------------------------------
\* A device is its name and its directory.
Device(s) == <<s[2], s[1]>>

\* A name is missed if a file stood in a directory before that of its daemon.
Shadowed ==
  {n \in Names : \A d \in DOMAIN Directories :
     <<d, n>> \in stayed => \E e \in 1 .. d - 1 : <<e, n>> \in file}

B == INSTANCE Backend WITH
       there  <- {Device(s) : s \in {t \in Sockets : sock[t] = "live"}},
       begun  <- TRUE,
       stayed <- {Device(s) : s \in stayed},
       seen   <- {Device(s) : s \in seen},
       hidden <- Shadowed,
       unfit  <- {},
       result <- CASE result \in {"none", "ok", "notexist"} -> result
                   [] result = "panic" -> "none"   \* never answers
                   [] OTHER -> "error",
       found  <- IF result = "ok" THEN {Device(s) : s \in ToSet(found)} ELSE {}

-----------------------------------------------------------------------------
(* Properties.                                                             *)

\* The Client of wguser keeps the promises of a backend, whatever becomes of
\* the daemons and their files in the meantime: Devices shows every daemon
\* that was there all along and none that was not there at all, and Device
\* misses none but those behind another file of the name.
ImplementsBackend == B!Spec

\* "One dead socket must not hide the other devices": socket files nobody
\* listens on never make Devices fail; it fails because of the context, an
\* unreadable directory, or a daemon that was reached.
StaleHidesNothing ==
  (op = "devices" /\ result \notin {"none", "ok", "panic"}) => cause # {}

\* Device finds, and ConfigureDevice reaches, a daemon that is there all
\* along, unless a file of the same name stood in a directory before it.
FoundUnlessShadowed ==
  (op # "devices" /\ result \in {"notexist", "refused"})
  => \A d \in DOMAIN Directories :
       <<d, name>> \in stayed => \E e \in 1 .. d - 1 : <<e, name>> \in file

\* The device returned or configured is the first of its name: no earlier
\* directory had a live one all along.
FirstOfItsName ==
  (op # "devices" /\ result = "ok")
  => /\ found[1][2] = name
     /\ \A e \in 1 .. found[1][1] - 1 : <<e, name>> \notin stayed

\* A deadline bounds a call even if the daemon never answers; on Windows it may
\* end by the panic of DialNil.
DeadlineReturns == (pc # "done" /\ timeUp) ~> (pc = "done")
=============================================================================
