--------------------------------- MODULE Client ---------------------------------
(***************************************************************************)
(* The composite Client of client.go: it asks its backends (kernel,        *)
(* userspace) one after the other.  Devices come and go on the backends    *)
(* between two of its steps, and any backend may fail.                     *)
(*                                                                         *)
(* Of its backends it takes what Backend says: Devices lists what was      *)
(* there all the while and nothing that was not there at all; Device and   *)
(* ConfigureDevice report os.ErrNotExist for a name that is not there, the *)
(* latter even if it was there when a part of the configuration was        *)
(* applied; and a backend may say it of a name that it hides.  The client  *)
(* is such a Backend itself.  The list of backends never changes, so one   *)
(* call is the whole story.                                                *)
(***************************************************************************)
EXTENDS Naturals, Sequences, FiniteSets

CONSTANTS N,          \* number of backends
          Names,      \* names of devices
          Ops,        \* of {"devices", "device", "configure", "close"}
          MaxListed,  \* bound: devices in one backend's list
          MaxChanges  \* bound: devices that come or go during the call

ASSUME NAssumption == N \in Nat
ASSUME OpsAssumption == Ops \subseteq {"devices", "device", "configure", "close"}
ASSUME BoundsAssumption == MaxListed \in Nat /\ MaxChanges \in Nat

Backends == 1 .. N

VARIABLES
  op, name,
  ctxDone,   \* ctx.Err() # nil
  pc,        \* "read" (Device, if partialAWG(cfg)), "ask", "asking", "list", "done"
  at,        \* the backend whose turn it is
  list,      \* what it has listed and is not looked at yet
  seen, out, \* names listed; entries <<backend, name>> to be returned
  errs,      \* backends whose errors are to be joined
  result,
  readFrom,  \* the backend that ConfigureDevice read the device from, or 0
  from,      \* the backend that Device or ConfigureDevice ended at, or 0
  touched,   \* backends on which a device was configured, perhaps in part
  denied,    \* history: backends that said not exist of a device they have
  closed,    \* backends that are closed
  has,       \* the devices each backend serves
  low, high, \* those there all the while, or at some time, while at lists them
  changes,
  stayed,    \* history: devices there since the call began
  ever,      \* history: devices there at some time since
  failed     \* history: backends that returned an error other than not exist

callVars == <<op, name, ctxDone, pc, at, list, seen, out, errs, result,
              readFrom, from, touched, denied, closed, failed>>
envVars  == <<has, low, high, changes, stayed, ever>>
vars == <<callVars, envVars>>

TypeOK ==
  /\ op \in Ops /\ name \in Names
  /\ ctxDone \in BOOLEAN
  /\ pc \in {"read", "ask", "asking", "list", "done"}
  /\ at \in 1 .. N + 1
  /\ list \in Seq(Names)
  /\ seen \subseteq Names
  /\ out \in Seq(Backends \X Names)
  /\ errs \subseteq Backends
  /\ result \in {"none", "ok", "notexist", "ctx", "invalid", "error"}
  /\ readFrom \in 0 .. N /\ from \in 0 .. N
  /\ touched \subseteq Backends /\ denied \subseteq Backends
  /\ closed \subseteq Backends /\ failed \subseteq Backends
  /\ has \in [Backends -> SUBSET Names]
  /\ stayed \in [Backends -> SUBSET Names]
  /\ ever \in [Backends -> SUBSET Names]
  /\ low \subseteq Names /\ high \subseteq Names
  /\ changes \in Nat

Init ==
  /\ op \in Ops /\ name \in Names
  /\ ctxDone = FALSE
  /\ pc \in {"read", "ask"} /\ (pc = "read" => op = "configure")
  /\ at = 1
  /\ list = <<>> /\ seen = {} /\ out = <<>>
  /\ errs = {}
  /\ result = "none"
  /\ readFrom = 0 /\ from = 0
  /\ touched = {} /\ denied = {} /\ closed = {}
  /\ has \in [Backends -> SUBSET Names]
  /\ low = {} /\ high = {}
  /\ changes = 0
  /\ stayed = has /\ ever = has
  /\ failed = {}

Return(res) == pc' = "done" /\ result' = res

-----------------------------------------------------------------------------
(* Devices.                                                                *)

AskForList ==
  /\ pc = "ask" /\ op = "devices" /\ at <= N
  /\ pc' = "asking"
  /\ low' = has[at] /\ high' = has[at]
  /\ UNCHANGED <<op, name, ctxDone, at, list, seen, out, errs, result, readFrom,
                 from, touched, denied, closed, failed, has, changes, stayed, ever>>

Listings(lo, hi) ==
  {l \in UNION {[1 .. k -> Names] : k \in 0 .. MaxListed} :
     /\ lo \subseteq {l[i] : i \in DOMAIN l}
     /\ {l[i] : i \in DOMAIN l} \subseteq hi}

\* A name may be listed twice by one backend: wguser has two directories.
Lists ==
  /\ pc = "asking"
  /\ list' \in Listings(low, high)
  /\ pc' = "list"
  /\ UNCHANGED <<op, name, ctxDone, at, seen, out, errs, result, readFrom, from,
                 touched, denied, closed, failed, envVars>>

\* Mutants: the first failure ends the loop; the error is forgotten.
ListFailsReturns ==
  /\ pc = "asking"
  /\ failed' = failed \union {at}
  /\ errs' = errs \union {at}
  /\ Return("error") /\ UNCHANGED at
  /\ UNCHANGED <<op, name, ctxDone, list, seen, out, readFrom, from, touched, denied,
                 closed, envVars>>
ListFailsSilently ==
  /\ pc = "asking"
  /\ failed' = failed \union {at}
  /\ at' = at + 1 /\ pc' = "ask"
  /\ UNCHANGED <<op, name, ctxDone, list, seen, out, errs, result, readFrom,
                 from, touched, denied, closed, envVars>>

\* An error ends the loop only if the context has ended.
ListFails ==
  /\ pc = "asking"
  /\ failed' = failed \union {at}
  /\ IF ctxDone
     THEN Return("ctx") /\ UNCHANGED <<at, errs>>
     ELSE errs' = errs \union {at} /\ at' = at + 1 /\ pc' = "ask" /\ UNCHANGED result
  /\ UNCHANGED <<op, name, ctxDone, list, seen, out, readFrom, from, touched, denied,
                 closed, envVars>>

\* Mutant: the last one of a name is kept.
KeepLast ==
  /\ pc = "list" /\ list # <<>>
  /\ list' = Tail(list)
  /\ seen' = seen \union {Head(list)}
  /\ out' = IF Head(list) \in seen
            THEN [i \in DOMAIN out |->
                    IF out[i][2] = Head(list) THEN <<at, Head(list)>> ELSE out[i]]
            ELSE Append(out, <<at, Head(list)>>)
  /\ UNCHANGED <<op, name, ctxDone, pc, at, errs, result, readFrom, from,
                 touched, denied, closed, failed, envVars>>

\* if _, ok := seen[d.Name]; ok { continue }
Keep ==
  /\ pc = "list" /\ list # <<>>
  /\ list' = Tail(list)
  /\ seen' = seen \union {Head(list)}
  /\ out' = IF Head(list) \in seen THEN out ELSE Append(out, <<at, Head(list)>>)
  /\ UNCHANGED <<op, name, ctxDone, pc, at, errs, result, readFrom, from,
                 touched, denied, closed, failed, envVars>>

NextBackend ==
  /\ pc = "list" /\ list = <<>>
  /\ pc' = "ask" /\ at' = at + 1
  /\ UNCHANGED <<op, name, ctxDone, list, seen, out, errs, result, readFrom,
                 from, touched, denied, closed, failed, envVars>>

\* out with errors.Join(errs...), which is nil if there are none.
ListDone ==
  /\ pc = "ask" /\ op = "devices" /\ at = N + 1
  /\ Return(IF errs = {} THEN "ok" ELSE "error")
  /\ UNCHANGED <<op, name, ctxDone, at, list, seen, out, errs, readFrom, from,
                 touched, denied, closed, failed, envVars>>

-----------------------------------------------------------------------------
(* Device and ConfigureDevice.                                             *)

ByName == op \in {"device", "configure"}

\* Mutant: the first os.ErrNotExist is returned.
NotThereEnds ==
  /\ pc \in {"read", "ask"} /\ ByName /\ at <= N
  /\ name \notin has[at]
  /\ Return("notexist")
  /\ UNCHANGED <<op, name, ctxDone, at, list, seen, out, errs, readFrom,
                 from, touched, denied, closed, failed, envVars>>

\* The backend has applied a part of the configuration, such as one of
\* Linux's batches, or the peers before the one that FreeBSD refuses.
AppliesPart ==
  /\ pc = "ask" /\ op = "configure" /\ at <= N
  /\ name \in has[at]
  /\ touched' = touched \union {at}
  /\ UNCHANGED <<op, name, ctxDone, pc, at, list, seen, out, errs, result, readFrom,
                 from, denied, closed, failed, envVars>>

\* os.ErrNotExist: the next backend's turn, whatever is applied already.
NotThere ==
  /\ pc \in {"read", "ask"} /\ ByName /\ at <= N
  /\ name \notin has[at]
  /\ at' = at + 1
  /\ UNCHANGED <<op, name, ctxDone, pc, list, seen, out, errs, result, readFrom,
                 from, touched, denied, closed, failed, envVars>>

\* os.ErrNotExist of a device that is there: FreeBSD says it of a value that
\* the kernel refuses, and Userspace of a daemon behind a stale socket file.
Denies ==
  /\ pc \in {"read", "ask"} /\ ByName /\ at <= N
  /\ name \in has[at]
  /\ denied' = denied \union {at}
  /\ at' = at + 1
  /\ UNCHANGED <<op, name, ctxDone, pc, list, seen, out, errs, result, readFrom,
                 from, touched, closed, failed, envVars>>

\* The device is returned; or configured.
Succeeds ==
  /\ pc = "ask" /\ ByName /\ at <= N
  /\ name \in has[at]
  /\ Return("ok")
  /\ from' = at
  /\ touched' = IF op = "configure" THEN touched \union {at} ELSE touched
  /\ UNCHANGED <<op, name, ctxDone, at, list, seen, out, errs, readFrom, denied,
                 closed, failed, envVars>>

\* Mutant: any error sends the call on to the next backend.
FailsGoesOn ==
  /\ pc = "ask" /\ ByName /\ at <= N
  /\ failed' = failed \union {at}
  /\ at' = at + 1
  /\ UNCHANGED <<op, name, ctxDone, pc, result, list, seen, out, errs, readFrom,
                 from, touched, denied, closed, envVars>>

\* Any other error ends the call.
Fails ==
  /\ pc = "ask" /\ ByName /\ at <= N
  /\ failed' = failed \union {at}
  /\ Return("error")
  /\ UNCHANGED <<op, name, ctxDone, at, list, seen, out, errs, readFrom, from,
                 touched, denied, closed, envVars>>

NotFound ==
  /\ pc = "ask" /\ ByName /\ at = N + 1
  /\ Return("notexist")
  /\ UNCHANGED <<op, name, ctxDone, at, list, seen, out, errs, readFrom, from,
                 touched, denied, closed, failed, envVars>>

\* Mutant: the loop that configures goes on behind the backend that was read.
ReadSucceedsOnward ==
  /\ pc = "read" /\ at <= N
  /\ name \in has[at]
  /\ readFrom' = at
  /\ \/ Return("invalid") /\ UNCHANGED at
     \/ pc' = "ask" /\ at' = at + 1 /\ UNCHANGED result
  /\ UNCHANGED <<op, name, ctxDone, list, seen, out, errs, from, touched, denied, closed,
                 failed, envVars>>

\* if d, err := c.Device(ctx, name); err == nil: the values that the device
\* would have are in conflict, or they are not.
ReadSucceeds ==
  /\ pc = "read" /\ at <= N
  /\ name \in has[at]
  /\ readFrom' = at
  /\ \/ Return("invalid") /\ UNCHANGED at
     \/ pc' = "ask" /\ at' = 1 /\ UNCHANGED result
  /\ UNCHANGED <<op, name, ctxDone, list, seen, out, errs, from, touched, denied, closed,
                 failed, envVars>>

\* A device that cannot be read is left to the backend.
ReadFails ==
  /\ pc = "read"
  /\ pc' = "ask" /\ at' = 1
  /\ UNCHANGED <<op, name, ctxDone, list, seen, out, errs, result, readFrom,
                 from, touched, denied, closed, failed, envVars>>

-----------------------------------------------------------------------------
(* Close.                                                                  *)

CloseNext ==
  /\ pc = "ask" /\ op = "close" /\ at <= N
  /\ closed' = closed \union {at}
  /\ at' = at + 1
  /\ \/ UNCHANGED <<errs, failed>>
     \/ errs' = errs \union {at} /\ failed' = failed \union {at}
  /\ UNCHANGED <<op, name, ctxDone, pc, list, seen, out, result, readFrom, from,
                 touched, denied, envVars>>

CloseDone ==
  /\ pc = "ask" /\ op = "close" /\ at = N + 1
  /\ Return(IF errs = {} THEN "ok" ELSE "error")
  /\ UNCHANGED <<op, name, ctxDone, at, list, seen, out, errs, readFrom, from,
                 touched, denied, closed, failed, envVars>>

-----------------------------------------------------------------------------
(* The context and the devices, external.                                  *)

CtxEnds ==
  /\ ~ ctxDone
  /\ ctxDone' = TRUE
  /\ UNCHANGED <<op, name, pc, at, list, seen, out, errs, result, readFrom, from,
                 touched, denied, closed, failed, envVars>>

Appears(b, n) ==
  /\ pc # "done" /\ changes < MaxChanges
  /\ n \notin has[b]
  /\ has' = [has EXCEPT ![b] = @ \union {n}]
  /\ high' = IF b = at THEN high \union {n} ELSE high
  /\ ever' = [ever EXCEPT ![b] = @ \union {n}]
  /\ changes' = changes + 1
  /\ UNCHANGED <<callVars, low, stayed>>

Vanishes(b, n) ==
  /\ pc # "done" /\ changes < MaxChanges
  /\ n \in has[b]
  /\ has' = [has EXCEPT ![b] = @ \ {n}]
  /\ low' = IF b = at THEN low \ {n} ELSE low
  /\ stayed' = [stayed EXCEPT ![b] = @ \ {n}]
  /\ changes' = changes + 1
  /\ UNCHANGED <<callVars, high, ever>>

Next ==
  \/ AskForList \/ Lists \/ ListFails \/ Keep \/ NextBackend \/ ListDone
  \/ AppliesPart \/ NotThere \/ Denies \/ Succeeds \/ Fails \/ NotFound
  \/ ReadSucceeds \/ ReadFails
  \/ CloseNext \/ CloseDone \/ CtxEnds
  \/ \E b \in Backends, n \in Names : Appears(b, n) \/ Vanishes(b, n)

Spec == Init /\ [][Next]_vars

-----------------------------------------------------------------------------
\* A device is its name and its backend.
DevicesOf(on) == {d \in Names \X Backends : d[1] \in on[d[2]]}

Entries == {out[i] : i \in DOMAIN out}

B == INSTANCE Backend WITH
       there  <- DevicesOf(has),
       begun  <- TRUE,
       stayed <- DevicesOf(stayed),
       seen   <- DevicesOf(ever),
       hidden <- IF denied = {} THEN {} ELSE {name},
       unfit  <- {},
       result <- IF result \in {"none", "ok", "notexist"} THEN result ELSE "error",
       found  <- IF op = "devices" /\ result \in {"ok", "error"}
                 THEN {<<e[2], e[1]>> : e \in Entries}
                 ELSE {<<name, b>> : b \in {from} \ {0}}

-----------------------------------------------------------------------------
(* Properties.                                                             *)

\* The composite Client is a backend like those it is made of, for any number
\* of them: the devices of all of them are listed, and os.ErrNotExist is said
\* only of a name that none of them had all along, or that one of them hid.
ImplementsBackend == B!Spec

\* "A backend that fails does not hide the devices of the others": a device
\* that is there all along on a backend that does not fail is returned.
FailureHidesNothing ==
  (op = "devices" /\ pc = "done" /\ result # "ctx")
  => \A b \in Backends \ failed : \A n \in stayed[b] : \E e \in Entries : e[2] = n

\* No device is returned twice, whichever backends report it and how often.
NoDuplicates ==
  \A i, j \in DOMAIN out : out[i][2] = out[j][2] => i = j

\* "Only the first occurrence is kept": once each, and no earlier backend that
\* did not fail had the device all along.
FirstOccurrenceKept ==
  /\ NoDuplicates
  /\ \A e \in Entries : \A b \in Backends :
       (b < e[1] /\ e[2] \in stayed[b]) => b \in failed

\* "Together with the errors, joined": no error is lost unless the context ends.
ErrorsJoined ==
  (op \in {"devices", "close"} /\ pc = "done" /\ result # "ctx")
  => errs = failed /\ (result = "ok" <=> failed = {})

\* os.ErrNotExist is returned only for a device that no backend had all along,
\* but for those that denied it.
NotExistIsTrue ==
  (ByName /\ result = "notexist") => \A b \in Backends \ denied : name \notin stayed[b]

\* The device shown or configured is the first one with its name, but for
\* backends that denied theirs: Device, ConfigureDevice and Devices mean the
\* same device.
FirstIsMeant ==
  (ByName /\ from # 0) =>
    \A b \in Backends \ denied : b < from => name \notin stayed[b]

\* A configuration goes on to the device of another backend only if the one it
\* has changed, perhaps in part, went in the meantime or was denied: no other
\* failure, at whatever point of it, leaves two devices changed.
OneTouched ==
  \A b, c \in touched : b < c => name \notin stayed[b] \/ b \in denied

\* The device that a partial update was checked against is the one that is
\* changed, unless devices came or went in between or a backend denied its own.
CheckedIsChanged ==
  (readFrom # 0 /\ changes = 0 /\ denied = {}) => touched \subseteq {readFrom}

\* "All underlying clients are closed regardless of errors".
AllClosed ==
  (op = "close" /\ pc = "done") => closed = Backends
=============================================================================
