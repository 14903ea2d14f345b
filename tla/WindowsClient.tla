------------------------------ MODULE WindowsClient ------------------------------
(***************************************************************************)
(* The Windows backend, internal/wgwindows/client_windows.go: adapters are *)
(* found by a path that is kept in a cache, opened, and read into a buffer *)
(* whose length is guessed from the last one.  Adapters are created and    *)
(* removed at any time.  One caller makes one call after the other; the    *)
(* cache and the guess outlive the calls.                                  *)
(***************************************************************************)
EXTENDS Naturals

CONSTANTS Names,      \* names of adapters
          Paths,      \* paths of their device interfaces
          NoName,     \* not a name: there is no adapter at a path
          Default,    \* the first guess, 512 bytes in the code
          MaxLength,  \* bound: length of an adapter's configuration
          MaxCalls,   \* bound: calls
          MaxChanges  \* bound: adapters that come or go, or are changed

ASSUME NoNameAssumption == NoName \notin Names
ASSUME LengthAssumption == Default \in Nat \ {0} /\ MaxLength \in Nat \ {0}
ASSUME CallsAssumption == MaxCalls \in Nat

VARIABLES
  adapters,      \* the name of the adapter at each path, or NoName
  length,        \* of its configuration
  cached,        \* cachedInterfaces: a function from names to paths
  lastLenGuess,
  op, name,      \* the call
  ctxDone,
  pc,            \* "idle", "pick", "lookup", "open", "ioctl", "done"
  todo,          \* Devices: names to come
  ds,            \* what was read or set: <<name asked for, name of the
                 \* adapter that was open, its path>>
  hasRefreshed,
  file,          \* the path to open, or that is open
  size, read,    \* the buffer, and how much of a configuration it holds
  result,
  calls, changes,
  failed,        \* history: a system call failed, otherwise than for a
                 \* path that is not there
  stayed,        \* history: adapters <<name, path>> there since the call began
  since          \* history: those created since cached was filled

cacheVars == <<cached, lastLenGuess>>
callVars  == <<op, name, ctxDone, todo, ds, hasRefreshed, file, size, read, calls>>
envVars   == <<adapters, length, changes>>
vars == <<cacheVars, callVars, envVars, pc, result, failed, stayed, since>>

Adapters == {<<adapters[p], p>> : p \in {q \in Paths : adapters[q] # NoName}}

TypeOK ==
  /\ adapters \in [Paths -> Names \union {NoName}]
  /\ length \in [Paths -> 1 .. MaxLength]
  /\ DOMAIN cached \subseteq Names /\ \A n \in DOMAIN cached : cached[n] \in Paths
  /\ lastLenGuess \in 0 .. MaxLength
  /\ op \in {"devices", "device", "configure"} /\ name \in Names
  /\ pc \in {"idle", "pick", "lookup", "open", "ioctl", "done"}
  /\ todo \subseteq Names /\ ds \subseteq Names \X Names \X Paths
  /\ hasRefreshed \in BOOLEAN /\ ctxDone \in BOOLEAN /\ failed \in BOOLEAN
  /\ file \in Paths
  /\ size \in 0 .. (IF MaxLength > Default THEN MaxLength ELSE Default)
  /\ pc = "ioctl" => size > 0 \* make([]byte, size) has a first byte
  /\ read \in 0 .. MaxLength
  /\ result \in {"none", "ok", "notexist", "ctx", "error"}
  /\ calls \in 0 .. MaxCalls
  /\ stayed \subseteq Names \X Paths /\ since \subseteq Names \X Paths

Unique(a) == \A p, q \in Paths : a[p] = a[q] /\ a[p] # NoName => p = q

Init ==
  /\ adapters \in {a \in [Paths -> Names \union {NoName}] : Unique(a)}
  /\ length \in [Paths -> 1 .. MaxLength]
  /\ cached = [n \in {} |-> 0] /\ lastLenGuess = 0
  /\ op = "device" /\ name \in Names
  /\ ctxDone = FALSE
  /\ pc = "idle"
  /\ todo = {} /\ ds = {}
  /\ hasRefreshed = FALSE
  /\ file \in Paths
  /\ size = 0 /\ read = 0
  /\ result = "none"
  /\ calls = 0 /\ changes = 0
  /\ failed = FALSE
  /\ stayed = {} /\ since = {}

Return(res) == pc' = "done" /\ result' = res

-----------------------------------------------------------------------------
(* The cache.                                                              *)

\* Mutants: the paths already known are kept; the cache is filled only once.
RefreshAdds(before) ==
  /\ cached' = [n \in {a[1] : a \in Adapters} \union DOMAIN cached |->
                  IF n \in DOMAIN cached THEN cached[n]
                  ELSE CHOOSE p \in Paths : adapters[p] = n]
  /\ since' = {}
  /\ failed' = before
RefreshOnce(before) ==
  /\ cached' = IF DOMAIN cached # {} THEN cached
               ELSE [n \in {a[1] : a \in Adapters} |-> CHOOSE p \in Paths : adapters[p] = n]
  /\ since' = IF DOMAIN cached # {} THEN since ELSE {}
  /\ failed' = before

\* refreshInterfaceCache: adapters that cannot be queried are left out.
Refresh(before) ==
  \E found \in SUBSET Adapters :
    /\ cached' = [n \in {a[1] : a \in found} |-> CHOOSE p \in Paths : adapters[p] = n]
    /\ since' = {}
    /\ failed' = (before \/ found # Adapters)

-----------------------------------------------------------------------------
(* Calls begin.                                                            *)

Begin(o, n) ==
  /\ pc \in {"idle", "done"} /\ calls < MaxCalls
  /\ calls' = calls + 1
  /\ op' = o /\ name' = n
  /\ stayed' = Adapters
  /\ ds' = {} /\ read' = 0 /\ size' = 0
  /\ hasRefreshed' = FALSE
  /\ UNCHANGED <<file, lastLenGuess, envVars>>

Cancelled(o, n) ==
  /\ Begin(o, n)
  /\ ctxDone' = TRUE
  /\ Return("ctx")
  /\ failed' = TRUE
  /\ UNCHANGED <<cached, since, todo>>

\* Device, ConfigureDevice.
BeginByName(o, n) ==
  /\ o # "devices"
  /\ Begin(o, n)
  /\ ctxDone' = FALSE
  /\ pc' = "lookup" /\ result' = "none"
  /\ failed' = FALSE
  /\ UNCHANGED <<cached, since, todo>>

\* Devices fills the cache and goes through it.
BeginDevices(n) ==
  /\ Begin("devices", n)
  /\ ctxDone' = FALSE
  /\ Refresh(FALSE)
  /\ todo' = DOMAIN cached'
  /\ pc' = "pick" /\ result' = "none"

RefreshFails(n) ==
  /\ Begin("devices", n)
  /\ ctxDone' = FALSE
  /\ failed' = TRUE
  /\ Return("error")
  /\ UNCHANGED <<cached, since, todo>>

\* The next turn of Devices' loop, in any order, and Device's ctx.Err().
Pick(n) ==
  /\ pc = "pick" /\ n \in todo
  /\ todo' = todo \ {n} /\ name' = n
  /\ IF ctxDone THEN Return("ctx") /\ failed' = TRUE
     ELSE pc' = "lookup" /\ UNCHANGED <<result, failed>>
  /\ hasRefreshed' = FALSE
  /\ UNCHANGED <<op, ctxDone, ds, file, size, read, calls, cacheVars, envVars, stayed, since>>

DevicesDone ==
  /\ pc = "pick" /\ todo = {}
  /\ Return("ok")
  /\ UNCHANGED <<callVars, cacheVars, envVars, failed, stayed, since>>

-----------------------------------------------------------------------------
(* interfaceHandle.                                                        *)

Hit ==
  /\ pc = "lookup" /\ name \in DOMAIN cached
  /\ file' = cached[name]
  /\ pc' = "open"
  /\ UNCHANGED <<op, name, ctxDone, todo, ds, hasRefreshed, size, read, calls,
                 cacheVars, envVars, result, failed, stayed, since>>

\* Mutant: a name that is not in the cache is not looked for.
MissEnds ==
  /\ pc = "lookup" /\ name \notin DOMAIN cached
  /\ hasRefreshed' = TRUE
  /\ Return("notexist")
  /\ UNCHANGED <<op, name, ctxDone, todo, ds, size, read, calls, file, cacheVars,
                 envVars, failed, stayed, since>>

Miss ==
  /\ pc = "lookup" /\ name \notin DOMAIN cached
  /\ hasRefreshed' = TRUE
  /\ Refresh(failed)
  /\ IF name \in DOMAIN cached'
     THEN file' = cached'[name] /\ pc' = "open" /\ UNCHANGED result
     ELSE Return("notexist") /\ UNCHANGED file
  /\ UNCHANGED <<op, name, ctxDone, todo, ds, size, read, calls, lastLenGuess,
                 envVars, stayed>>

MissFails ==
  /\ pc = "lookup" /\ name \notin DOMAIN cached
  /\ failed' = TRUE
  /\ Return("error")
  /\ UNCHANGED <<callVars, cacheVars, envVars, stayed, since>>

\* The buffer for the first DeviceIoControl.
Opens ==
  /\ pc = "open" /\ adapters[file] # NoName
  /\ pc' = "ioctl"
  /\ size' = IF lastLenGuess = 0 THEN Default ELSE lastLenGuess
  /\ UNCHANGED <<op, name, ctxDone, todo, ds, hasRefreshed, file, read, calls,
                 cacheVars, envVars, result, failed, stayed, since>>

\* ERROR_FILE_NOT_FOUND.  Devices fails for an adapter that is removed.
NotFound ==
  /\ pc = "open" /\ adapters[file] = NoName
  /\ Return("notexist")
  /\ UNCHANGED <<callVars, cacheVars, envVars, failed, stayed, since>>

\* Any other error: the loop goes on if the cache was not refreshed.
OpenFails ==
  /\ pc = "open"
  /\ failed' = TRUE
  /\ IF hasRefreshed THEN Return("error") ELSE pc' = "lookup" /\ UNCHANGED result
  /\ UNCHANGED <<callVars, cacheVars, envVars, stayed, since>>

-----------------------------------------------------------------------------
(* DeviceIoControl.                                                        *)

\* Mutant: the same buffer is tried again.
MoreDataSameSize ==
  /\ pc = "ioctl" /\ op # "configure"
  /\ adapters[file] # NoName /\ length[file] > size
  /\ UNCHANGED vars

\* ERROR_MORE_DATA: size is what the configuration needs now.
MoreData ==
  /\ pc = "ioctl" /\ op # "configure"
  /\ adapters[file] # NoName /\ length[file] > size
  /\ size' = length[file]
  /\ UNCHANGED <<op, name, ctxDone, todo, ds, hasRefreshed, file, read, calls,
                 cacheVars, envVars, pc, result, failed, stayed, since>>

Got(n) ==
  /\ size' = n /\ lastLenGuess' = n
  /\ ds' = ds \union {<<name, adapters[file], file>>}
  /\ IF op = "devices" THEN pc' = "pick" /\ UNCHANGED result ELSE Return("ok")
  /\ UNCHANGED <<op, name, ctxDone, todo, hasRefreshed, file, calls, cached, envVars,
                 failed, stayed, since>>

Gets ==
  /\ pc = "ioctl" /\ op # "configure"
  /\ adapters[file] # NoName /\ length[file] <= size
  /\ read' = length[file]
  /\ Got(read')

\* The length may change with the configuration.
Sets(n) ==
  /\ pc = "ioctl" /\ op = "configure" /\ adapters[file] # NoName
  /\ length' = [length EXCEPT ![file] = n]
  /\ ds' = {<<name, adapters[file], file>>}
  /\ Return("ok")
  /\ UNCHANGED <<op, name, ctxDone, todo, hasRefreshed, file, size, read, calls,
                 cacheVars, adapters, changes, failed, stayed, since>>

\* It fails at last when the adapter is gone.
IoctlFails ==
  /\ pc = "ioctl"
  /\ failed' = TRUE
  /\ Return("error")
  /\ UNCHANGED <<callVars, cacheVars, envVars, stayed, since>>

-----------------------------------------------------------------------------
(* The context and the adapters, external.                                 *)

CtxEnds ==
  /\ pc \notin {"idle", "done"} /\ ~ ctxDone
  /\ ctxDone' = TRUE
  /\ UNCHANGED <<op, name, todo, ds, hasRefreshed, file, size, read, calls, cacheVars,
                 envVars, pc, result, failed, stayed, since>>

Changes(p, a, l) ==
  /\ changes < MaxChanges /\ changes' = changes + 1
  /\ adapters' = a /\ length' = l
  /\ stayed' = {x \in stayed : x[2] # p \/ a[p] = x[1]}
  /\ UNCHANGED <<cacheVars, callVars, pc, result, failed>>

Created(p, n, l) ==
  /\ adapters[p] = NoName /\ \A q \in Paths : adapters[q] # n
  /\ ~ (pc = "ioctl" /\ file = p) \* a path is not used again while it is open
  /\ Changes(p, [adapters EXCEPT ![p] = n], [length EXCEPT ![p] = l])
  /\ since' = since \union {<<n, p>>}

Removed(p) ==
  /\ adapters[p] # NoName
  /\ Changes(p, [adapters EXCEPT ![p] = NoName], length)
  /\ UNCHANGED since

Reconfigured(p, l) ==
  /\ adapters[p] # NoName /\ length[p] # l
  /\ Changes(p, adapters, [length EXCEPT ![p] = l])
  /\ UNCHANGED since

\* The steps of a call, and those that a failure of the system makes.
Step ==
  \/ \E n \in todo : Pick(n)
  \/ DevicesDone
  \/ Hit \/ Miss \/ Opens \/ NotFound
  \/ MoreData \/ Gets
  \/ \E l \in 1 .. MaxLength : Sets(l)
  \/ adapters[file] = NoName /\ IoctlFails
Failure == MissFails \/ OpenFails \/ IoctlFails

Next ==
  \/ \E o \in {"devices", "device", "configure"}, n \in Names :
       Cancelled(o, n) \/ BeginByName(o, n)
  \/ \E n \in Names : BeginDevices(n) \/ RefreshFails(n)
  \/ Step \/ Failure
  \/ CtxEnds
  \/ \E p \in Paths, n \in Names, l \in 1 .. MaxLength : Created(p, n, l)
  \/ \E p \in Paths : Removed(p)
  \/ \E p \in Paths, l \in 1 .. MaxLength : Reconfigured(p, l)

Spec == Init /\ [][Next]_vars

\* The caller's goroutine runs; no failure is taken for granted.
FairSpec == Spec /\ WF_vars(Step)

-----------------------------------------------------------------------------
(* Properties.                                                             *)

\* os.ErrNotExist is said of an adapter that is there only if the cache had
\* another path for its name, or a query failed.
OnlyStaleHides ==
  (op # "devices" /\ result = "notexist" /\ ~ failed) =>
    \A p \in Paths : <<name, p>> \in stayed => name \in DOMAIN cached /\ cached[name] # p

\* The adapter read or set under a name is the one of that name, or one that
\* was created since the cache was filled, at a path that the cache still
\* gives another name.
HadTheName ==
  \A d \in ds : d[2] = d[1] \/ <<d[2], d[3]>> \in since

\* Devices reads every adapter that stays under its own name, or it fails.
ListsWhatStayed ==
  (op = "devices" /\ result = "ok" /\ ~ failed) =>
    \A x \in stayed : <<x[1], x[1], x[2]>> \in ds

\* Every call returns, if the system does not refuse for ever to open an
\* adapter: an open that fails on a path from the cache is tried again.
CallReturns ==
  <>[][~ OpenFails]_vars => (pc \notin {"idle", "done"} ~> pc = "done")
=============================================================================
