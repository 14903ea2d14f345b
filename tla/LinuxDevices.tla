------------------------------ MODULE LinuxDevices ------------------------------
(***************************************************************************)
(* The kernel's devices as internal/wglinux/client_linux.go finds them:    *)
(* initClient looks the two netlink families up, once; Devices takes the   *)
(* list of links, and for each of them Device asks for the kind of the     *)
(* link, chooses the family by it and fetches the device.  Links come, go  *)
(* and change their kind, and modules are loaded, between any two of these *)
(* steps; the fetch itself is LinuxDump.                                   *)
(***************************************************************************)
EXTENDS Naturals, Sequences, FiniteSets

CONSTANTS Names,      \* names of links
          Ops,        \* of {"devices", "device"}
          MaxChanges  \* bound: changes of links or modules

ASSUME NamesAssumption == IsFiniteSet(Names)
ASSUME OpsAssumption == Ops \subseteq {"devices", "device"}

Families == {"wireguard", "amneziawg"}
Kinds    == Families \union {"none", "other"}

VARIABLES
  links,    \* the kind of the link with each name; "none" if there is none
  loaded,   \* the families that the kernel knows
  tooNew,   \* the amneziawg module's version is higher than the library's
  client,   \* "init", "looking"; "failed", "absent", "ready": what initClient returned
  lookup,   \* what its lookups have answered
  op, name,
  ctxDone,
  pc,       \* "idle", "check", "kind", "get", "done"
  ifis,     \* the names that are left; the first one is looked at
  family,   \* what familyFor has returned
  ds,       \* the devices so far, as <<name, family of the fetch>>
  result,
  changes,
  failed,   \* history: a request failed, or the context ended
  stayed,   \* history: links that have not changed since the call began
  seen      \* history: links <<name, kind>> there since the call began

callVars == <<op, name, ctxDone, pc, ifis, family, ds, result, failed>>
linkVars == <<links, loaded, changes, stayed, seen>>
vars == <<linkVars, tooNew, client, lookup, callVars>>

\* The families the client has pointers to.
found == {f \in Families : lookup[f] = "found"}

TypeOK ==
  /\ links \in [Names -> Kinds]
  /\ loaded \subseteq Families
  /\ lookup \in [Families -> {"none", "found", "missing", "error"}]
  /\ client \in {"init", "looking", "failed", "absent", "ready"}
  /\ client = "ready" => found # {}
  /\ tooNew \in BOOLEAN /\ ctxDone \in BOOLEAN /\ failed \in BOOLEAN
  /\ op \in Ops /\ name \in Names
  /\ pc \in {"idle", "check", "kind", "get", "done"}
  /\ pc \in {"check", "kind", "get"} => ifis # <<>>
  /\ ifis \in Seq(Names)
  /\ family \in Families \union {"none"}
  /\ ds \in Seq(Names \X Families)
  /\ result \in {"none", "ok", "notexist", "ctx", "version", "error"}
  /\ changes \in Nat
  /\ stayed \subseteq Names /\ seen \subseteq Names \X Kinds

Links == {<<n, links[n]>> : n \in Names}

Init ==
  /\ loaded \in SUBSET Families
  /\ links \in [Names -> loaded \union {"none", "other"}]
  /\ tooNew \in BOOLEAN
  /\ client = "init" /\ lookup = [f \in Families |-> "none"]
  /\ op \in Ops /\ name \in Names
  /\ ctxDone = FALSE
  /\ pc = "idle"
  /\ ifis = <<>> /\ family = "none" /\ ds = <<>>
  /\ result = "none"
  /\ changes = 0
  /\ failed = FALSE
  /\ stayed = {} /\ seen = {}

-----------------------------------------------------------------------------
(* New and initClient.                                                     *)

\* There is no generic netlink socket.  Its options are set on trial.
DialFails ==
  /\ client = "init"
  /\ client' = "failed"
  /\ UNCHANGED <<linkVars, tooNew, lookup, callVars>>

GetFamily(f) ==
  \E answer \in {"error", IF f \in loaded THEN "found" ELSE "missing"} :
    lookup' = [lookup EXCEPT ![f] = answer]

LookUpWireGuard ==
  /\ client = "init"
  /\ GetFamily("wireguard")
  /\ client' = "looking"
  /\ UNCHANGED <<linkVars, tooNew, callVars>>

\* If neither family is found, the error of the first lookup counts; without
\* one there is no kernel client.
LookUpAmnezia ==
  /\ client = "looking"
  /\ GetFamily("amneziawg")
  /\ client' = IF \E f \in Families : lookup'[f] = "found" THEN "ready"
               ELSE IF lookup["wireguard"] = "error" THEN "failed" ELSE "absent"
  /\ UNCHANGED <<linkVars, tooNew, callVars>>

-----------------------------------------------------------------------------
Return(res) == pc' = "done" /\ result' = res

Begin ==
  /\ client = "ready" /\ pc = "idle"
  /\ stayed' = Names /\ seen' = Links
  /\ UNCHANGED <<links, loaded, changes>>

Cancelled ==
  /\ Begin
  /\ ctxDone
  /\ failed' = TRUE
  /\ Return("ctx")
  /\ UNCHANGED <<tooNew, client, lookup, op, name, ctxDone, ifis, family, ds>>

\* rtnlInterfaces: one dump of all links.
IsWGKind(k) == k \in Families
Listings ==
  {l \in [1 .. Cardinality({n \in Names : IsWGKind(links[n])}) ->
            {n \in Names : IsWGKind(links[n])}] :
     \A i, j \in DOMAIN l : l[i] = l[j] => i = j}

ListLinks ==
  /\ Begin
  /\ ~ ctxDone /\ op = "devices"
  /\ \E l \in Listings :
       /\ ifis' = l
       /\ IF l = <<>> THEN Return("ok") ELSE pc' = "check" /\ UNCHANGED result
  /\ UNCHANGED <<tooNew, client, lookup, op, name, ctxDone, family, ds, failed>>

ListLinksFails ==
  /\ Begin
  /\ ~ ctxDone /\ op = "devices"
  /\ failed' = TRUE
  /\ Return("error")
  /\ UNCHANGED <<tooNew, client, lookup, op, name, ctxDone, ifis, family, ds>>

OneDevice ==
  /\ Begin
  /\ ~ ctxDone /\ op = "device"
  /\ ifis' = <<name>> /\ pc' = "kind"
  /\ UNCHANGED <<tooNew, client, lookup, op, name, ctxDone, family, ds, result, failed>>

-----------------------------------------------------------------------------
(* Device, for Head(ifis).                                                 *)

\* The next link's turn.
GoOn ==
  /\ ifis' = Tail(ifis)
  /\ family' = "none"
  /\ IF Tail(ifis) = <<>> THEN Return("ok") ELSE pc' = "check" /\ UNCHANGED result

\* Mutants: every failure of Device ends Devices; none of them does.
DeviceErrsEnds(res) == Return(res) /\ UNCHANGED <<ifis, family>>
DeviceErrsSkips(res) ==
  IF op = "devices" THEN GoOn ELSE Return(res) /\ UNCHANGED <<ifis, family>>

\* Device returns an error; Devices goes on only after os.ErrNotExist.
DeviceErrs(res) ==
  IF op = "devices" /\ res = "notexist" THEN GoOn
  ELSE Return(res) /\ UNCHANGED <<ifis, family>>

\* ctx.Err() at the start of Device.
Check ==
  /\ pc = "check"
  /\ IF ctxDone THEN failed' = TRUE /\ DeviceErrs("ctx")
     ELSE pc' = "kind" /\ UNCHANGED <<ifis, family, result, failed>>
  /\ UNCHANGED <<linkVars, tooNew, client, lookup, op, name, ctxDone, ds>>

\* familyFor: the kind of the link, and the family that has its name.
Kind == links[Head(ifis)]

Served(k) == k \in found /\ ~ (k = "amneziawg" /\ tooNew)

\* Mutant: any family that was found will do.
FamilyForAny ==
  /\ pc = "kind" /\ Served(Kind)
  /\ family' \in found
  /\ pc' = "get"
  /\ UNCHANGED <<linkVars, tooNew, client, lookup, op, name, ctxDone, ifis, ds, result, failed>>
FamilyFor ==
  /\ pc = "kind" /\ Served(Kind)
  /\ family' = Kind
  /\ pc' = "get"
  /\ UNCHANGED <<linkVars, tooNew, client, lookup, op, name, ctxDone, ifis, ds, result, failed>>

\* Not a kernel WireGuard link, or a kind whose family was not found.
NoFamily ==
  /\ pc = "kind" /\ Kind \notin found
  /\ DeviceErrs("notexist")
  /\ UNCHANGED <<linkVars, tooNew, client, lookup, op, name, ctxDone, ds, failed>>

VersionTooNew ==
  /\ pc = "kind" /\ Kind = "amneziawg" /\ Kind \in found /\ tooNew
  /\ DeviceErrs("version")
  /\ UNCHANGED <<linkVars, tooNew, client, lookup, op, name, ctxDone, ds, failed>>

\* rtnetlink fails; this request is not bounded by the context.
KindFails ==
  /\ pc = "kind"
  /\ failed' = TRUE
  /\ DeviceErrs("error")
  /\ UNCHANGED <<linkVars, tooNew, client, lookup, op, name, ctxDone, ds>>

\* getDeviceInternal: the kernel answers if the family's device has the name.
Get ==
  /\ pc = "get" /\ Kind = family
  /\ ds' = Append(ds, <<Head(ifis), family>>)
  /\ GoOn
  /\ UNCHANGED <<linkVars, tooNew, client, lookup, op, name, ctxDone, failed>>

\* ENODEV, ENOTSUP: the link is gone, or is of another kind.  withContext
\* makes any error that of a context that has ended.
GetNotExist ==
  /\ pc = "get" /\ Kind # family
  /\ DeviceErrs(IF ctxDone THEN "ctx" ELSE "notexist")
  /\ failed' = (failed \/ ctxDone)
  /\ UNCHANGED <<linkVars, tooNew, client, lookup, op, name, ctxDone, ds>>

\* Any other error of the fetch or of its parsing.
GetFails ==
  /\ pc = "get"
  /\ DeviceErrs(IF ctxDone THEN "ctx" ELSE "error")
  /\ failed' = TRUE
  /\ UNCHANGED <<linkVars, tooNew, client, lookup, op, name, ctxDone, ds>>

-----------------------------------------------------------------------------
(* The context, the links and the modules, external.                       *)

CtxEnds ==
  /\ ~ ctxDone
  /\ ctxDone' = TRUE
  /\ UNCHANGED <<linkVars, tooNew, client, lookup, op, name, pc, ifis, family, ds,
                 result, failed>>

LinkChanges(n, k) ==
  /\ pc # "done" /\ changes < MaxChanges
  /\ k # links[n] /\ k \in loaded \union {"none", "other"}
  /\ links' = [links EXCEPT ![n] = k]
  /\ changes' = changes + 1
  /\ stayed' = stayed \ {n}
  /\ seen' = IF pc = "idle" THEN seen ELSE seen \union {<<n, k>>}
  /\ UNCHANGED <<loaded, tooNew, client, lookup, callVars>>

\* Adding a link of a kind loads the module.
ModuleLoaded(f) ==
  /\ pc # "done" /\ changes < MaxChanges
  /\ f \notin loaded
  /\ loaded' = loaded \union {f}
  /\ changes' = changes + 1
  /\ UNCHANGED <<links, stayed, seen, tooNew, client, lookup, callVars>>

Next ==
  \/ DialFails \/ LookUpWireGuard \/ LookUpAmnezia
  \/ Cancelled \/ ListLinks \/ ListLinksFails \/ OneDevice
  \/ Check \/ FamilyFor \/ NoFamily \/ VersionTooNew \/ KindFails
  \/ Get \/ GetNotExist \/ GetFails
  \/ CtxEnds
  \/ \E n \in Names, k \in Kinds : LinkChanges(n, k)
  \/ \E f \in Families : ModuleLoaded(f)

Spec == Init /\ [][Next]_vars

-----------------------------------------------------------------------------
\* A device is a link of a kind whose family was found when the client was made.
Devices(ls) == {d \in ls : d[2] \in found}

B == INSTANCE Backend WITH
       there  <- Devices(Links),
       begun  <- pc # "idle",
       stayed <- Devices(IF pc = "idle" THEN Links ELSE {d \in Links : d[1] \in stayed}),
       seen   <- Devices(IF pc = "idle" THEN Links ELSE seen),
       hidden <- {},
       unfit  <- IF tooNew THEN Names \X {"amneziawg"} ELSE {},
       result <- IF result \in {"none", "ok", "notexist"} THEN result ELSE "error",
       found  <- IF result = "ok" THEN {ds[i] : i \in DOMAIN ds} ELSE {}

-----------------------------------------------------------------------------
(* Properties.                                                             *)

\* The kernel's Client keeps the promises of a backend while links come, go
\* and change their kind: a link that stays is listed by Devices, and Device
\* never says of it that it does not exist; what is returned is what the link
\* was at some time during the call, no WireGuard device as AmneziaWG or the
\* other way round, and never one of a version that this library does not know.
ImplementsBackend == B!Spec

\* A link that goes away or changes while Devices runs makes no failure.
RemovalIsNoFailure ==
  (op = "devices" /\ result \notin {"none", "ok"}) =>
    failed \/ (result = "version" /\ tooNew)
=============================================================================
