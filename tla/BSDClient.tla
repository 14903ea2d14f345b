------------------------------- MODULE BSDClient -------------------------------
(***************************************************************************)
(* The backends of FreeBSD and OpenBSD, internal/wgfreebsd and             *)
(* internal/wgopenbsd: everything is asked of the kernel twice, once for   *)
(* the size and once for the data, and interfaces come, go, grow and       *)
(* shrink in between.  Neither backend keeps any state but its socket, so  *)
(* one call is the whole story.                                            *)
(***************************************************************************)
EXTENDS PackedDevice

CONSTANTS Platforms,  \* of {"freebsd", "openbsd"}
          Ops,        \* of {"devices", "device", "configure"}
          Names,      \* names of interfaces
          NoName,     \* the name that an unused entry of the list holds
          Configs,    \* the configurations that are set
          Devices,    \* what the kernel's devices may be
          None, Other, \* no interface; a member of the group "wg" that is no WireGuard device
          MaxChanges  \* bound: interfaces that come, go or change

ASSUME NamesAssumption == IsFiniteSet(Names) /\ NoName \notin Names
ASSUME KindsAssumption ==
  /\ Devices \subseteq DeviceState
  /\ None \notin DeviceState /\ Other \notin DeviceState /\ None # Other
ASSUME CallsAssumption ==
  /\ Platforms \subseteq {"freebsd", "openbsd"}
  /\ Ops \subseteq {"devices", "device", "configure"}
  /\ Configs \subseteq Config
ASSUME BoundsAssumption == MaxChanges \in Nat

VARIABLES
  platform, op, name, cfg,
  ctxDone,  \* the context has ended beforehand: nobody looks later
  pc,       \* "start", "fetch", "next", "ioctl", "checks", "set", "done"
  ifgrs,    \* Devices: the entries of the list that are left
  ds,       \* the devices so far, as <<name, what was read>>
  mem,      \* Device: the memory that the kernel writes to
  checks,   \* FreeBSD: update-only peers that are left to be checked for
  result,
  wg,       \* the kernel's interfaces
  changes,
  before,   \* history: the device that was configured, before it was
  stayed,   \* history: names with a device ever since the call began
  was       \* history: for each name, the devices it has been since

callVars == <<platform, op, name, cfg, ctxDone, pc, ifgrs, ds, mem, checks, result, before>>
envVars  == <<wg, changes, stayed, was>>
vars == <<callVars, envVars>>

IsDevice(n) == n \in Names /\ wg[n] \notin {None, Other}

TypeOK ==
  /\ platform \in Platforms /\ op \in Ops /\ name \in Names
  /\ cfg \in IF op = "configure" THEN Configs ELSE {Nil}
  /\ ctxDone \in BOOLEAN
  /\ pc \in {"start", "fetch", "next", "ioctl", "checks", "set", "done"}
  /\ ifgrs \in Seq(Names \union {NoName})
  /\ pc = "ioctl" /\ op = "devices" => ifgrs # <<>>
  /\ \A i \in DOMAIN ds : ds[i][1] \in Names
  /\ checks \in Nat
  /\ result \in {"none", "ok", "ctx", "notexist", "updateonly", "readonly", "error", "crash"}
  /\ (result = "none") = (pc # "done")
  /\ wg \in [Names -> DeviceState \union {None, Other}]
  /\ before \in DeviceState \union {None}
  /\ changes \in 0 .. MaxChanges
  /\ stayed \subseteq Names
  /\ was \in [Names -> SUBSET DeviceState]

\* The interfaces that the call asks for.
Concerned == IF op = "devices" THEN Names ELSE {name}

Init ==
  /\ platform \in Platforms /\ op \in Ops /\ name \in Names
  /\ op = "devices" => name = CHOOSE n \in Names : TRUE   \* not looked at
  /\ cfg \in IF op = "configure" THEN Configs ELSE {Nil}
  /\ ctxDone \in BOOLEAN
  /\ pc = "start"
  /\ ifgrs = <<>> /\ ds = <<>> /\ mem = <<>>
  /\ checks = 0
  /\ result = "none"
  /\ wg \in [Names -> Devices \union {None, Other}]
  /\ \A n \in Names \ Concerned : wg[n] = None
  /\ changes = 0
  /\ before = None
  /\ stayed = {n \in Names : IsDevice(n)}
  /\ was = [n \in Names |-> {wg[n]} \ {None, Other}]

Return(res) == pc' = "done" /\ result' = res

-----------------------------------------------------------------------------
(* Devices.                                                                *)

Members == {n \in Names : wg[n] # None}

\* FreeBSD looks at the context in Devices and ConfigureDevice, OpenBSD in
\* Devices only.
LooksAtCtx == op = "devices" \/ (platform = "freebsd" /\ op = "configure")

Cancelled ==
  /\ pc = "start" /\ LooksAtCtx /\ ctxDone
  /\ Return("ctx")
  /\ UNCHANGED <<platform, op, name, cfg, ctxDone, ifgrs, ds, mem, checks, before, envVars>>

\* The first SIOCGIFGMEMB: how many members the group has.  A group without
\* members is not found.
CountMembers ==
  /\ pc = "start" /\ op = "devices" /\ ~ ctxDone
  /\ IF Members = {}
     THEN Return("error") /\ UNCHANGED ifgrs
     ELSE /\ ifgrs' = [i \in 1 .. Cardinality(Members) |-> NoName]
          /\ pc' = "fetch" /\ UNCHANGED result
  /\ UNCHANGED <<platform, op, name, cfg, ctxDone, ds, mem, checks, before, envVars>>

\* Mutant: no look at the second call's error.
FetchMembersIgnored ==
  /\ pc = "fetch"
  /\ IF Members = {} \/ Cardinality(Members) > Len(ifgrs)
     THEN ifgrs' = <<>>
     ELSE \E ms \in SetToSeqs(Members) :
            ifgrs' = ms \o SubSeq(ifgrs, Len(ms) + 1, Len(ifgrs))
  /\ pc' = "next" /\ UNCHANGED result
  /\ UNCHANGED <<platform, op, name, cfg, ctxDone, ds, mem, checks, before, envVars>>

\* The second one: their names.  The kernel fails if the memory is too small
\* by now; if it is too large, the entries at the end keep their zeros.
FetchMembers ==
  /\ pc = "fetch"
  /\ IF Members = {} \/ Cardinality(Members) > Len(ifgrs)
     THEN Return("error") /\ UNCHANGED ifgrs
     ELSE /\ \E ms \in SetToSeqs(Members) :
               ifgrs' = ms \o SubSeq(ifgrs, Len(ms) + 1, Len(ifgrs))
          /\ pc' = "next" /\ UNCHANGED result
  /\ UNCHANGED <<platform, op, name, cfg, ctxDone, ds, mem, checks, before, envVars>>

\* for _, ifgr := range ifgrs
NextMember ==
  /\ pc = "next"
  /\ IF ifgrs = <<>>
     THEN Return("ok") /\ UNCHANGED mem
     ELSE pc' = "ioctl" /\ mem' = <<>> /\ UNCHANGED result
  /\ UNCHANGED <<platform, op, name, cfg, ctxDone, ifgrs, ds, checks, before, envVars>>

-----------------------------------------------------------------------------
(* Device, for one of the list or for the name of the call.                *)

Target == IF op = "devices" THEN Head(ifgrs) ELSE name

OneDevice ==
  /\ pc = "start" /\ op = "device"
  /\ pc' = "ioctl" /\ mem' = <<>>
  /\ UNCHANGED <<platform, op, name, cfg, ctxDone, ifgrs, ds, checks, result, before, envVars>>

\* An error of Device: it ends the call, except where FreeBSD looks for
\* os.ErrNotExist before it configures.
DeviceErrs(err) ==
  IF op = "configure" /\ platform = "freebsd"
  THEN IF err = "notexist"
       THEN pc' = "checks" /\ checks' = checks - 1 /\ UNCHANGED result
       ELSE Return("updateonly") /\ UNCHANGED checks
  ELSE Return(err) /\ UNCHANGED checks

\* What was read is returned, listed, or only shows that the device exists.
DeviceIs(walk) ==
  CASE op = "devices" ->
         /\ ds' = Append(ds, <<Target, walk>>)
         /\ ifgrs' = Tail(ifgrs)
         /\ pc' = "next" /\ UNCHANGED result
    [] op = "device" ->
         ds' = <<<<Target, walk>>>> /\ Return("ok") /\ UNCHANGED ifgrs
    [] op = "configure" ->
         /\ Return(IF platform = "freebsd" THEN "updateonly" ELSE "readonly")
         /\ UNCHANGED <<ds, ifgrs>>

\* ENXIO, or EINVAL (FreeBSD) or ENOTTY (OpenBSD).
NoDevice ==
  /\ pc = "ioctl" /\ ~ IsDevice(Target)
  /\ DeviceErrs("notexist")
  /\ UNCHANGED <<platform, op, name, cfg, ctxDone, ifgrs, ds, mem, before, envVars>>

\* Any other error; or, on OpenBSD, fewer bytes than an interface takes.
IoctlFails ==
  /\ pc = "ioctl"
  /\ DeviceErrs("error")
  /\ UNCHANGED <<platform, op, name, cfg, ctxDone, ifgrs, ds, mem, before, envVars>>

Need == Len(Pack(wg[Target]))

\* Mutant: the memory of the first turn has to do.
TooSmallOnce ==
  /\ pc = "ioctl" /\ IsDevice(Target)
  /\ Need > Len(mem) /\ mem # <<>>
  /\ UNCHANGED vars

\* The kernel writes nothing into memory that is too small, or that is not
\* there yet, and says how much it needs; the loop goes on with so much.
TooSmall ==
  /\ pc = "ioctl" /\ IsDevice(Target)
  /\ Need > Len(mem)
  /\ mem' = Zeros(Need)
  /\ UNCHANGED <<platform, op, name, cfg, ctxDone, pc, ifgrs, ds, checks, result,
                 before, envVars>>

\* Mutant: whatever the second ioctl says, its memory is read.
FitsSecondTime ==
  /\ pc = "ioctl" /\ IsDevice(Target)
  /\ mem # <<>>
  /\ mem' = IF Need > Len(mem) THEN mem
            ELSE Pack(wg[Target]) \o SubSeq(mem, Need + 1, Len(mem))
  /\ DeviceIs(Walk(mem'))
  /\ UNCHANGED <<platform, op, name, cfg, ctxDone, checks, before, envVars>>

\* It fits: what is behind it stays zero.
Fits ==
  /\ pc = "ioctl" /\ IsDevice(Target)
  /\ Need <= Len(mem)
  /\ mem' = Pack(wg[Target]) \o SubSeq(mem, Need + 1, Len(mem))
  /\ DeviceIs(Walk(mem'))
  /\ UNCHANGED <<platform, op, name, cfg, ctxDone, checks, before, envVars>>

\* FreeBSD hands all of the memory to nvlist_unpack, which may refuse a list
\* that is shorter, and does not look whether it did: nvlist_next gets NULL.
UnpackFails ==
  /\ pc = "ioctl" /\ IsDevice(Target)
  /\ platform = "freebsd" /\ Need < Len(mem)
  /\ Return("crash") /\ UNCHANGED checks
  /\ UNCHANGED <<platform, op, name, cfg, ctxDone, ifgrs, ds, mem, before, envVars>>

-----------------------------------------------------------------------------
(* ConfigureDevice.                                                        *)

UpdateOnlyPeers(x) == {i \in DOMAIN x.Peers : x.Peers[i].UpdateOnly}

\* OpenBSD reads the device; FreeBSD does so for each update-only peer.
StartConfigure ==
  /\ pc = "start" /\ op = "configure" /\ ~ (LooksAtCtx /\ ctxDone)
  /\ IF platform = "openbsd"
     THEN pc' = "ioctl" /\ UNCHANGED checks
     ELSE pc' = "checks" /\ checks' = Cardinality(UpdateOnlyPeers(cfg))
  /\ mem' = <<>>
  /\ UNCHANGED <<platform, op, name, cfg, ctxDone, ifgrs, ds, result, before, envVars>>

\* Mutant: the peers are not looked through.
UpdateOnlyChecksNone ==
  /\ pc = "checks"
  /\ pc' = "set" /\ mem' = mem
  /\ UNCHANGED <<platform, op, name, cfg, ctxDone, ifgrs, ds, checks, result, before, envVars>>

UpdateOnlyChecks ==
  /\ pc = "checks"
  /\ IF checks = 0 THEN pc' = "set" /\ UNCHANGED mem ELSE pc' = "ioctl" /\ mem' = <<>>
  /\ UNCHANGED <<platform, op, name, cfg, ctxDone, ifgrs, ds, checks, result, before, envVars>>

\* Mutant: replace-allowedips is left out.
UnparseNoReplace(x) ==
  [x EXCEPT !.awg = Nil,
            !.Peers = [i \in DOMAIN @ |->
              [@[i] EXCEPT !.UpdateOnly = FALSE, !.ReplaceAllowedIPs = FALSE,
                           !.AdvancedSecurity = FALSE, !.DisableAdvancedSecurity = FALSE]]]

\* unparseConfig, unparsePeerConfig: the nvlist has no entry for what is
\* AmneziaWG's, and none for UpdateOnly.
Unparse(x) ==
  [x EXCEPT !.awg = Nil,
            !.Peers = [i \in DOMAIN @ |->
              [@[i] EXCEPT !.UpdateOnly = FALSE,
                           !.AdvancedSecurity = FALSE, !.DisableAdvancedSecurity = FALSE]]]

\* SIOCSWG: the kernel does with the list what Config says of its fields.
Set ==
  /\ pc = "set"
  /\ IF IsDevice(name)
     THEN /\ wg' = [wg EXCEPT ![name] = Configured(@, Unparse(cfg))]
          /\ was' = [was EXCEPT ![name] = @ \union {wg'[name]}]
          /\ before' = wg[name]
          /\ Return("ok")
     ELSE Return("notexist") /\ UNCHANGED <<wg, was, before>>
  /\ UNCHANGED <<platform, op, name, cfg, ctxDone, ifgrs, ds, mem, checks, changes, stayed>>

\* The list cannot be made, or the kernel stops at one of its peers; the
\* EINVAL it says then is taken for that of another kind of interface.
SetFails ==
  /\ pc = "set"
  /\ Return("error") \/ Return("notexist")
  /\ \/ UNCHANGED <<wg, was>>
     \/ /\ IsDevice(name)
        /\ \E n \in 0 .. Len(cfg.Peers) :
             wg' = [wg EXCEPT ![name] =
                      Configured(@, [Unparse(cfg) EXCEPT !.Peers = SubSeq(@, 1, n)])]
        /\ was' = [was EXCEPT ![name] = @ \union {wg'[name]}]
  /\ UNCHANGED <<platform, op, name, cfg, ctxDone, ifgrs, ds, mem, checks, before,
                 changes, stayed>>

-----------------------------------------------------------------------------
(* The interfaces, external.                                               *)

\* An interface comes, goes, or is configured by another program.
InterfaceChanges(n, w) ==
  /\ pc # "done" /\ changes < MaxChanges
  /\ n \in Concerned /\ w # wg[n]
  /\ wg' = [wg EXCEPT ![n] = w]
  /\ changes' = changes + 1
  /\ stayed' = IF w \in {None, Other} THEN stayed \ {n} ELSE stayed
  /\ was' = [was EXCEPT ![n] = @ \union ({w} \ {None, Other})]
  /\ UNCHANGED callVars

\* The steps of a call that need no failure.
Step ==
  \/ Cancelled \/ CountMembers \/ FetchMembers \/ NextMember \/ OneDevice
  \/ NoDevice \/ TooSmall \/ Fits
  \/ StartConfigure \/ UpdateOnlyChecks \/ Set

Next ==
  \/ Step \/ IoctlFails \/ UnpackFails \/ SetFails
  \/ \E n \in Names, w \in Devices \union {None, Other} : InterfaceChanges(n, w)

Spec == Init /\ [][Next]_vars

\* The caller's goroutine runs, and the kernel answers every ioctl.
FairSpec == Spec /\ WF_vars(Step)

-----------------------------------------------------------------------------
\* A device is its name: there is no second place to look for it.
Present(names) == {<<n, platform>> : n \in names}

\* What FreeBSD's kernel refuses to do with a device, EINVAL, looks as if it
\* were not there: of ConfigureDevice's os.ErrNotExist nothing can be said.
EinvalHides == IF platform = "freebsd" /\ op = "configure" THEN {name} ELSE {}

B == INSTANCE Backend WITH
       there  <- Present({n \in Names : IsDevice(n)}),
       begun  <- TRUE,
       stayed <- Present(stayed),
       seen   <- Present({n \in Names : was[n] # {}}),
       hidden <- EinvalHides,
       unfit  <- {},
       result <- CASE result \in {"none", "ok"} -> result
                   [] result = "notexist" /\ op # "devices" -> result
                   [] result = "crash" -> "none"   \* never answers
                   [] OTHER -> "error",
       found  <- IF result # "ok" THEN {}
                 ELSE IF op = "configure" THEN Present({name})
                 ELSE Present({ds[i][1] : i \in DOMAIN ds})

-----------------------------------------------------------------------------
(* Properties.                                                             *)

\* Both backends keep the promises of a backend: an interface that stays is in
\* the list and Device never says that it does not exist, though others come
\* and go between the two ioctls and before their turn.
ImplementsBackend == B!Spec

\* "The caller must loop again": whatever happens between the ioctl that asks
\* for the size and the one that fetches the data, a device that is returned
\* is one that the kernel had under that name during the call; never one that
\* was not written, written in part, or cut at the wrong places.
ReadsWhole ==
  \A i \in DOMAIN ds : \E d \in was[ds[i][1]] : Tells(ds[i][2], d)

\* But for AmneziaWG's fields, which FreeBSD does not have.
Plain(x) ==
  [x EXCEPT !.awg = Nil,
            !.Peers = [i \in DOMAIN @ |->
              [@[i] EXCEPT !.AdvancedSecurity = FALSE, !.DisableAdvancedSecurity = FALSE]]]

\* ConfigureDevice returned nil: the device is what the plain part of the
\* configuration means.  FreeBSD's kernel does not know UpdateOnly and would
\* create the peer: such a configuration gets through only if the device came
\* while it was looked for.
SetAsAsked ==
  (op = "configure" /\ result = "ok") =>
    \/ wg[name] = Configured(before, Plain(cfg))
    \/ UpdateOnlyPeers(cfg) # {} /\ name \notin stayed

\* A call comes to its end as soon as the device stops growing (on FreeBSD it
\* may be the end of UnpackFails).
CallReturns == <>(pc = "done")
=============================================================================
