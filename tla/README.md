# A verification development for awgctrl-go

TLA+ modules, TLC runs and TLAPS proofs kept beside the Go library `awgctrl-go`,
which reads and configures WireGuard and AmneziaWG devices: through generic
netlink on Linux, through the UAPI socket of a userspace daemon, through ioctls on
Windows, FreeBSD and OpenBSD. Paths below are relative to the repository.

- [Inventory](#inventory)
- [Modules and how they correspond to the code](#modules-and-how-they-correspond-to-the-code)
- [Runs](#runs)
- [Fairness](#fairness)
- [Proofs](#proofs)
- [Findings](#findings)
- [Not modelled](#not-modelled)
- [Plan](#plan)

## Inventory

| part | files | state | operations |
|---|---|---|---|
| composite client | `client.go`, `os_*.go` | the list of backends | `Devices`, `Device`, `ConfigureDevice`, `Close` |
| request bounded by a context | `internal/wglinux/client_linux.go` (`withContext`, `execute`) | one netlink socket per family: its deadline, its lock, its receive queue | one call: arm, request, check, disarm |
| Linux: configuring | `internal/wglinux/client_linux.go`, `configure_linux.go` | the kernel's device; the batches that are left | `familyFor`, `buildBatches`, one request per batch |
| Linux: reading | `client_linux.go`, `parse_linux.go` | the devices found so far; the fragments of a dump | `Devices`, `Device`, `parseDeviceLoop`, `mergeDevices` |
| Linux: start-up | `client_linux.go` (`New`, `initClient`) | families and their versions | `New` |
| values | `wgtypes/validate.go`, `wgtypes/types.go` | a `Config` | `Validate`, `InitPacketSize`, `GenerateAmneziaParams` |
| userspace | `internal/wguser` | none kept; a connection per operation, to a UNIX socket or a named pipe | find sockets, get, set |
| Windows | `internal/wgwindows` | cached interface paths, last answer's length | `interfaceHandle`, grow-and-retry get |
| FreeBSD, OpenBSD | `internal/wgfreebsd`, `internal/wgopenbsd` | a control socket | size-then-fetch get, set |

**Interaction.** A program calls the composite client, from any number of
goroutines. The client validates a configuration, reads the device back if only
part of a group is set, and asks its backends in turn; `os.ErrNotExist` means
"try the next one". The Linux backend picks a family by the kind of the link
(rtnetlink), splits a large configuration, and sends each batch through
`withContext`, which all calls on one `Client` share. The kernel, other programs
that change links and peers, and the contexts of the callers act in between.

**What is hard.**

- *One socket, many contexts.* The deadline that interrupts I/O belongs to the
  socket. `context.AfterFunc` runs in a goroutine of its own, which may be late.
  The reply to an interrupted request stays in the socket.
- *One configuration, many requests.* Only the first chunk of a peer may replace
  its allowed IPs or create it; only the first batch may replace the peers. Any
  batch may fail half-way, the context may end between two of them, the link may
  be replaced by one of another kind, another program may remove the peer that is
  being built, and another goroutine's batches may come in between.
- *Check, then set.* A partial update is validated against the device as it was
  read; nothing locks the device until it is set.
- *Narrow encodings.* Go `int`s become 16-bit and 32-bit attributes.
- *Lists that age.* A link, a socket file, a cached path, a group of interfaces: each is
  read, then used while what it stands for goes away, changes its kind or comes back as
  another.
- *Sizes that age.* The ioctls are asked for a size, then for so much data; the device
  grows or shrinks in between, and where a structure begins in the memory depends on
  the counts before it.
- *Answers in pieces.* A netlink dump is cut at any place and the device may change
  in between; a daemon's answer may stop at any line.
- *Several backends with one device.* The composite client must choose the same
  one in all its operations.
- *Random parameters.* The rarest draws must still give a valid configuration.

**What makes each part correct.**

- A call returns once its context ends or its deadline passes; it leaves nothing
  behind that disturbs the next one; it reads its own reply.
- `ConfigureDevice` returning nil means that the device is what one indivisible
  application of the configuration would have made of it. A setting the family
  does not know is refused before anything is applied.
- A value arrives on the device as it was asked for, or the call fails. A conflict
  is reported as such; a bare `EINVAL` only when the check could not see it.
- A generated configuration is a valid one.
- A backend that fails does not hide the devices of another, and none of them comes
  twice. `Device`, `ConfigureDevice` and `Devices` mean the same device by a name;
  a configuration that fails on one backend, perhaps half-way, is not tried on another
  that has the name too, unless the first one's device went or was denied
  (`os.ErrNotExist`).
- What is listed is what was there: a device that stays during the call is listed,
  one that goes makes no failure, a dump in fragments yields each peer once with
  everything that was sent for it.
- A stale socket file hides no live device but one of its own name; a cached path hides or
  exchanges an adapter only if adapters were created after it was cached.
- Memory that the kernel fills is read as far as it was filled, and only if it was.

`PROJECT.json` lists each hazard with its line and the properties that would
catch it.

## Modules and how they correspond to the code

### NetlinkContext

`Client.withContext` (and the part of `execute` that uses the socket).

| model | code |
|---|---|
| `kind`, `timeUp`, `ctxDone` | the call's context: can it end, has it a deadline, is that past, has it ended |
| `pc` | the statement `withContext` is at: `set` the deadline, `arm` AfterFunc, `lock`/`send`/`receive` inside `fn`, `check` of `ctx.Err()`, then the deferred function's `stop`, `join` (`<-fired`) and `clear` |
| `after` | the AfterFunc goroutine: armed, stopped, started, has moved the deadline, has closed `fired` |
| `deadline`, `lock`, `asked`, `replies` | the one socket: whose deadline it has (or none, or `time.Unix(1, 0)`), who holds the connection's lock, what the kernel still has to answer, what is queued |

Each step that another goroutine may separate from the next is an action:
`SetCtxDeadline`, `Arm`, `Lock`, `Send`, `Receive`, `Timeout`, `Check`, `Stop`,
`Join`, `Clear` for the caller, `MoveDeadline` and `CloseFired` for AfterFunc's
goroutine. `KernelAnswers`, `TimePasses` and `CtxEnds` are the surroundings.
Whether sockets support deadlines is chosen initially.

### DeviceConfig, Batches and LinuxConfigure

`DeviceConfig` says what a `Config` is and means, whichever backend applies it:
`Configured(d, x)` is the reference, written from the meaning of `Config` and
`PeerConfig` as the comments of `wgtypes/types.go` give it, with sets and no order of
processing. `LinuxConfigure`, `UAPI` and `BSDClient` are checked against it. `DeviceState`
is what a kernel or a daemon may hold.

`Batches` holds the pure part: `hasAWGFields`, `shouldBatch`, `buildBatches`,
`encodePeer`, `configAttrs`. Optional values (keys, port, mark; the AmneziaWG
parameters; preshared key, endpoint and keepalive of a peer) are grouped by what
the code does with them alike: `dev`, `awg` and `opts`. Flags, chunking, order and
the duplicate-key bookkeeping are kept as they are.

`LinuxConfigure` is `Client.ConfigureDevice` around it: `Start` and `Refuse` up to
the first batch (context, `familyFor`, version, `hasAWGFields`), then per batch
`BatchCancelled`, `EncodeFails`, `DeviceGone`, `Accepted`, `Rejected`. A rejected
request may have been applied in part, the device's fields and a prefix of the
peers: the kernel works through them in order. The environment retries failed
calls, removes and creates the link, and removes peers. A member of `Workloads` says
who calls with which configuration: one caller, or several.

### Validate, AWGConfigure, Generate, AWGSetup

`Validate` is `Config.Validate` and its helpers, with a header as its two numbers
and an init packet as its parsed tags, and the integer conversions of
`configure_linux.go`. Integers keep their width: `Uint16` and `Uint32` wrap.

`AWGConfigure` is the composite client's `ConfigureDevice` up to and including
the set: `ValidateFails`, `NoRead`, `ReadFails`, `Read` (with `mergeAWG`), then
`NotSupported`, `SetOK`, `SetFails`. Other callers' sets come between `Read` and
`SetOK`. `KernelAccepts` is the AmneziaWG module's own check, external, as the
comments of `validate.go` and `ConfigureDevice` describe it.

`Generate` is `GenerateAmneziaParams`, a step per group of draws, from what `Draws`
says of `math/rand`: `rand.IntN` is a constant operator, and all that is assumed is
that a result is below its argument. `InitPacketSize`, a loop with a running sum and
early returns, is compared with a definition over all tags at once (`SizeAgrees`, in
`Validate`).

`AWGSetup` composes the two (`AWGSetupProofs` has the theorems of all three): a program
that generates a configuration and passes it to `ConfigureDevice`. It extends `AWGConfigure` and instantiates `Generate` with its own
`drawing` for `pc`; its other behaviours are those of `AWGConfigure`, with callers that
bring their own configurations. `GeneratedIsApplied` spans both: what is generated
passes `Validate`, is whole enough not to need the device read, and is accepted by the
kernel whatever the device held.

### Backend

The specification of what the Go interface `Client` of `internal/wginternal` promises,
whichever package implements it; it knows devices, one call, and its answer, and
nothing of how the answer comes about. A device is its name and its place (a directory,
a kind, a backend), which tells devices of one name apart. A call takes time, so that
its answer need not be true of any one moment of it: `stayed` and `seen` are the devices
that there were all along, and at some time. `Lists` leaves none of the former out and
makes none up that is not of the latter, `Finds` returns or configures one of the name,
`NotExist` (`os.ErrNotExist`) is said only of a name that was not there all along,
`Fails` is any other error.

Two parameters are what an implementation may ask for: `hidden`, names it may miss (a
userspace daemon behind a stale file of its name, a FreeBSD interface whose kernel refuses a
configuration with the errno that also means "not a WireGuard interface"), and `unfit`, devices it cannot speak
to (a family of a later version). `Userspace`, `LinuxDevices`, `BSDClient` and `Client`
each instantiate it with a refinement mapping and have `ImplementsBackend == B!Spec` as
a property. `Client` in turn has backends that keep `Backend` and may have `hidden` names
(`Denies`); its own `hidden` is the name that was asked for once a backend has denied it.
Its lists it takes from backends that miss nothing. A call that crashes or
panics has no answer: its result is mapped to `"none"`. `WindowsClient` does not
implement it: its cache outlives a call, so that its answers may be about a path whose
adapter was removed, or replaced by one of another name, before the call began;
`OnlyStaleHides` and `HadTheName` say how far that goes.

### Client

The composite client of `client.go`, one call over `N` backends. `at` is the backend
whose turn it is; `Devices` is `AskForList`, then the backend's `Lists` or
`ListFails`, then `Keep` for each device; `Device` and `ConfigureDevice` are `NotThere`
(`os.ErrNotExist`: the next one), `Denies` (the same of a device that is there), `Succeeds`,
`Fails`, with `ReadSucceeds` and `ReadFails` for the read of a partial update; `Close` is
`CloseNext`. Before a backend answers a `ConfigureDevice` it may have applied a part of it
(`AppliesPart`): if then the link goes, its answer is `os.ErrNotExist` and the loop goes on. A backend is
external: it lists what was there all the while (`low`) and nothing that was not there
at any time (`high`), which is what `Backend` says and `Userspace`, `LinuxDevices` and
`BSDClient` are shown to keep; and the composite client keeps it itself
(`ImplementsBackend`). Devices come and go between any two steps. `Validate` and the
merge of a partial update are in `AWGConfigure`.

### UAPI and Userspace

`UAPI` is one exchange with a daemon (`verb` is `"get"` or `"set"`, `stage` where the client
is, `outcome` what it returns): `Request` (`writeConfig`, with the values that
would break a line), the parser of the answer (`Parse`, `StartPeer`, `PeerParse`,
`SetHandshake`) line by line, and the daemon, which handles a set request line by line, refuses, dies
at any line, which it may leave cut short (`Cut`), or is late. The daemon is external: it is what `configure.go` and `parse.go`
take it for, the cross-platform UAPI. Fields that both sides treat alike are grouped
as in `DeviceConfig`; seconds and nanoseconds of a handshake are apart because they
arrive apart.

`Userspace` is the calls around it. `sock` says for each name in each directory
whether there is no file, a file nobody listens on, or a daemon; on the platform
`"windows"` there is one directory, of pipes, which end with their daemon.
`SocketChanges` is a daemon that starts or exits at any time. `FindSockets` reads one directory,
`DialFails` has the one difference between `Devices` (passes over a dead socket) and
`Device`/`ConfigureDevice` (return the error). `DialErrs`,
`DialCancelled` and `DialNil` are the other outcomes of `dial`: a UNIX dial looks at the
context, a pipe's at its deadline only, and for a moment returns neither a connection
nor an error. `Answers`, `Refuses`, `HangUp`,
`Timeout` are the outcomes of `UAPI`.

### LinuxDump and LinuxDevices

`LinuxDump`: the kernel sends a device in messages, cut between two peers or between
two allowed IPs of one (`SendsPeers`, `SendsPart`, `SendsLast`), while other programs
remove and add peers; `ParseFirst`, `ParseNext`, `MergeKnown` and `MergeNew` are
`parseDevice` and `mergeDevices`, a peer at a time, with the index `knownPeers`. That the
kernel has no two peers of one key and no allowed IP twice (`StartsAssumption`) is how it
keeps them, a table by key and a trie by address; `PeerAdded` keeps both true.

`LinuxDevices`: `New` (`DialFails`), `initClient` (`LookUpWireGuard`, `LookUpAmnezia`), then `Devices` or
`Device`: `ListLinks`, and for each link `Check` (the context), `FamilyFor`/`NoFamily`/
`VersionTooNew`/`KindFails` (`familyFor`), `Get`/`GetNotExist`/`GetFails` (the fetch).
Links change their kind and modules are loaded between any two of these.

### WindowsClient

`client_windows.go`, calls in a row on one client. `cached` and `lastLenGuess` are the
client's fields, `adapters` the system's adapters by path. `Hit`, `Miss`, `NotFound`,
`OpenFails` are the turns of `interfaceHandle`'s loop, `MoreData` and `Gets` those of
`Device`'s, `Pick` those of `Devices`. A path is not used for another adapter while it
is open; otherwise adapters come, go and change at any time.

### PackedDevice and BSDClient

`PackedDevice` is a device in one block of memory, a word per structure, as the ioctls
exchange it: the interface, its peers, each followed by its allowed IPs. `Pack` is the
kernel's, `Walk` the library's, which adds up what came before to find where a peer
begins (`Turn` by `Turn` from `FirstPeer`, by `NextPeer`; the Windows structure has the same form, from which its name is
taken). FreeBSD's list, opaque to the library, stands in the same form.

`BSDClient` is one call of the FreeBSD or the OpenBSD backend (`platform`). `Devices` asks
twice for the members of the interface group (`CountMembers`, `FetchMembers`) and then
for each of them (`NextMember`). Every device is asked for twice at least: `TooSmall`, of
which the first turn with no memory at all is one, makes memory of the size the kernel
says, `Fits` reads it. What a shorter device leaves behind it in the memory is zero;
FreeBSD hands it to `nvlist_unpack` all the same (`UnpackFails`). FreeBSD's
`ConfigureDevice` looks for the device once for each update-only peer (`UpdateOnlyChecks`,
`DeviceErrs`) and sends what `Unparse` leaves of the configuration (`Set`, `SetFails`);
OpenBSD's looks for it and is read-only. `InterfaceChanges` is another program, between
any two steps.

`MC*` modules give the constants their values for TLC; the `*Proofs` modules hold the
theorems.

## Runs

| run | what it shows | bounds |
|---|---|---|
| `netlink` | no deadline outlives its call; interruptions have a cause; replies stay in step until somebody gives up; a call that is alone is bounded by its context; with a kernel that answers, every call returns | two calls, one after the other or at once, a kernel that may stay silent |
| `netlink_lost` | *violation*: see Findings | the same |
| `configure` | success means configured; AmneziaWG settings refused whole; no peer created that was to be updated only; late batches only add | one caller with two keys, three IPs and an invalid one; or two callers, one of which is split; a retry, one link removal, one peer removal |
| `configure_twice` | *violation*: see Findings | one configuration: a key removed, then added with a preshared key |
| `awg_setup` | values arrive as asked for; conflicts are reported, unless the check went stale through the other caller; what is generated is applied; the size of an init packet is the sum of its tags', or an error | two callers; values below, at and above each limit and beyond 2^16; updates of one or two fields; least and greatest draws, draws that collide, all shuffles; four tags of ten kinds |
| `client` | the promises of `Backend`; no device lost, doubled or from the wrong backend; all operations mean the same device; a second device is configured only if the first one went or was denied; no error forgotten | two backends, two names, lists of three, two changes |
| `uapi` | nil means configured; what is read is what the daemon holds; an errno is no field of it | two keys, two IPs, configurations of one or two peers, three devices |
| `userspace` | the promises of `Backend`; stale files hide nothing, the first of a name is meant; a deadline bounds every operation | UNIX sockets and named pipes; two names in two directories, two changes, daemons that need not answer |
| `linux_dump` | the device that is returned is the kernel's; no peer twice; nothing lost | up to three peers and four IPs, all cuts, two changes |
| `linux_devices` | the promises of `Backend`: a link that stays is seen, as what it is; a removal is no failure | two names, two changes |
| `windows` | only a stale path hides an adapter; an adapter of another name is reached only at a path where it was created since the cache was filled; what stays is listed; a call returns unless its open fails without end | two names, two paths, two calls, two changes, configurations below, at and above the first guess |
| `bsd` | the promises of `Backend`; what is read is whole; nil means configured, but for AmneziaWG's fields; every call returns | two interfaces of three devices with no, one or two peers, or no WireGuard; two changes; five configurations, two of them update-only |

**Why the bounds are enough.** Calls of `withContext` meet only at the socket; a
deadline, a lock or a reply is always one call's, so two calls show every way one
disturbs another, and two calls of one goroutine show everything that one call may
leave to the next. More calls are covered by the proofs. In `LinuxConfigure` a
batch takes one peer (`peerBatchChunk` is 32 in the code) and two IPs
(`ipBatchChunk` is 256): a peer with none, two or three IPs ends without a chunk,
on and after a boundary; two peers are split into batches of their own. Two attempts
give a retry after every possible half-way failure. In the modules about lists that
age, a call meets a change at one entry at a time: two changes let an entry go and
come back (with another kind, path or directory), or two entries change in one call;
two names tell "this one" from "another one". In `BSDClient` the
devices differ in the counts of peers and of allowed IPs, so that a device read with the
counts of another is none of the three. A peer with three allowed IPs is cut
twice, so that a piece in the middle exists. `Default` is 2 in place of 512 bytes, with
configurations of 1 to 3. `U32` stands at 2000000000
because TLC's integers are 32-bit; no modelled value depends on the difference,
and the proofs do not fix it.

Runs whose system ends by itself (a call returns, a configuration is done) do not
check for deadlock; `netlink` does, with an explicit final stutter once all calls are
done. No run lists a type invariant: it is a theorem of every module but `UAPI`, where
`ExchangeTypeOK` is checked while the module is changed (and what a get needs of the types
is part of the theorem's invariant).

## Fairness

Four modules have liveness properties. `NetlinkContext`'s `GoFairness` is weak
fairness of:

- each step of a call, and each of AfterFunc's goroutine: the Go scheduler runs
  every runnable goroutine eventually;
- taking the connection's lock, strongly where goroutines compete for it: a
  `sync.Mutex` in starvation mode hands over in order;
- `TimePasses`: clocks advance.

A context need not end (`CtxEnds` is not fair), and the kernel need not answer:
`EveryCallReturns` has it as its premise that no request stays unanswered, and
`AloneReturns` does without it.

`Userspace`'s `FairSpec` is weak fairness of `Caller`, the steps the calling goroutine
can make by itself, and of `TimePasses`. A daemon need not answer.

`BSDClient`'s `FairSpec` is weak fairness of `Step`, the steps of a call that no failure is
needed for: the caller runs, and the kernel answers every ioctl. That the loop of
`Device` ends rests on nothing else than that the device stops growing (`MaxChanges`).

`WindowsClient`'s `FairSpec` is weak fairness of `Step`, the steps of a call that no
failure is needed for. Nothing makes an open succeed: `CallReturns` has it as its premise
that opens fail finitely often (`<>[][~ OpenFails]_vars`). What it says is then that the
growing buffer and the loop of `interfaceHandle` end; the eighth observation below is what
happens without the premise.

## Proofs

All theorems hold for every value of the constants under the named `ASSUME`s: for any
number of backends, links, peers, calls, changes and batches, where a run has two or
three. What an `ASSUME` says beyond the sort of a constant is about the surroundings, and
TLC evaluates it in the runs:

| assumption | why the code may rely on it |
|---|---|
| `CallersAssumption`: the callers are finitely many | they are goroutines of one program |
| `NamesAssumption`: the names are finitely many | a directory or a list of links that is read ends |
| `WorkloadsAssumption`, `DevicesAssumption`, `ConfigsAssumption`, `CallsAssumption`, `KindsAssumption`, `HeldAssumption`: configurations and devices are of their types | Go's types, and the kernel's |
| `FiniteAssumption`: keys and allowed IPs are finitely many | keys are 32 bytes, allowed IPs a prefix of an address |
| `NilKeyAssumption`: no key stands for a peer that is ignored | `Nil` is `peer == nil` of a daemon, not a key |
| `GarbledAssumption`: a text that cannot be parsed is no key, no address, no number | it is what cannot be parsed |
| `DevicesAssumption` of `AWGConfigure`: the kernel accepts what the device has beforehand | it has been set through the same check |
| `StartsAssumption`: the peers of a device differ in their keys, and an allowed IP has one place | the kernel's tables, by key and by address |
| `IntNAssumption`: `rand.IntN` yields less than its argument | its documentation |
| `WideHeaders`: headers reach 1800 million at least | they are `uint32` |

Each module of theorems has an inductive invariant, whose parts are named for what they
say; TLC checked it on the runs' instances before it was proved, but for those of `UAPI`,
which quantify over the orders and places of lines (of these TLC checked the properties they
are for). Two modules hold the
theorems of two components each, which have nothing to do with one another but that they
need the same lemmas about sequences: `NetlinkProofs` those of `NetlinkContext` and
`LinuxDump`, `DeviceTransferProofs` those of `BSDClient` (over `PackedDevice`) and `UAPI`.
So that one module can extend both, the names of `LinuxDump` and `UAPI` differ from those
of the other two (`DumpSpec`, `ExchangeSpec`).

**NetlinkProofs: NetlinkContext.** The inductive invariant is `TypeOK`, plus
`AfterFuncDiscipline` (a call's AfterFunc state goes with its `pc`: nothing armed
before `arm`, nothing running at `clear`), plus `DeadlineOwner` (whatever deadline
the socket has, some call set it that has not passed `clear`). The last is what
`NoStaleDeadline` needs and does not say: that clearing too much is possible, but
leaving something behind is not. From it: `TypeCorrect`, `DeadlineNeverStale`,
`InterruptionHasACause`, `AfterFuncJoined`. `RepliesInStep` has an invariant of its
own: while nobody has given up, the queue holds at most the reply the one reader
waits for. `OneGoroutine` assumes `Goroutines = 1` and shows that then only one's
own context interrupts.

**LinuxConfigureProofs.** The batches come out of `FlattenSeq`, and the kernel takes the
peers of each in a `FoldLeft`. Both are recursive functions over a length; `FoldedExists` and
`JoinedExists` show, each by a smallest counterexample, that these functions exist, and
`RequestStays` that a fold stays in any set its steps stay in. So `Batched`: whatever
`buildBatches` makes of a configuration, each peer in it has the key and the flags of one
of the configuration's (`Agreeing`), and only the first batch replaces the peers. The
inductive invariant adds to the types what is left to send, a suffix of
`BuildBatches(cfg)` (`Remaining`); the family it goes to, AmneziaWG's if there are AmneziaWG
fields (`Chosen`); and that nothing else has been touched if all callers have such fields
(`Untouched`). `RefusedWhole` is `Untouched` at the end of a call. `NeverCreated` and
`LateBatches` are action properties: a step that changes the device is one request or a
part of one, of a batch that is left, of which `RequestApplied` says whom it can create and
remove.

`NilMeansConfigured` says that batches add up: the kernel folds `SetPeer` over the messages
of many requests, `Configured` says once and for all what becomes of a device. The two are
never computed side by side. Instead:

- A configuration absorbs its own messages (`MessageAbsorbed`, `HeadAbsorbed`): applied
  whole after one of them, or after none, it comes to the same. So a half-applied batch,
  and a retry of it, do no harm to what the configuration makes of the device in the end.
- The messages of an independent configuration may go before it or behind it
  (`MessageCommutes`, `HeadCommutes`). So `RequestTogether`: what all the configurations
  together come to (`Together`, the fold of the property) is the same before and after any
  part of any request. This is `SameInTheEnd`.
- What a call has sent so far holds of the device (`Reached`: what the first `n` of
  `AllMessages` asked for, and with `ReplacePeers` nothing but that), its own next batch
  extends it (`OwnRequest`, `BatchSays`), and independent callers keep it (`OthersKeep`).
  This is `Advancing`. At the end of the messages, `Configured` leaves the device as it is
  (`FinishedIs`).

When all calls have returned nil, applying all the configurations therefore changes nothing
(`TogetherSame`), and comes to what it would have come to at the start. TLC checked these
parts of the invariant (`CallInv`) on the instance of `configure`. The hypothesis is
`EachNamedOnce`, which the configurations of that run meet: of a key that is named twice
`Configured` does not say which entry's fields it gets, and the batches lose those of the
second entry (see the second finding).

**LinuxDevicesProofs.** The inductive invariant: what is returned was seen, and is of a
family that was found (`ReturnedWasSeen`); the family that was chosen for a link is the
link's own as long as it stays (`ChosenByKind`); a link that stays is still in the list or
has been fetched (`Covered`, itself the theorem `NothingLeftOut`). `RemovalHarmless` needs of
them only the types and `Phases`: every failure has a cause that is not a removal
(`FailedForAReason`). `KernelIsBackend` is the refinement: a call's end is `Lists`, by
`Covered` and `ReturnedWasSeen`, or `Finds`, `NotExist`, `Fails`; a change of a link is
`Change`; all others stutter.

**NetlinkProofs: LinuxDump.** `NoneTwice` and `NoneLost` hold whatever other programs
do: the kernel sends each peer once in a message (`KeysOnce`), `knownPeers` is the index of
the list that is being built (`Known`, in both directions), and what has been merged is in
it (`Kept`), where `Remaining` says how far that is. For `DumpExact` a dump is a sequence of
cuts. A cut (`Cut`) is a number of peers that are through and, if the next is open, how
many of its allowed IPs are. `InPieces` is its invariant: there are cuts, the first at the
start, such that each message is what lies between two of them (`Between`), the kernel's
cursor is at the last (`CursorAt`), and the list that is being built is the device up to a
cut (`Assembled`). `SendCuts` shows that whatever the kernel sends ends at a cut,
`MergeAssembles` that merging a message brings the list from one cut to the next; it is
there that a piece without attributes must meet its peer. When all is merged the cut is
the end, so that the list is the device.

**ClientProofs.** For any number of backends, names and changes. `Phases` ties the
position in the loop to the operation. `ListInv` is the invariant of `Devices`: what is
in `out` is what was `seen` (`SeenIsOut`), every device that stayed on a backend that
has been gone through without a failure is there (`Covered`), what the present one has
still to say is in `list` (`Pending`), and an entry's backend is not behind the loop.
`NothingHidden` and `FirstKept` (which has each name once, too) say only the first and last
of these about the end;
without `Pending` neither is inductive. `NameInv` says that the backends passed by name
did not have the device all along, or denied it (`Passed`), whatever they had applied by
then, and where the call is or ended (`EndsAt`): `NotExistCorrect`, `FirstCorrect`, and
`OneDeviceTouched`, of which the lesser of two backends that were touched has been passed.
`Checked` ties `readFrom` to the
position while nothing has changed: `CheckedCorrect`. `Joined` ties the errors and the
closed backends to the position: `ErrorsCorrect`, `CloseCorrect`. `ClientIsBackend`:
`Spec => B!Spec`. That nothing is left out is `Covered`, `Pending` and `Passed`; what is
new is that nothing is made up, `FoundWasThere`: whatever is listed, kept or found was on
its backend at some time (`EverGrows`: the history only grows), and `EndsWell`. With these,
the steps that end a call are `Lists`, `Finds`, `NotExist`, `Fails` or `Closes` of
`Backend`, those of the surroundings are `Change`, and all others stutter.

**UserspaceProofs.** A daemon that was there all along is still to be asked or has answered,
if its directory has been read (`Covered`); the sockets to be asked are in the order of the
directories (`InOrder`); what answers was there (`AnsweredWasThere`); and what was seen has
a file (`SocketsRemembered`). `StaleHarmless` is `Covered` at the end of `Devices`;
`FoundOrShadowed` and `FirstIsMeant` need `InOrder` as well: only the head of the list is
asked, and what precedes it is of an earlier directory. `UserspaceIsBackend` is the refinement,
with the names behind stale files as `hidden`.

**WindowsClientProofs.** The invariant is about the cache over several calls: a cached path
still has the adapter it was cached for, or none, or one that was created there since
(`CacheWasTrue`), and `Devices` goes through a cache that it
filled itself and that nothing fills again before its end (`Listing`), so that an adapter
that stays is cached, under its path, and is listed, to come or being read (`Covered`).
With it `OnlyStaleHides`, `HadTheName` and `ListsWhatStayed` are inductive.

**AWGSetupProofs.** Of `AWGConfigure`: `EncodingLossless`, what `Validate` accepts wraps
nowhere. `TypeCorrect`, and from it `ValuesAsAsked`. `ConflictsReported` by the invariant
`SafeToSet`: unless a partial update went unchecked or its device changed since,
applying it gives a device the kernel accepts. Two lemmas carry it: `MergeAccepted`
(if the merged values pass `Validate`, so does the outcome) and `WholeAccepted`
(groups set whole need no look at the device). It holds whichever caller moves, since
every change of the device marks the others as raced. Of `Generate`: the k-th range ends
at most at 170 + 180k million, which gives `NoSignedOverflow`; ranges are in increasing
order, so any permutation of them is pairwise disjoint: `NumbersAndHeadersValid`. Of the
two composed: `GeneratedApplied`, what is generated passes `Validate`, needs no look at the
device and is accepted, whatever it was. The init packets are one tag each, over which
`InitPacketSize`'s fold can be computed (`OneTagFits`); `GeneratorInv` ties the caller to the
generator, and the rest of `SetupInv` is the invariants of the parts. `SetupTypeCorrect`,
`SetupValuesAsAsked` and `SetupConflictsReported` carry the theorems of `AWGConfigure` over to
the specification that is run.

**DeviceTransferProofs: BSDClient.** `WalkTells`: whatever a device holds and whatever is
behind it in the memory, walking over it tells the device. `Pack` is a `FlattenSeq` of the
peers' blocks, `Walk` a fold; `Flattened` gives the place of each block, and `WalkReads`
goes from turn to turn with the place that was added up (`TurnReads`). The fold exists by a
smallest counterexample (`TurnedExists`, `TurnByTurn`). With it the inductive invariant `Inv` is
about who looked at what and when: what was read is a device that was under that name
during the call (`ReadsWhole`, by `Remembered`: what an interface is, it was), names that
stay are in the list or read (`Covered`), the update-only checks are counted (`Counted`), and
`SetAsAsked` itself. `ReadsTheDevice`, `SetRight`, `TypeCorrect` follow; `BSDIsBackend` is the
refinement, with a lemma for each kind of answer (`ErrorAnswer`, `NoneAnswer`, `FoundAnswer`,
`ListAnswer`).

**DeviceTransferProofs: UAPI.** `GetRight`, for whatever a daemon holds and any order of its
lines. The invariant (`Getting`) relates what is still to be read with what the parser holds:
while the daemon lives, either there is a whole answer of which the lines that are left are
the rest, and the parser holds what the lines before them tell (`InAnswer`); or all that is
left is its empty line, and everything is told (`AllRead`); or there is the errno of a daemon
that failed, on whichever line, and the parser will have an error (`Doomed`). `Places` says
where in the answer each peer begins; `InHeader`, `UpTo` and `Partly` say what the parser holds
among the device's fields, between two peers, and after some lines of one: of the peer's
lines an optional one tells its value from its line on and is `Nil` or 0 before it
(`KnownBy`), which is where a handshake time of the peer before would show. `ReadStep` is the
step from line to line, `DoomedStep` that an error stays. Once the daemon is dead the
invariant claims nothing more: see the 15th observation.

`DaemonSetRight`, for whatever a daemon held before. A request is a sequence of lines of which
the head, each peer's key and each peer's fields have their places (`RequestIs`, `PlacesIn`).
The invariant (`Setting`) says how far the daemon is (`Heeding`): it holds what the head's
lines so far mean, or what the first peers configure (`Behind`, that is `Configured` of them
alone), or in addition what the lines so far tell of the next peer (`WithLines`); a peer's
lines come in the code's order, so that the allowed IPs are behind the flag that clears them
(`FieldStep`). Then `ConfiguredStep`, which is about `DeviceConfig` alone: one more entry whose
key is new changes what is configured by just this entry; and `AllTaken`: at the empty line
the device is what the configuration means. What the daemon answers it answers for a reason
(`Answered`), and what the client takes for `errno=0` is not a part of another answer
(`CutRefusal`). The theorem has the hypothesis `EachNamedOnce`: of a key that is named twice
`Configured` does not say which entry's fields it gets (see the second finding); the
configurations of the run have it.

Some theorems are about properties no run lists, because a stronger neighbour is
checked there or they follow from the types: `AfterFuncJoined`, `OneGoroutine`,
`EncodingLossless`, `NoSignedOverflow`, `NumbersAndHeadersValid`, `CloseCorrect`,
`NotExistCorrect` and `NothingLeftOut` (of which `ImplementsBackend` says
more), and the `TypeCorrect` of each module.

**Only model-checked.**

- Liveness: `AloneReturns`, `EveryCallReturns`, `DeadlineReturns`, `CallReturns`. The prover
  has neither fairness nor `ENABLED`.
- `SizeIsSum`, which compares a fold with a sum over all tags; for the one tag that is
  generated see `OneTagFits`.

## Findings

1. **A call that was cancelled may block for good** (`netlink_lost`). `withContext`
   clears the socket's deadline on its way out, whoever set it. If another call
   was interrupted while it waited for the lock, its interruption is erased.
2. **A key named twice loses its fields when the configuration is split**
   (`configure_twice`). `buildBatches` passes the preshared key, endpoint,
   keepalive and `ReplaceAllowedIPs` with the first batch of a key only: a peer that is
   removed in one batch and added again in the next is created without its preshared key.

**Observed** while modelling, each a behaviour of the model (but the 13th) that no run is made for:

1. The manual configuration of `docs/EXAMPLES.md` is refused: "Magic header ranges (must
   not overlap)" (line 126), but H2 (400000000-480000000, line 128) and H4
   (350000000-430000000, line 130) do, and `Validate` says so
   (`wgtypes/validate.go:124`).
2. A stale socket is no "not exist". A daemon that exited uncleanly leaves its socket
   file; `Device` of the userspace backend then returns ECONNREFUSED
   (`internal/wguser/client.go:90`), which is not `os.ErrNotExist`, though `client.go:90`
   says of a device that does not exist that the error can be checked so. (In
   `Userspace`: `DialFails` with `res = "refused"`.)
3. A daemon that exits a moment later hides the others. `Devices` goes on only if
   dialling fails because nobody listens (`internal/wguser/client.go:58`); if the daemon
   exits after the dial, EPIPE or ECONNRESET ends the call, although "one dead socket must
   not hide the other devices" (lines 53-55). (`HangUp` with the cause `"died"`.)
4. A module loaded later is not noticed. `initClient` looks the families up once
   (`internal/wglinux/client_linux.go:73`); devices of a family that comes later are
   missing from `Devices`, without an error, while the client lives, against "Devices
   retrieves all WireGuard devices on this system" (`client.go:50`). (`NoFamily`.)
5. A failed lookup counts as a missing family (line 78): without the wireguard family,
   any error of the amneziawg lookup leaves the kernel backend out silently, though "if
   both are strictly missing (NotExist)" is the condition of the comment (line 90).
   (`LookUpAmnezia`.)
6. An adapter that is removed hides the others on Windows. `Devices` returns nil and the
   error of the first adapter that is gone by its turn
   (`internal/wgwindows/client_windows.go:131`). (`NotFound`.)
7. An adapter that was created again is said to be missing. A cached path that is not
   there is not refreshed (line 111); the comment has the cache "refreshed on cache miss"
   (line 21). `OnlyStaleHides` shows that nothing else hides an adapter.
8. A failing open is repeated for ever. A cached path is never refreshed in the loop of
   `interfaceHandle` (line 94): while opening it fails otherwise than with
   ERROR_FILE_NOT_FOUND, the same open is made again, without a pause or a look at the
   context. `CallReturns` therefore has a premise. (`OpenFails`.)
9. Cancelling does not interrupt a userspace call. Only the deadline of the context is
   put on the connection (`internal/wguser/parse.go:32`); "All operations support
   `context.Context` for timeout and cancellation" (`docs/EXAMPLES.md:262`).
   `DeadlineReturns` is the part that holds.

10. A member that goes hides the others on FreeBSD and OpenBSD. `Devices` returns nil and
   the error of the first member of the group that is gone by its turn, or is no
   WireGuard interface; a group that shrinks between the two ioctls leaves empty names,
   which fail likewise; and without any interface in the group `Devices` is an error
   (`internal/wgopenbsd/client_openbsd.go:103`, `internal/wgfreebsd/client_freebsd.go:110`).
   (`NoDevice`, `CountMembers`.)
11. AmneziaWG's settings are dropped silently on FreeBSD: `unparseConfig` has no entry for
   them and nothing refuses them (`internal/wgfreebsd/client_freebsd.go:510`), though
   `wgtypes/errors.go:9-10` has `ErrAWGNotSupported` for that. `SetAsAsked` is about the rest.
   On FreeBSD, too, any error of `Device` but `os.ErrNotExist` becomes
   `ErrUpdateOnlyNotSupported` (line 185), and an `EINVAL` with which the kernel refuses a
   configuration becomes `os.ErrNotExist` (line 216), on which the composite client goes on
   to the next backend, and configures a second device if that has one of the name.
   (`SetFails`; `EinvalHides` takes it out of `ImplementsBackend`; `Denies` in `Client`.)
12. A device that shrinks between the ioctls leaves `nvlist_unpack` with more memory than
   its list takes; whether that is refused is the C library's affair, but a refusal is not
   noticed (`internal/wgfreebsd/internal/nv/decode.go:18`). (`UnpackFails`.)
13. OpenBSD forgets a handshake at a whole second: the condition is `Sec > 0 && Nsec > 0`
   (`internal/wgopenbsd/client_openbsd.go:263`), the comment says "if a non-zero timespec was
   provided".
14. The dial of a named pipe returns `nil, ctx.Err()` once the deadline is past
   (`internal/wguser/conn_windows.go:34`), which is `nil, nil` until the context's own timer has
   fired: the caller then uses a nil connection. (`DialNil`.)
15. A daemon that dies while it answers may leave a line cut short: the shorter value is
   taken, and with it the end of the answer (`internal/wguser/parse.go:60`). (`DaemonDies`, `Cut`.)
16. On Windows a cached path is opened without a look at whose it is now
   (`internal/wgwindows/client_windows.go:107`): if the adapter was removed and one of another
   name was created at its path, `Device` returns that one's configuration under the old name
   (line 180) and `ConfigureDevice` changes it, though `client.go:90-91` promises
   `os.ErrNotExist` for a device that does not exist. (`Created`, then `Hit` and `Opens`;
   `HadTheName` says that it takes an adapter created since the cache was filled.)
17. A configuration may change two devices of one name. When the link goes between two of
   Linux's batches, the error of the second is `os.ErrNotExist`
   (`internal/wglinux/client_linux.go:333-336`), the composite client goes on
   (`client.go:143-144`), and a device of the name on the next backend gets the whole
   configuration, its peers included, and the call returns nil. (`AppliesPart`, `Vanishes`,
   `NotThere`, `Succeeds`; `OneTouched` says that nothing but this and a denial leads there.)

## Not modelled

Key generation, formatting and redaction. Memory layouts (nv lists, ioctl structures), the
building of the Windows structure and all cgo and system-call bindings: they have no control
of their own; of reading them, `PackedDevice` has what depends on counts. The command-line tool,
and `os_*.go`, which makes the list of backends that `Client` has as its constant `N`. The text
forms of headers and init packets are taken as parsed. `AWGConfigure` has one backend; the
fall-through over several is `Client`'s. `WindowsClient` has one goroutine at a time: the cache
is not synchronised, and the documentation does not say that a client may be shared; it does
not implement `Backend`, see there. `LinuxDevices` reads devices whole, the fragments are
`LinuxDump`'s, and its requests are bounded by `NetlinkContext`: the three are not composed, since
`LinuxDevices` uses of the others only that a fetch succeeds, fails or finds nothing. A dump that
another program's change interrupts is in `LinuxDump`, but nothing promises what it yields
beyond `NoPeerTwice` and `NothingLost`. That replies may be dropped by the kernel for want of
buffer space is not distinguished from a kernel that does not answer. Numbers of peers and
allowed IPs that overflow their counters in the ioctl structures are not modelled.

## Plan

Done: `NetlinkContext`, `DeviceConfig`/`Batches`/`LinuxConfigure`, `Validate`/`AWGConfigure`/
`Draws`/`Generate`/`AWGSetup`, `Backend`, `Client`, `UAPI`/`Userspace`, `LinuxDump`/`LinuxDevices`,
`WindowsClient`, `PackedDevice`/`BSDClient`; the theorems of all of them, with `LinuxDevices`,
`Userspace`, `BSDClient` and `Client` shown to be a `Backend`. Next, in this order:

1. An abstract `ConfigureDevice` (one indivisible application of `Configured`) that
   `LinuxConfigure`, `UAPI` and `BSDClient` implement while nothing fails.
2. A weaker `Backend`, of which a call may answer for what was there since the client was
   made, for `WindowsClient`; several goroutines in it, if the cache is to be shared.
