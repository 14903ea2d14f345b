----------------------------- MODULE LinuxConfigure -----------------------------
(***************************************************************************)
(* Client.ConfigureDevice of internal/wglinux/client_linux.go: the family  *)
(* is chosen by the kind of the link, the configuration is split into      *)
(* batches (Batches), and each batch is one request to the kernel.  Calls  *)
(* from several goroutines interleave batch by batch; a batch may fail     *)
(* when some of it has been applied; the context may end, the link may be  *)
(* replaced and other programs may remove peers between two batches.       *)
(*                                                                         *)
(* A caller in the domain of cfg makes one call, and repeats it when it    *)
(* fails.                                                                  *)
(***************************************************************************)
EXTENDS Batches, FiniteSets

CONSTANTS Callers,
          Workloads,   \* functions from callers to the configurations they pass
          Devices,     \* what the device may hold beforehand
          Hosts,       \* families and versions the Client may have found
          MaxTries,    \* bound: attempts, after which nobody tries again
          MaxRestarts, \* bound: times the link is removed
          MaxRemovals  \* bound: peers removed by other programs

\* Goroutines of one program.
ASSUME CallersAssumption == IsFiniteSet(Callers)
ASSUME WorkloadsAssumption ==
  \A w \in Workloads : DOMAIN w \subseteq Callers /\ \A c \in DOMAIN w : w[c] \in Config
ASSUME DevicesAssumption == Devices \subseteq DeviceState

VARIABLES
  host,      \* wg, amnezia: the family was found; tooNew: its version is unknown
  link,      \* the kind of the link with this name, or "none"
  device,    \* what the kernel holds for it
  cfg,       \* each caller's configuration
  pc,        \* "idle", "batch" (between two batches), "done"
  family,    \* the family chosen by familyFor
  todo,      \* the batches that are left
  result,    \* what ConfigureDevice returned
  ctxDone,   \* ctx.Err() # nil
  tries, restarts, removals,
  origin,    \* history: the device without any caller's doing
  disturbed  \* history: somebody else interfered with a call under way

callVars == <<cfg, pc, family, todo, result, ctxDone, tries>>
vars == <<host, link, device, callVars, restarts, removals, origin, disturbed>>

-----------------------------------------------------------------------------
(* The kernel's side of WG_CMD_SET_DEVICE, external.                       *)

WithoutPeer(peers, k) == [x \in DOMAIN peers \ {k} |-> peers[x]]

\* One peer of a request.  An allowed IP belongs to one peer at a time.
SetPeer(peers, m) ==
  LET exists == m.key \in DOMAIN peers
      old    == IF exists THEN peers[m.key] ELSE NewPeer
      new    == [opts |-> IF m.opts = Nil THEN old.opts ELSE m.opts,
                 adv  |-> IF "HAS_ADVANCED_SECURITY" \in m.flags THEN m.adv ELSE old.adv,
                 ips  |-> ToSet(m.ips) \union
                          IF "REPLACE_ALLOWEDIPS" \in m.flags THEN {} ELSE old.ips]
  IN  CASE ~ exists /\ m.flags \intersect {"REMOVE_ME", "UPDATE_ONLY"} # {} -> peers
        [] exists /\ "REMOVE_ME" \in m.flags -> WithoutPeer(peers, m.key)
        [] OTHER ->
             [k \in DOMAIN peers \union {m.key} |->
                IF k = m.key THEN new
                ELSE [peers[k] EXCEPT !.ips = @ \ ToSet(m.ips)]]

\* A request of which the first n peers are processed.
SetDevice(d, req, n) ==
  [dev   |-> IF req.dev = Nil THEN d.dev ELSE req.dev,
   awg   |-> IF req.awg = Nil THEN d.awg ELSE req.awg,
   peers |-> FoldLeft(SetPeer, IF req.replace THEN NoPeers ELSE d.peers,
                      SubSeq(req.peers, 1, n))]

\* The WireGuard family refuses a request with attributes it does not know.
Understood(req, fam) ==
  fam = "wireguard" =>
    /\ req.awg = Nil
    /\ \A i \in DOMAIN req.peers : "HAS_ADVANCED_SECURITY" \notin req.peers[i].flags

-----------------------------------------------------------------------------
TypeOK ==
  /\ host \in Hosts
  /\ link \in {"none", "wireguard", "amneziawg"}
  /\ device \in DeviceState
  /\ cfg \in Workloads
  /\ pc \in [Callers -> {"idle", "batch", "done"}]
  /\ family \in [Callers -> {"none", "wireguard", "amneziawg"}]
  /\ todo \in [Callers -> Seq(Config)]
  /\ \A c \in Callers : pc[c] = "batch" <=> todo[c] # <<>>
  /\ result \in [Callers -> {"none", "ok", "ctx", "notexist", "version",
                             "notsupported", "encode", "errno"}]
  /\ ctxDone \in [Callers -> BOOLEAN]
  /\ tries \in [Callers -> Nat]
  /\ disturbed \in BOOLEAN

Init ==
  /\ host \in Hosts
  /\ link \in {"wireguard", "amneziawg"}
  /\ device \in {d \in Devices : link = "wireguard" =>
                   d.awg = Nil /\ \A k \in DOMAIN d.peers : ~ d.peers[k].adv}
  /\ cfg \in Workloads
  /\ pc = [c \in Callers |-> "idle"]
  /\ family = [c \in Callers |-> "none"]
  /\ todo = [c \in Callers |-> <<>>]
  /\ result = [c \in Callers |-> "none"]
  /\ ctxDone = [c \in Callers |-> FALSE]
  /\ tries = [c \in Callers |-> 0]
  /\ restarts = 0 /\ removals = 0
  /\ origin = device
  /\ disturbed = FALSE

Return(c, res) ==
  /\ result' = [result EXCEPT ![c] = res]
  /\ pc' = [pc EXCEPT ![c] = "done"]
  /\ todo' = [todo EXCEPT ![c] = <<>>]

-----------------------------------------------------------------------------
(* Before the first batch: ctx.Err(), familyFor and hasAWGFields.          *)

\* The family familyFor finds for the link's kind.
Served ==
  \/ link = "wireguard" /\ host.wg
  \/ link = "amneziawg" /\ host.amnezia

Refusal(c) ==
  CASE ctxDone[c]                                  -> {"ctx"}
    [] ~ ctxDone[c] /\ ~ Served                    -> {"notexist", "errno"}
    [] ~ ctxDone[c] /\ Served /\ link = "amneziawg" /\ host.tooNew -> {"version", "errno"}
    [] ~ ctxDone[c] /\ Served /\ link = "wireguard" /\ HasAWGFields(cfg[c])
                                                   -> {"notsupported", "errno"}
    [] OTHER                                       -> {"errno"}

\* The call ends before anything is sent; "errno" is a failed rtnetlink
\* request.
Refuse(c) ==
  /\ pc[c] = "idle"
  /\ \E res \in Refusal(c) : Return(c, res)
  /\ tries' = [tries EXCEPT ![c] = @ + 1]
  /\ UNCHANGED <<host, link, device, cfg, family, ctxDone, restarts, removals,
                 origin, disturbed>>

Start(c) ==
  /\ pc[c] = "idle"
  /\ Refusal(c) = {"errno"}
  /\ family' = [family EXCEPT ![c] = link]
  /\ todo' = [todo EXCEPT ![c] = BuildBatches(cfg[c])]
  /\ pc' = [pc EXCEPT ![c] = "batch"]
  /\ tries' = [tries EXCEPT ![c] = @ + 1]
  /\ UNCHANGED <<host, link, device, cfg, result, ctxDone, restarts, removals,
                 origin, disturbed>>

-----------------------------------------------------------------------------
(* One round of the loop over the batches.                                 *)

BatchCancelled(c) ==
  /\ pc[c] = "batch"
  /\ ctxDone[c]
  /\ Return(c, "ctx")
  /\ UNCHANGED <<host, link, device, cfg, family, ctxDone, tries, restarts,
                 removals, origin, disturbed>>

EncodeFails(c) ==
  /\ pc[c] = "batch"
  /\ ~ ctxDone[c]
  /\ ~ Encodable(Head(todo[c]))
  /\ Return(c, "encode")
  /\ UNCHANGED <<host, link, device, cfg, family, ctxDone, tries, restarts,
                 removals, origin, disturbed>>

Sends(c) == pc[c] = "batch" /\ ~ ctxDone[c] /\ Encodable(Head(todo[c]))

\* ENODEV or ENOTSUP: the link is gone or of another kind.
DeviceGone(c) ==
  /\ Sends(c)
  /\ link # family[c]
  /\ Return(c, "notexist")
  /\ UNCHANGED <<host, link, device, cfg, family, ctxDone, tries, restarts,
                 removals, origin, disturbed>>

Accepted(c) ==
  LET req == ConfigAttrs(Head(todo[c]))
  IN  /\ Sends(c)
      /\ link = family[c]
      /\ Understood(req, link)
      /\ device' = SetDevice(device, req, Len(req.peers))
      /\ IF Len(todo[c]) = 1
         THEN Return(c, "ok")
         ELSE /\ todo' = [todo EXCEPT ![c] = Tail(@)]
              /\ UNCHANGED <<pc, result>>
      /\ UNCHANGED <<host, link, cfg, family, ctxDone, tries, restarts,
                     removals, origin, disturbed>>

\* The request fails with another errno, or the context ends while the
\* caller waits for the answer: the kernel has applied nothing, or the
\* device's fields and the first n peers.
Rejected(c) ==
  LET req == ConfigAttrs(Head(todo[c]))
  IN  /\ Sends(c)
      /\ link = family[c]
      /\ \/ UNCHANGED device
         \/ /\ Understood(req, link)
            /\ \E n \in 0 .. Len(req.peers) : device' = SetDevice(device, req, n)
      /\ \/ Return(c, "errno") /\ UNCHANGED ctxDone
         \/ Return(c, "ctx") /\ ctxDone' = [ctxDone EXCEPT ![c] = TRUE]
      /\ UNCHANGED <<host, link, cfg, family, tries, restarts, removals,
                     origin, disturbed>>

-----------------------------------------------------------------------------
(* The callers and the rest of the system.                                 *)

\* A caller that got an error calls again, with a new context.
Retry(c) ==
  /\ pc[c] = "done"
  /\ result[c] # "ok"
  /\ FoldFunction(+, 0, tries) < MaxTries
  /\ pc' = [pc EXCEPT ![c] = "idle"]
  /\ ctxDone' = [ctxDone EXCEPT ![c] = FALSE]
  /\ UNCHANGED <<host, link, device, cfg, family, todo, result, tries, restarts,
                 removals, origin, disturbed>>

CtxEnds(c) ==
  /\ pc[c] # "done"
  /\ ~ ctxDone[c]
  /\ ctxDone' = [ctxDone EXCEPT ![c] = TRUE]
  /\ UNCHANGED <<host, link, device, cfg, pc, family, todo, result, tries,
                 restarts, removals, origin, disturbed>>

\* Some caller has begun: what happens to the device now happens to its call.
UnderWay == \E c \in Callers : tries[c] > 0

LinkRemoved ==
  /\ link # "none"
  /\ restarts < MaxRestarts
  /\ link' = "none"
  /\ restarts' = restarts + 1
  /\ device' = NewDevice /\ origin' = NewDevice
  /\ disturbed' = (disturbed \/ UnderWay)
  /\ UNCHANGED <<host, callVars, removals>>

LinkCreated ==
  /\ link = "none"
  /\ link' \in {"wireguard", "amneziawg"}
  /\ UNCHANGED <<host, device, callVars, restarts, removals, origin, disturbed>>

\* Another program removes a peer.
PeerRemoved(k) ==
  /\ k \in DOMAIN device.peers
  /\ removals < MaxRemovals
  /\ removals' = removals + 1
  /\ device' = [device EXCEPT !.peers = WithoutPeer(@, k)]
  /\ origin' = [origin EXCEPT !.peers = WithoutPeer(@, k)]
  /\ disturbed' = (disturbed \/ UnderWay)
  /\ UNCHANGED <<host, link, callVars, restarts>>

Set(c) == Accepted(c) \/ Rejected(c)

Next ==
  \/ \E c \in DOMAIN cfg :
       \/ Refuse(c) \/ Start(c) \/ BatchCancelled(c) \/ EncodeFails(c)
       \/ DeviceGone(c) \/ Set(c) \/ Retry(c) \/ CtxEnds(c)
  \/ LinkRemoved \/ LinkCreated
  \/ \E k \in Keys : PeerRemoved(k)

Spec == Init /\ [][Next]_vars

-----------------------------------------------------------------------------
(* Properties.                                                             *)

KeysOf(x) == {x.Peers[i].PublicKey : i \in DOMAIN x.Peers}
IPsOf(x) == UNION {ToSet(x.Peers[i].AllowedIPs) : i \in DOMAIN x.Peers}

\* Neither configuration touches what the other one sets.
Independent(x, y) ==
  /\ ~ x.ReplacePeers /\ ~ y.ReplacePeers
  /\ x.dev = Nil \/ y.dev = Nil
  /\ x.awg = Nil \/ y.awg = Nil
  /\ KeysOf(x) \intersect KeysOf(y) = {}
  /\ IPsOf(x) \intersect IPsOf(y) = {}

\* ConfigureDevice returned nil: the device is what one indivisible
\* application of the configuration would have made of it, however it was
\* split, however many attempts failed half-way before, and whatever
\* independent calls ran in between.
SuccessMeansConfigured ==
  (/\ \A c \in DOMAIN cfg : result[c] = "ok"
   /\ \A c, d \in DOMAIN cfg : c # d => Independent(cfg[c], cfg[d])
   /\ ~ disturbed)
  => device = FoldLeft(LAMBDA d, c : Configured(d, cfg[c]), origin, SetToSeq(DOMAIN cfg))

\* An AmneziaWG setting for a WireGuard link is refused before any batch is
\* sent, so no half of the configuration is left on the device.
AWGRefusedWhole ==
  (/\ link = "wireguard"
   /\ \A c \in DOMAIN cfg : ~ Understood(ConfigAttrs(cfg[c]), "wireguard"))
  => device = origin

\* A peer that is only to be updated, or to be removed, is never created, not
\* even by a late batch after another program has removed it.
UpdateOnlyNeverCreates ==
  [][\A k \in DOMAIN device'.peers \ DOMAIN device.peers :
       \E c \in DOMAIN cfg : \E i \in DOMAIN cfg[c].Peers :
         /\ cfg[c].Peers[i].PublicKey = k
         /\ ~ cfg[c].Peers[i].UpdateOnly
         /\ ~ cfg[c].Peers[i].Remove]_vars

\* Once a call is past its first batch it removes no peer but those it was
\* asked to remove: a late batch does not undo an earlier one, of this call
\* or of another.
LateBatchesOnlyAdd ==
  [][\A c \in DOMAIN cfg :
       (pc[c] = "batch" /\ device' # device /\ todo'[c] # todo[c]
          /\ Len(todo[c]) < Len(BuildBatches(cfg[c])))
       => \A k \in DOMAIN device.peers \ DOMAIN device'.peers :
            \E i \in DOMAIN cfg[c].Peers :
              cfg[c].Peers[i].PublicKey = k /\ cfg[c].Peers[i].Remove]_vars

\* "Only pointer fields which are not nil will be applied when configuring a
\* peer", and those that are not nil are: a peer the call leaves on the
\* device has the pointer fields that are not nil in the last entry for it.
PointerFieldsApplied ==
  \A c \in DOMAIN cfg : \A i \in DOMAIN cfg[c].Peers :
    LET p == cfg[c].Peers[i]
        last == \A j \in DOMAIN cfg[c].Peers :
                  j > i => cfg[c].Peers[j].PublicKey # p.PublicKey
    IN  (/\ result[c] = "ok" /\ pc[c] = "done" /\ ~ disturbed
         /\ last /\ ~ p.Remove /\ ~ p.UpdateOnly /\ p.opts # Nil)
        => device.peers[p.PublicKey].opts = p.opts
=============================================================================
