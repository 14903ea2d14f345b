---------------------------- MODULE MCLinuxConfigure ----------------------------
(***************************************************************************)
(* LinuxConfigure on two peers and three allowed IPs.  A batch holds two   *)
(* IPs and a configuration of more than one peer is split, so a peer takes *)
(* one batch or two and its IPs end before, on and after a boundary.       *)
(***************************************************************************)
EXTENDS LinuxConfigure

CONSTANTS a, b,           \* callers
          k1, k2,         \* keys
          i1, i2, i3, bad \* allowed IPs; bad is refused by isValidIP

MCKeys   == {k1, k2}
MCIPs    == {i1, i2, i3, bad}
MCOpts   == {"psk"}
MCValues == {"v"}

Peer(k, mode, opts, replace, ips, adv) ==
  [PublicKey |-> k, Remove |-> mode = "remove", UpdateOnly |-> mode = "update",
   opts |-> opts, ReplaceAllowedIPs |-> replace, AllowedIPs |-> ips,
   AdvancedSecurity |-> adv = "on", DisableAdvancedSecurity |-> adv = "off"]

Device(dev, awg, peers) ==
  [dev |-> dev, awg |-> awg, ReplacePeers |-> FALSE, Peers |-> peers]

Modes == {"set", "update", "remove"}

\* One peer, split when it has three IPs.
OnePeer ==
  {[Device("v", Nil, <<Peer(k1, mode, opts, replace, ips, adv)>>)
      EXCEPT !.ReplacePeers = rp] :
     mode \in Modes, opts \in {Nil, "psk"}, replace \in BOOLEAN, rp \in BOOLEAN,
     ips \in {<<>>, <<i1, i2>>, <<i1, i2, i3>>, <<i1, i2, bad>>},
     adv \in {"keep", "on"}}

\* Two peers: always split.  The second peer may claim an IP of the first.
TwoPeers ==
  {[Device(Nil, awg[1], <<Peer(k1, m1, "psk", replace, <<i1, i2, i3>>, "keep"),
                          Peer(k2, m2, "psk", FALSE, ips, awg[2])>>)
      EXCEPT !.ReplacePeers = rp] :
     awg \in {<<"v", "keep">>, <<Nil, "off">>}, m1 \in Modes, m2 \in Modes,
     replace \in BOOLEAN, rp \in BOOLEAN, ips \in {<<>>, <<i3>>}}

\* Calls of two goroutines: the first one's peer is split, the second one has a
\* peer of its own, or the same peer, or replaces all peers.
First ==
  {Device("v", Nil, <<Peer(k1, mode, "psk", replace, <<i1, i2, i3>>, "keep")>>) :
     mode \in Modes, replace \in BOOLEAN}

Second ==
  {Device(Nil, Nil, <<Peer(k2, mode, "psk", TRUE, ips, "keep")>>) :
     mode \in {"set", "update"}, ips \in {<<bad>>, <<>>}}
  \union
  {Device(Nil, Nil, <<Peer(k1, "set", Nil, FALSE, <<i1, i2, i3>>, "keep")>>),
   [Device(Nil, "v", <<Peer(k2, "set", Nil, TRUE, <<i1, i2, i3>>, "on")>>)
      EXCEPT !.ReplacePeers = TRUE]}

\* The same key twice: the peer is removed, so that it starts afresh, and
\* added with a preshared key.
Twice ==
  {Device(Nil, Nil, <<Peer(k1, "remove", Nil, FALSE, <<>>, "keep"),
                      Peer(k1, "set", "psk", TRUE, <<i1>>, "keep")>>)}

\* Two peers without allowed IPs: two batches all the same.
BarePeers ==
  {Device("v", Nil, <<Peer(k1, m1, "psk", TRUE, <<>>, "keep"),
                      Peer(k2, m2, Nil, TRUE, <<>>, "keep")>>) :
     m1 \in Modes, m2 \in Modes}

Single == OnePeer \union TwoPeers \union BarePeers

\* One goroutine with every kind of configuration; or two.
Alone == [{a} -> Single]
Together == {[c \in {a, b} |-> IF c = a THEN x ELSE y] : x \in First, y \in Second}
Repeated == [{a} -> Twice]
AllWorkloads == Alone \union Together

Holds(peers) == [NewDevice EXCEPT !.peers = peers]
Has(opts, ips) == [opts |-> opts, adv |-> FALSE, ips |-> ips]

\* Beforehand: nothing, or two peers, one of which owns an IP to be moved.
MCDevices ==
  {Holds([k \in MCKeys |-> IF k = k1 THEN Has(Nil, {i1}) ELSE Has("psk", {i2})]),
   Holds([k \in {k1} |-> Has(Nil, {i2})])}

Both == [wg |-> TRUE, amnezia |-> TRUE, tooNew |-> FALSE]
MCHosts == {Both, [Both EXCEPT !.tooNew = TRUE], [Both EXCEPT !.amnezia = FALSE]}
=============================================================================
