------------------------------ MODULE MCBSDClient ------------------------------
(***************************************************************************)
(* BSDClient with two names, each of them a WireGuard device of zero, one  *)
(* or two peers, another interface, or nothing.                            *)
(***************************************************************************)
EXTENDS BSDClient

AllPlatforms == {"freebsd", "openbsd"}
AllOps == {"devices", "device", "configure"}

Device(dev, peers) == [dev |-> dev, awg |-> Nil, peers |-> peers]
Peer(ips) == [opts |-> "o1", adv |-> FALSE, ips |-> ips]

SmallDevices ==
  {Device("v1", NoPeers),
   Device("v1", "k1" :> Peer({"a1"})),
   Device("v2", "k1" :> Peer({"a1"}) @@ "k2" :> Peer({}))}

PeerOf(key, updateOnly, remove, ips, replace) ==
  [PublicKey |-> key, Remove |-> remove, UpdateOnly |-> updateOnly, opts |-> Nil,
   ReplaceAllowedIPs |-> replace, AllowedIPs |-> ips,
   AdvancedSecurity |-> FALSE, DisableAdvancedSecurity |-> FALSE]

Settings(peers) == [dev |-> Nil, awg |-> "v1", ReplacePeers |-> FALSE, Peers |-> peers]

\* The k1 of the devices loses its allowed IP, is removed, or is replaced
\* together with the fields of the device; one or two peers are update-only.
SmallConfigs ==
  {Settings(<<PeerOf("k1", FALSE, FALSE, <<>>, TRUE)>>),
   Settings(<<PeerOf("k1", FALSE, TRUE, <<>>, FALSE),
              PeerOf("k2", FALSE, FALSE, <<"a1">>, FALSE)>>),
   [Settings(<<PeerOf("k2", FALSE, FALSE, <<"a1">>, FALSE)>>)
      EXCEPT !.ReplacePeers = TRUE, !.dev = "v2"],
   Settings(<<PeerOf("k1", TRUE, FALSE, <<"a1">>, FALSE)>>),
   Settings(<<PeerOf("k1", TRUE, FALSE, <<"a1">>, FALSE),
              PeerOf("k2", TRUE, FALSE, <<>>, FALSE)>>)}

=============================================================================
