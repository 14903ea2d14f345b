--------------------------------- MODULE MCUAPI ---------------------------------
(***************************************************************************)
(* UAPI on two peers and two allowed IPs, one of which may change hands.   *)
(***************************************************************************)
EXTENDS UAPI

CONSTANTS k1, k2, i1, i2

MCKeys == {k1, k2}
MCIPs  == {i1, i2}

Peer(k, mode, opts, replace, ips) ==
  [PublicKey |-> k, Remove |-> mode = "remove", UpdateOnly |-> mode = "update",
   opts |-> opts, ReplaceAllowedIPs |-> replace, AllowedIPs |-> ips,
   AdvancedSecurity |-> mode = "update", DisableAdvancedSecurity |-> mode = "remove"]

Modes == {"set", "update", "remove"}

\* One peer or two, with texts that end in a line break or go on after it.
MCConfigs ==
  {[dev |-> "v", awg |-> awg, ReplacePeers |-> rp,
    Peers |-> <<Peer(k1, mode, opts, replace, ips)>>] :
     awg \in {Nil, "v", "cut", "more"}, rp \in BOOLEAN, mode \in Modes,
     opts \in {Nil, "psk"}, replace \in BOOLEAN, ips \in {<<>>, <<i2>>}}
  \union
  {[dev |-> Nil, awg |-> Nil, ReplacePeers |-> rp,
    Peers |-> <<Peer(k1, m1, Nil, replace, <<i1, i2>>), Peer(k2, m2, "psk", FALSE, ips)>>] :
     rp \in BOOLEAN, m1 \in Modes, m2 \in Modes, replace \in BOOLEAN, ips \in {<<>>, <<i1>>}}

MCAfterBreak(v) ==
  CASE v = "cut"  -> <<EmptyLine>>
    [] v = "more" -> <<Line("replace_peers", "true")>>
    [] OTHER      -> <<>>

Has(opts, ips) == [opts |-> opts, adv |-> FALSE, ips |-> ips]

MCDevices ==
  {NewDevice,
   [dev |-> "old", awg |-> "old", peers |-> [k \in {k1} |-> Has("psk", {i1, i2})]],
   [dev |-> "old", awg |-> Nil, peers |-> [k \in MCKeys |->
      IF k = k1 THEN Has(Nil, {i1}) ELSE Has("psk", {i2})]]}

MCHandshakes == {<<0, 0>>, <<1, 0>>, <<0, 1>>, <<1, 1>>}
=============================================================================
