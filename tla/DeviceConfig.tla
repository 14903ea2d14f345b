----------------------------- MODULE DeviceConfig -----------------------------
(***************************************************************************)
(* What a wgtypes.Config means, whichever backend applies it: the          *)
(* reference for the batches of netlink requests and for the lines of the  *)
(* userspace protocol.                                                     *)
(*                                                                         *)
(* A Config is a record                                                    *)
(*   dev          private key, listen port, firewall mark: one value       *)
(*   awg          Jc..I5, the AmneziaWG device parameters: one value       *)
(*   ReplacePeers                                                          *)
(*   Peers        a sequence of PeerConfigs                                *)
(* and a PeerConfig a record with the source's fields, opts standing for   *)
(* its three pointers PresharedKey, Endpoint, PersistentKeepaliveInterval, *)
(* which the code treats alike.  Nil is the nil pointer.                   *)
(***************************************************************************)
EXTENDS Integers, Sequences, SequencesExt, FiniteSetsExt

CONSTANTS Keys,       \* public keys
          IPs,        \* allowed IPs
          Opts,       \* values of a peer's pointer fields
          Values,     \* values of the device's fields
          Nil         \* the nil pointer

ASSUME NilAssumption == Nil \notin Opts \union Values
\* Keys are 32 bytes, allowed IPs a prefix of an address.
ASSUME FiniteAssumption == IsFiniteSet(Keys) /\ IsFiniteSet(IPs)

PeerConfig ==
  [PublicKey : Keys, Remove : BOOLEAN, UpdateOnly : BOOLEAN,
   opts : Opts \union {Nil}, ReplaceAllowedIPs : BOOLEAN, AllowedIPs : Seq(IPs),
   AdvancedSecurity : BOOLEAN, DisableAdvancedSecurity : BOOLEAN]

Config ==
  [dev : Values \union {Nil}, awg : Values \union {Nil}, ReplacePeers : BOOLEAN,
   Peers : Seq(PeerConfig)]

\* What the kernel or the daemon holds for a peer, for the peers of a
\* device, and for a device.
PeerState == [opts : Opts \union {Nil}, adv : BOOLEAN, ips : SUBSET IPs]
PeerStates == UNION {[ks -> PeerState] : ks \in SUBSET Keys}
DeviceState == [dev : Values \union {Nil}, awg : Values \union {Nil}, peers : PeerStates]

NoPeers == [k \in {} |-> {}]
NewPeer == [opts |-> Nil, adv |-> FALSE, ips |-> {}]
NewDevice == [dev |-> Nil, awg |-> Nil, peers |-> NoPeers]

\* The device after one indivisible application of x to d.
Configured(d, x) ==
  LET base      == IF x.ReplacePeers THEN {} ELSE DOMAIN d.peers
      Old(k)    == IF k \in base THEN d.peers[k] ELSE NewPeer
      entries   == DOMAIN x.Peers
      effective == {i \in entries : /\ ~ x.Peers[i].Remove
                                    /\ x.Peers[i].UpdateOnly => x.Peers[i].PublicKey \in base}
      Of(k)     == {i \in effective : x.Peers[i].PublicKey = k}
      removed   == {x.Peers[i].PublicKey : i \in {j \in entries : x.Peers[j].Remove}}
      \* the last entry that lists an IP gets it
      Claims(a) == {i \in effective : a \in ToSet(x.Peers[i].AllowedIPs)}
      Peer(k) ==
        [opts |-> IF \E i \in Of(k) : x.Peers[i].opts # Nil
                  THEN (CHOOSE p \in {x.Peers[i] : i \in Of(k)} : TRUE).opts
                  ELSE Old(k).opts,
         adv  |-> IF \E i \in Of(k) : x.Peers[i].AdvancedSecurity \/ x.Peers[i].DisableAdvancedSecurity
                  THEN \E i \in Of(k) : x.Peers[i].AdvancedSecurity
                  ELSE Old(k).adv,
         ips  |-> {a \in IPs :
                     IF Claims(a) # {} THEN x.Peers[Max(Claims(a))].PublicKey = k
                     ELSE /\ a \in Old(k).ips
                          /\ ~ \E i \in Of(k) : x.Peers[i].ReplaceAllowedIPs}]
  IN  [dev   |-> IF x.dev = Nil THEN d.dev ELSE x.dev,
       awg   |-> IF x.awg = Nil THEN d.awg ELSE x.awg,
       peers |-> [k \in (base \ removed) \union {x.Peers[i].PublicKey : i \in effective}
                   |-> Peer(k)]]
=============================================================================
