------------------------------ MODULE PackedDevice ------------------------------
(***************************************************************************)
(* A device in one block of memory, as the ioctls of OpenBSD and Windows   *)
(* exchange it: the interface with its number of peers, then each peer     *)
(* with its number of allowed IPs, each followed by those.  Nothing says   *)
(* where a structure begins: whoever reads adds up what came before it.    *)
(* A structure is one word here; the nvlist of FreeBSD, which is opaque to *)
(* the library, stands in the same form.                                   *)
(***************************************************************************)
EXTENDS DeviceConfig

\* val: the interface's or the peer's fields, or the allowed IP; count: of
\* the structures that follow and belong to it.
Word(type, val, count) == [type |-> type, val |-> val, count |-> count]

\* What make([]byte, n) returns, for each word.
Zero == Word("zero", Nil, 0)
Zeros(n) == [i \in 1 .. n |-> Zero]

-----------------------------------------------------------------------------
(* Writing, external.                                                      *)

PackPeer(key, fields, ips) ==
  <<Word("peer", [key |-> key, fields |-> fields], Len(ips))>>
  \o [i \in DOMAIN ips |-> Word("ip", ips[i], 0)]

\* The peers and their allowed IPs in some order.
Pack(d) ==
  LET ks == SetToSeq(DOMAIN d.peers)
  IN  <<Word("interface", d.dev, Len(ks))>>
      \o FlattenSeq([i \in DOMAIN ks |->
           PackPeer(ks[i], d.peers[ks[i]].opts, SetToSeq(d.peers[ks[i]].ips))])

\* What is read is the device: every peer once, with its fields and allowed IPs.
Tells(walk, d) ==
  /\ walk.fields = d.dev
  /\ Len(walk.peers) = Cardinality(DOMAIN d.peers)
  /\ \A k \in DOMAIN d.peers : \E i \in DOMAIN walk.peers :
       /\ walk.peers[i].val = [key |-> k, fields |-> d.peers[k].opts]
       /\ ToSet(walk.peers[i].ips) = d.peers[k].ips
       /\ Len(walk.peers[i].ips) = Cardinality(d.peers[k].ips)

-----------------------------------------------------------------------------
(* Reading.                                                                *)

\* What is behind the end of the block is not known; here it is zero.
At(mem, i) == IF i \in DOMAIN mem THEN mem[i] ELSE Zero

\* NextPeer: behind the peer and its allowed IPs.
NextPeer(mem, at) == at + 1 + At(mem, at).count

\* The allowed IPs of the peer at that place.
AllowedIPs(mem, at) == [j \in 1 .. At(mem, at).count |-> At(mem, at + j).val]

\* One turn: the peer at that place, and the place of the next.
Turn(mem, walk) ==
  [at    |-> NextPeer(mem, walk.at),
   peers |-> Append(walk.peers, [val |-> At(mem, walk.at).val,
                                 ips |-> AllowedIPs(mem, walk.at)])]

\* The first peer is behind the interface; none is read yet.
FirstPeer == [at |-> 2, peers |-> <<>>]

\* As many turns as the interface counts.
Walk(mem) ==
  LET turn(walk, i) == Turn(mem, walk)
      end == FoldLeft(turn, FirstPeer, [i \in 1 .. At(mem, 1).count |-> i])
  IN  [fields |-> At(mem, 1).val, peers |-> end.peers]
=============================================================================
