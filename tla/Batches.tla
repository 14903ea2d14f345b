-------------------------------- MODULE Batches --------------------------------
(***************************************************************************)
(* How internal/wglinux/configure_linux.go turns a wgtypes.Config into the *)
(* netlink messages that carry it: a large configuration is split into     *)
(* batches of one peer and at most IPChunk allowed IPs, and each batch is  *)
(* encoded as one WG_CMD_SET_DEVICE request.                               *)
(***************************************************************************)
EXTENDS DeviceConfig

CONSTANTS Invalid,    \* those of IPs and Opts that isValidIP refuses
          IPChunk,    \* ipBatchChunk, 256 in the source
          PeerChunk   \* peerBatchChunk, 32 in the source

ASSUME ChunkAssumption == IPChunk \in Nat \ {0} /\ PeerChunk \in Nat
ASSUME InvalidAssumption == Nil \notin Invalid

\* Mutant: only the device's fields are looked at.
HasAWGDeviceFields(cfg) == cfg.awg # Nil

HasAWGFields(cfg) ==
  \/ cfg.awg # Nil
  \/ \E i \in DOMAIN cfg.Peers : \/ cfg.Peers[i].AdvancedSecurity
                                 \/ cfg.Peers[i].DisableAdvancedSecurity

ShouldBatch(cfg) ==
  \/ Len(cfg.Peers) > PeerChunk
  \/ FoldLeft(LAMBDA n, p : n + Len(p.AllowedIPs), 0, cfg.Peers) > IPChunk

\* Mutant: the last, shorter chunk is lost.
ChunkCountWhole(n) == IF n < IPChunk THEN 1 ELSE n \div IPChunk

\* How often the inner loop runs for a peer with n allowed IPs: a peer with
\* none has one chunk, and IPs that end on a boundary no empty last one.
ChunkCount(n) == IF n = 0 THEN 1 ELSE (n + IPChunk - 1) \div IPChunk

\* The j-th chunk of s.
Chunk(s, j) ==
  SubSeq(s, (j - 1) * IPChunk + 1,
            IF j * IPChunk < Len(s) THEN j * IPChunk ELSE Len(s))

\* The peers of all the batches, in order, each with the IPs of one chunk.
PeerChunks(cfg) ==
  FlattenSeq([i \in DOMAIN cfg.Peers |->
    LET p == cfg.Peers[i]
    IN  [j \in 1 .. ChunkCount(Len(p.AllowedIPs)) |->
          [p EXCEPT !.AllowedIPs = Chunk(p.AllowedIPs, j)]]])

\* knownPeers: the pointer fields and ReplaceAllowedIPs are passed on with
\* the first batch that names the peer only.
FirstOccurrence(chunks, i) ==
  \A j \in 1 .. i - 1 : chunks[j].PublicKey # chunks[i].PublicKey

\* Mutants: every chunk replaces the IPs; the later chunks are not UpdateOnly.
BatchPeerReplaces(chunks, i) == chunks[i]
BatchPeerCreates(chunks, i) ==
  IF FirstOccurrence(chunks, i) THEN chunks[i]
  ELSE [chunks[i] EXCEPT !.opts = Nil, !.ReplaceAllowedIPs = FALSE, !.UpdateOnly = FALSE]

BatchPeer(chunks, i) ==
  IF FirstOccurrence(chunks, i) THEN chunks[i]
  ELSE [chunks[i] EXCEPT !.opts = Nil, !.ReplaceAllowedIPs = FALSE]

\* Mutant: ReplacePeers in every batch.
TemplateReplaces(cfg, i) == IF i = 1 THEN cfg ELSE [cfg EXCEPT !.awg = Nil]

\* The fields a batch shares with the configuration: the AmneziaWG
\* parameters and ReplacePeers go into the first batch only.
Template(cfg, i) ==
  IF i = 1 THEN cfg ELSE [cfg EXCEPT !.awg = Nil, !.ReplacePeers = FALSE]

BuildBatches(cfg) ==
  IF ~ ShouldBatch(cfg) THEN <<cfg>>
  ELSE LET chunks == PeerChunks(cfg)
       IN  [i \in DOMAIN chunks |->
             [Template(cfg, i) EXCEPT !.Peers = <<BatchPeer(chunks, i)>>]]

-----------------------------------------------------------------------------
(* Encoding.                                                               *)

\* isValidIP holds of every allowed IP and endpoint: configAttrs succeeds.
Encodable(batch) ==
  \A i \in DOMAIN batch.Peers :
    /\ batch.Peers[i].opts \notin Invalid
    /\ \A j \in DOMAIN batch.Peers[i].AllowedIPs :
         batch.Peers[i].AllowedIPs[j] \notin Invalid

\* The nested attributes of one peer: WGPEER_A_FLAGS, the NLA_FLAG attribute
\* WGPEER_A_ADVANCED_SECURITY (present or not), and the rest.
EncodePeer(p) ==
  [key   |-> p.PublicKey,
   flags |-> {f \in {"REMOVE_ME", "REPLACE_ALLOWEDIPS", "UPDATE_ONLY",
                     "HAS_ADVANCED_SECURITY"} :
                \/ f = "REMOVE_ME" /\ p.Remove
                \/ f = "REPLACE_ALLOWEDIPS" /\ p.ReplaceAllowedIPs
                \/ f = "UPDATE_ONLY" /\ p.UpdateOnly
                \/ f = "HAS_ADVANCED_SECURITY"
                   /\ (p.AdvancedSecurity \/ p.DisableAdvancedSecurity)},
   adv   |-> p.AdvancedSecurity,
   opts  |-> p.opts,
   ips   |-> p.AllowedIPs]

ConfigAttrs(batch) ==
  [dev |-> batch.dev, awg |-> batch.awg, replace |-> batch.ReplacePeers,
   peers |-> [i \in DOMAIN batch.Peers |-> EncodePeer(batch.Peers[i])]]
=============================================================================
