------------------------- MODULE LinuxConfigureProofs -------------------------
(***************************************************************************)
(* Theorems about LinuxConfigure, for every set of callers, keys, allowed  *)
(* IPs and configurations: what the kernel holds keeps its form, a         *)
(* configuration with AmneziaWG fields leaves nothing behind on a          *)
(* WireGuard link, a peer that is only to be updated or removed is never   *)
(* created, a late batch removes no peer it was not asked to remove, and   *)
(* independent calls that all returned nil have configured the device as   *)
(* if each had been one indivisible request.                               *)
(*                                                                         *)
(* The model applies the peers of a request with FoldLeft and joins the    *)
(* chunks of the peers with FlattenSeq.  Both are recursive functions over *)
(* the length of a sequence: the first two sections show, by a smallest    *)
(* counterexample, that these functions exist and stay within a set that   *)
(* every step stays within.                                                *)
(*                                                                         *)
(* That the batches add up to the configuration rests on three facts: a    *)
(* configuration applied whole absorbs any of its own messages, it may be  *)
(* swapped with those of an independent one, and what a call has sent so   *)
(* far stays true of the device until it returns.                          *)
(***************************************************************************)
EXTENDS LinuxConfigure, FiniteSetTheorems, WellFoundedInduction, TLAPS

-----------------------------------------------------------------------------
(* FoldLeft over the peers of a request.                                   *)

\* A set of natural numbers has a least member.
LEMMA LeastMember ==
  ASSUME NEW T \in SUBSET Nat, T # {}
  PROVE  \E n \in T : \A m \in T : n <= m
<1>1. PICK n \in T : \A m \in T : ~ (<<m, n>> \in OpToRel(<, Nat))
  BY NatLessThanWellFounded, WFMin
<1>2. \A m \in T : ~ (m < n)
  BY <1>1 DEF OpToRel
<1> QED BY <1>2

\* The largest member of a set.
LEMMA MaxIs ==
  ASSUME NEW S \in SUBSET Int, NEW m \in S, \A y \in S : m >= y
  PROVE  Max(S) = m
<1>1. \E x \in S : \A y \in S : x >= y
  OBVIOUS
<1>2. Max(S) \in S /\ \A y \in S : Max(S) >= y
  BY <1>1 DEF Max
<1>3. Max(S) >= m /\ m >= Max(S) /\ m \in Int /\ Max(S) \in Int
  BY <1>2
<1> QED BY <1>3

\* The recursive function that FoldLeft(SetPeer, base, s) evaluates at the
\* set of all indices.
Folded(base, s, n, f) ==
  f = [t \in SUBSET (1 .. n) |->
         IF t = {} THEN base ELSE SetPeer(f[t \ {Max(t)}], s[Max(t)])]

\* It exists, whatever the length of the sequence.
LEMMA FoldedExists ==
  ASSUME NEW base, NEW s
  PROVE  \A n \in Nat : \E f : Folded(base, s, n, f)
<1> DEFINE T == {n \in Nat : ~ \E f : Folded(base, s, n, f)}
<1> SUFFICES ASSUME T # {} PROVE FALSE
  OBVIOUS
<1>1. PICK n \in T : \A m \in T : n <= m
  BY LeastMember
<1>2. n # 0
  <2> SUFFICES \E f : Folded(base, s, 0, f)
    OBVIOUS
  <2>1. 1 .. 0 = {}
    OBVIOUS
  <2>2. Folded(base, s, 0, [t \in SUBSET {} |-> base])
    BY <2>1 DEF Folded
  <2> QED BY <2>2
<1>3. n \in Nat /\ n - 1 \in Nat /\ n - 1 \notin T
  BY <1>1, <1>2
<1>4. PICK f : Folded(base, s, n - 1, f)
  BY <1>3
<1> DEFINE g == [t \in SUBSET (1 .. n) |->
                   IF n \in t THEN SetPeer(f[t \ {n}], s[n]) ELSE f[t]]
<1>5. ASSUME NEW t \in SUBSET (1 .. n)
      PROVE  g[t] = IF t = {} THEN base ELSE SetPeer(g[t \ {Max(t)}], s[Max(t)])
  <2>1. CASE n \in t
    <3>1. Max(t) = n
      BY <1>3, <2>1, MaxIs
    <3>2. t \ {n} \in SUBSET (1 .. n) /\ n \notin t \ {n}
      BY <1>3
    <3>3. g[t \ {n}] = f[t \ {n}]
      BY <3>2
    <3> QED BY <2>1, <3>1, <3>3
  <2>2. CASE n \notin t
    <3>1. t \in SUBSET (1 .. (n - 1))
      BY <1>3, <2>2
    <3>2. f[t] = IF t = {} THEN base ELSE SetPeer(f[t \ {Max(t)}], s[Max(t)])
      BY <1>4, <3>1 DEF Folded
    <3>3. g[t] = f[t] /\ g[t \ {Max(t)}] = f[t \ {Max(t)}]
      BY <2>2
    <3> QED BY <3>2, <3>3
  <2> QED BY <2>1, <2>2
<1>6. Folded(base, s, n, g)
  BY <1>5 DEF Folded
<1> QED BY <1>1, <1>6

\* The kernel handles the peers of a request one after the other: r[i] is
\* what it holds after the first i of them.
Handled(base, s, r) ==
  /\ r[0] = base
  /\ \A i \in 1 .. Len(s) : r[i] = SetPeer(r[i - 1], s[i])
  /\ FoldLeft(SetPeer, base, s) = r[Len(s)]

LEMMA PeersOneByOne ==
  ASSUME NEW base, NEW M, NEW s \in Seq(M)
  PROVE  \E r : Handled(base, s, r)
<1> DEFINE N == Len(s)
           h == CHOOSE f : Folded(base, s, N, f)
<1>1. N \in Nat /\ DOMAIN s = 1 .. N
  OBVIOUS
<1>2. Folded(base, s, N, h)
  BY <1>1, FoldedExists
<1>3. FoldLeft(SetPeer, base, s) = h[1 .. N]
  BY <1>1 DEF FoldLeft, MapThenFoldSet, Folded
<1> HIDE DEF h, N
<1> DEFINE r == [i \in 0 .. N |-> h[1 .. i]]
<1>4. r[0] = base
  BY <1>1, <1>2 DEF Folded
<1>5. ASSUME NEW i \in 1 .. N PROVE r[i] = SetPeer(r[i - 1], s[i])
  <2>1. Max(1 .. i) = i
    <3>1. 1 .. i \in SUBSET Int /\ i \in 1 .. i /\ \A y \in 1 .. i : i >= y
      BY <1>1
    <3> QED BY <3>1, MaxIs
  <2>2. /\ (1 .. i) \ {i} = 1 .. (i - 1)
        /\ 1 .. i \in SUBSET (1 .. N)
        /\ 1 .. i # {}
    <3>1. i \in Nat /\ 1 <= i /\ i <= N
      BY <1>1
    <3>2. \A j : j \in (1 .. i) \ {i} <=> j \in 1 .. (i - 1)
      BY <1>1, <3>1
    <3>3. (1 .. i) \ {i} = 1 .. (i - 1)
      BY <3>2
    <3>4. \A j \in 1 .. i : j \in 1 .. N
      BY <1>1, <3>1
    <3>5. i \in 1 .. i
      BY <1>1, <3>1
    <3> QED BY <3>3, <3>4, <3>5
  <2>3. h[1 .. i] = SetPeer(h[1 .. (i - 1)], s[i])
    BY <1>2, <2>1, <2>2 DEF Folded
  <2>4. r[i] = h[1 .. i] /\ r[i - 1] = h[1 .. (i - 1)]
    BY <1>1
  <2> QED BY <2>3, <2>4
<1>6. r[N] = h[1 .. N]
  BY <1>1
<1> HIDE DEF r
<1>7. Handled(base, s, r)
  BY <1>3, <1>4, <1>5, <1>6 DEF Handled, N
<1> QED BY <1>7

\* What every single peer preserves, a request preserves.
LEMMA RequestStays ==
  ASSUME NEW S, NEW M, NEW base \in S, NEW s \in Seq(M),
         \A g \in S : \A m \in M : SetPeer(g, m) \in S
  PROVE  FoldLeft(SetPeer, base, s) \in S
<1>0. PICK r : Handled(base, s, r)
  BY PeersOneByOne
<1>1. /\ r[0] = base
      /\ \A i \in 1 .. Len(s) : r[i] = SetPeer(r[i - 1], s[i])
      /\ FoldLeft(SetPeer, base, s) = r[Len(s)]
  BY <1>0 DEF Handled
<1>2. Len(s) \in Nat /\ \A i \in 1 .. Len(s) : s[i] \in M
  OBVIOUS
<1> DEFINE T == {i \in 0 .. Len(s) : r[i] \notin S}
<1>3. ASSUME T # {} PROVE FALSE
  <2>1. T \in SUBSET Nat
    BY <1>2
  <2> HIDE DEF T
  <2>2. PICK n \in T : \A m \in T : n <= m
    BY <1>3, <2>1, LeastMember
  <2> USE DEF T
  <2>3. n # 0
    BY <1>1
  <2>4. n \in 1 .. Len(s) /\ n - 1 \in 0 .. Len(s) /\ n - 1 \notin T
    BY <1>2, <2>1, <2>2, <2>3
  <2>5. r[n - 1] \in S /\ s[n] \in M /\ r[n] = SetPeer(r[n - 1], s[n])
    BY <1>1, <1>2, <2>4
  <2> QED BY <2>5
<1>4. Len(s) \in 0 .. Len(s)
  BY <1>2
<1> QED BY <1>1, <1>3, <1>4

-----------------------------------------------------------------------------
(* The chunks of the peers, joined by FlattenSeq.                          *)

\* The recursive function that FlattenSeq(ss) evaluates at Len(ss).
Joined(ss, n, f) ==
  f = [i \in 1 .. n |-> IF i = 1 THEN ss[i] ELSE f[i - 1] \o ss[i]]

LEMMA JoinedExists ==
  ASSUME NEW ss
  PROVE  \A n \in Nat : \E f : Joined(ss, n, f)
<1> DEFINE T == {n \in Nat : ~ \E f : Joined(ss, n, f)}
<1> SUFFICES ASSUME T # {} PROVE FALSE
  OBVIOUS
<1>1. PICK n \in T : \A m \in T : n <= m
  BY LeastMember
<1>2. n # 0
  <2>1. Joined(ss, 0, [i \in 1 .. 0 |-> ss[i]])
    BY DEF Joined
  <2> QED BY <2>1
<1>3. n \in Nat /\ n - 1 \in Nat /\ n - 1 \notin T
  BY <1>1, <1>2
<1>4. PICK f : Joined(ss, n - 1, f)
  BY <1>3
<1> DEFINE g == [i \in 1 .. n |->
                   IF i = n THEN IF i = 1 THEN ss[i] ELSE f[i - 1] \o ss[i] ELSE f[i]]
<1>5. ASSUME NEW i \in 1 .. n
      PROVE  g[i] = IF i = 1 THEN ss[i] ELSE g[i - 1] \o ss[i]
  <2>1. i # 1 => i - 1 \in 1 .. n /\ i - 1 # n
    BY <1>3
  <2>2. i # 1 => g[i - 1] = f[i - 1]
    BY <2>1
  <2>3. CASE i = n
    BY <2>2, <2>3
  <2>4. CASE i # n
    <3>1. i \in 1 .. (n - 1)
      BY <1>3, <2>4
    <3>2. f[i] = IF i = 1 THEN ss[i] ELSE f[i - 1] \o ss[i]
      BY <1>4, <3>1 DEF Joined
    <3> QED BY <2>2, <2>4, <3>2
  <2> QED BY <2>3, <2>4
<1>6. Joined(ss, n, g)
  BY <1>5 DEF Joined
<1> QED BY <1>1, <1>6

\* Sequences that are not empty, joined, are not empty and hold nothing new.
LEMMA Concatenated ==
  ASSUME NEW X, NEW s \in Seq(X) \ {<<>>}, NEW t \in Seq(X) \ {<<>>}
  PROVE  s \o t \in Seq(X) \ {<<>>}
<1>1. s \o t \in Seq(X) /\ Len(s \o t) = Len(s) + Len(t)
  OBVIOUS
<1>2. Len(s) \in Nat /\ Len(t) \in Nat /\ Len(s) # 0
  OBVIOUS
<1>3. Len(s \o t) # 0
  BY <1>1, <1>2
<1> QED BY <1>1, <1>3

LEMMA Flattened ==
  ASSUME NEW X, NEW ss \in Seq(Seq(X) \ {<<>>}), ss # <<>>
  PROVE  FlattenSeq(ss) \in Seq(X) \ {<<>>}
<1> DEFINE S == Seq(X) \ {<<>>}
           N == Len(ss)
           h == CHOOSE f : Joined(ss, N, f)
<1>1. N \in Nat /\ N # 0 /\ \A i \in 1 .. N : ss[i] \in S
  OBVIOUS
<1>2. Joined(ss, N, h)
  BY <1>1, JoinedExists
<1>3. FlattenSeq(ss) = h[N]
  BY <1>1 DEF FlattenSeq, Joined
<1> HIDE DEF h, N
<1> DEFINE T == {i \in 1 .. N : h[i] \notin S}
<1>4. ASSUME T # {} PROVE FALSE
  <2>1. T \in SUBSET Nat
    BY <1>1
  <2> HIDE DEF T
  <2>2. PICK n \in T : \A m \in T : n <= m
    BY <1>4, <2>1, LeastMember
  <2> USE DEF T
  <2>3. n \in 1 .. N /\ h[n] = IF n = 1 THEN ss[n] ELSE h[n - 1] \o ss[n]
    BY <1>2, <2>2 DEF Joined
  <2>4. ss[n] \in S
    BY <1>1, <2>3
  <2>5. n # 1
    BY <2>2, <2>3, <2>4
  <2>6. n - 1 \in 1 .. N /\ n - 1 \notin T
    BY <1>1, <2>1, <2>2, <2>3, <2>5
  <2>7. h[n - 1] \o ss[n] \in S
    BY <2>4, <2>6, Concatenated
  <2> QED BY <2>2, <2>3, <2>5, <2>7
<1>5. N \in 1 .. N
  BY <1>1
<1> QED BY <1>3, <1>4, <1>5

-----------------------------------------------------------------------------
(* The batches of a configuration.                                         *)

\* A peer as it may appear in a batch of x: some entry of x, or as much of it
\* as a batch has, with the same key, for the same purpose, and with the same
\* AmneziaWG flags.
PartOfEntry(p, q) ==
  /\ p.PublicKey = q.PublicKey
  /\ p.Remove = q.Remove
  /\ p.UpdateOnly = q.UpdateOnly
  /\ p.AdvancedSecurity = q.AdvancedSecurity
  /\ p.DisableAdvancedSecurity = q.DisableAdvancedSecurity
  /\ p.opts \in {Nil, q.opts}
  /\ p.ReplaceAllowedIPs => q.ReplaceAllowedIPs
  /\ ToSet(p.AllowedIPs) \subseteq ToSet(q.AllowedIPs)

Agreeing(x) == {p \in PeerConfig : \E i \in DOMAIN x.Peers : PartOfEntry(p, x.Peers[i])}

LEMMA OwnEntries ==
  ASSUME NEW x \in Config
  PROVE  x.Peers \in Seq(Agreeing(x))
<1>1. x.Peers \in Seq(PeerConfig)
  BY DEF Config
<1>2. \A i \in 1 .. Len(x.Peers) : x.Peers[i] \in Agreeing(x)
  BY <1>1 DEF Agreeing, PartOfEntry
<1> QED BY <1>1, <1>2

\* A configuration without peers is not split.
LEMMA SplitHasPeers ==
  ASSUME NEW x \in Config, ShouldBatch(x)
  PROVE  x.Peers # <<>>
<1> SUFFICES ASSUME x.Peers = <<>> PROVE FALSE
  OBVIOUS
<1>1. Len(x.Peers) = 0 /\ DOMAIN x.Peers = {}
  OBVIOUS
<1> DEFINE IsSum(f) ==
             f = [t \in SUBSET (DOMAIN x.Peers) |->
                    IF t = {} THEN 0
                    ELSE f[t \ {Max(t)}] + Len(x.Peers[Max(t)].AllowedIPs)]
           sum == CHOOSE f : IsSum(f)
<1>2. IsSum([t \in SUBSET (DOMAIN x.Peers) |-> 0])
  BY <1>1
<1>3. IsSum(sum)
  <2> HIDE DEF IsSum
  <2> QED BY <1>2
<1>4. sum[DOMAIN x.Peers] = 0
  <2> HIDE DEF sum
  <2> QED BY <1>1, <1>3
<1>5. ~ ShouldBatch(x)
  BY <1>1, <1>4, ChunkAssumption DEF ShouldBatch, FoldLeft, MapThenFoldSet
<1> QED BY <1>5

\* Every peer has a chunk.
LEMMA ChunkCounted ==
  ASSUME NEW n \in Nat
  PROVE  ChunkCount(n) \in Nat \ {0}
<1>1. CASE n = 0
  BY <1>1 DEF ChunkCount
<1>2. CASE n # 0
  <2> DEFINE d == IPChunk
             e == n + d - 1
  <2>1. d \in Nat /\ d > 0 /\ e \in Nat /\ e >= d
    BY <1>2, ChunkAssumption
  <2>2. ChunkCount(n) = e \div d
    BY <1>2 DEF ChunkCount
  <2> HIDE DEF d, e
  <2>3. e \div d \in Int /\ e = d * (e \div d) + (e % d) /\ e % d \in 0 .. (d - 1)
    BY <2>1
  <2>4. e \div d > 0
    <3> SUFFICES ASSUME e \div d <= 0 PROVE FALSE
      BY <2>3
    <3>1. d * (e \div d) <= 0
      BY <2>1, <2>3
    <3> QED BY <2>1, <2>3, <3>1
  <2> QED BY <2>2, <2>3, <2>4
<1> QED BY <1>1, <1>2

\* A chunk is a part of the allowed IPs.
LEMMA PartOf ==
  ASSUME NEW X, NEW s \in Seq(X), NEW m \in Nat \ {0}, NEW n \in Int, n <= Len(s)
  PROVE  SubSeq(s, m, n) \in Seq(X) /\ ToSet(SubSeq(s, m, n)) \subseteq ToSet(s)
<1>1. SubSeq(s, m, n) \in Seq(X)
  OBVIOUS
<1>2. SubSeq(s, m, n) = [i \in 1 .. (n - m + 1) |-> s[i + m - 1]]
  OBVIOUS
<1>3. \A i \in 1 .. (n - m + 1) : i + m - 1 \in 1 .. Len(s)
  OBVIOUS
<1>4. DOMAIN s = 1 .. Len(s)
  OBVIOUS
<1> QED BY <1>1, <1>2, <1>3, <1>4 DEF ToSet

LEMMA ChunkIsPart ==
  ASSUME NEW s \in Seq(IPs), NEW j \in Nat \ {0}
  PROVE  Chunk(s, j) \in Seq(IPs) /\ ToSet(Chunk(s, j)) \subseteq ToSet(s)
<1>1. (j - 1) * IPChunk \in Nat /\ j * IPChunk \in Nat /\ Len(s) \in Nat
  BY ChunkAssumption
<1> DEFINE m == (j - 1) * IPChunk + 1
           n == IF j * IPChunk < Len(s) THEN j * IPChunk ELSE Len(s)
<1>2. m \in Nat \ {0} /\ n \in Int /\ n <= Len(s)
  BY <1>1
<1>3. Chunk(s, j) = SubSeq(s, m, n)
  BY DEF Chunk
<1> HIDE DEF m, n
<1> QED BY <1>2, <1>3, PartOf

\* The chunks of all peers: at least one, and each is a peer of x.
LEMMA ChunksAgree ==
  ASSUME NEW x \in Config, x.Peers # <<>>
  PROVE  PeerChunks(x) \in Seq(Agreeing(x)) \ {<<>>}
<1> DEFINE A == Agreeing(x)
           N == Len(x.Peers)
           Part(i, j) == [x.Peers[i] EXCEPT !.AllowedIPs = Chunk(x.Peers[i].AllowedIPs, j)]
           Count(i) == ChunkCount(Len(x.Peers[i].AllowedIPs))
           ss == [i \in 1 .. N |-> [j \in 1 .. Count(i) |-> Part(i, j)]]
<1>1. x.Peers \in Seq(PeerConfig) /\ DOMAIN x.Peers = 1 .. N /\ N \in Nat \ {0}
  BY DEF Config
<1>2. ASSUME NEW i \in 1 .. N, NEW j \in Nat \ {0} PROVE Part(i, j) \in A
  <2>1. x.Peers[i] \in PeerConfig
    BY <1>1
  <2>2. x.Peers[i].AllowedIPs \in Seq(IPs)
    BY <2>1 DEF PeerConfig
  <2>3. /\ Chunk(x.Peers[i].AllowedIPs, j) \in Seq(IPs)
        /\ ToSet(Chunk(x.Peers[i].AllowedIPs, j)) \subseteq ToSet(x.Peers[i].AllowedIPs)
    BY <2>2, ChunkIsPart
  <2>4. Part(i, j) \in PeerConfig /\ PartOfEntry(Part(i, j), x.Peers[i])
    BY <2>1, <2>3 DEF PeerConfig, PartOfEntry
  <2> QED BY <1>1, <2>4 DEF Agreeing
<1>3. ASSUME NEW i \in 1 .. N PROVE Count(i) \in Nat \ {0}
  <2>1. x.Peers[i] \in PeerConfig
    BY <1>1
  <2>2. x.Peers[i].AllowedIPs \in Seq(IPs)
    BY <2>1 DEF PeerConfig
  <2>3. Len(x.Peers[i].AllowedIPs) \in Nat
    BY <2>2
  <2> QED BY <2>3, ChunkCounted
<1>4. PeerChunks(x) = FlattenSeq(ss)
  BY <1>1 DEF PeerChunks
<1> HIDE DEF A, Part, Count
<1>5. ASSUME NEW i \in 1 .. N PROVE ss[i] \in Seq(A) \ {<<>>}
  <2>1. Count(i) \in Nat \ {0} /\ \A j \in 1 .. Count(i) : Part(i, j) \in A
    BY <1>2, <1>3
  <2> DEFINE s == [j \in 1 .. Count(i) |-> Part(i, j)]
  <2>2. s \in Seq(A)
    BY <2>1
  <2>3. Len(s) = Count(i)
    BY <2>1
  <2>4. s # <<>>
    BY <2>1, <2>3
  <2> QED BY <2>2, <2>4
<1> DEFINE S == Seq(A) \ {<<>>}
<1>6. ss \in Seq(S)
  <2> HIDE DEF S
  <2> SUFFICES \A i \in 1 .. N : [j \in 1 .. Count(i) |-> Part(i, j)] \in S
    BY <1>1
  <2> QED BY <1>5 DEF S
<1>7. ss # <<>>
  <2>1. Len(ss) = N
    BY <1>1
  <2> QED BY <1>1, <2>1
<1> HIDE DEF ss
<1>8. FlattenSeq(ss) \in Seq(A) \ {<<>>}
  BY <1>6, <1>7, Flattened
<1> QED BY <1>4, <1>8 DEF A

\* Every batch names peers of x only; no batch but the first replaces peers or
\* sets AmneziaWG's fields.
HeadOf(x, b, j) ==
  /\ b.dev = x.dev
  /\ b.awg = IF j = 1 THEN x.awg ELSE Nil
  /\ b.ReplacePeers = (j = 1 /\ x.ReplacePeers)

BatchesFit(x, batches) ==
  \A i \in 1 .. Len(batches) :
    /\ batches[i] \in Config
    /\ batches[i].Peers \in Seq(Agreeing(x))
    /\ HeadOf(x, batches[i], i)

LEMMA Batched ==
  ASSUME NEW x \in Config
  PROVE  /\ BuildBatches(x) \in Seq(Config) \ {<<>>}
         /\ BatchesFit(x, BuildBatches(x))
<1>1. CASE ~ ShouldBatch(x)
  <2>1. BuildBatches(x) = <<x>>
    BY <1>1 DEF BuildBatches
  <2>2. x.Peers \in Seq(Agreeing(x))
    BY OwnEntries
  <2>3. <<x>> \in Seq(Config) /\ Len(<<x>>) = 1 /\ <<x>>[1] = x /\ <<x>> # <<>>
    OBVIOUS
  <2>4. HeadOf(x, x, 1)
    BY DEF HeadOf, Config
  <2> QED BY <2>1, <2>2, <2>3, <2>4 DEF BatchesFit
<1>2. CASE ShouldBatch(x)
  <2> DEFINE A == Agreeing(x)
             cs == PeerChunks(x)
             N == Len(cs)
             B(i) == [Template(x, i) EXCEPT !.Peers = <<BatchPeer(cs, i)>>]
  <2>1. cs \in Seq(A) \ {<<>>}
    BY <1>2, SplitHasPeers, ChunksAgree
  <2> HIDE DEF A, cs
  <2>2. N \in Nat \ {0} /\ DOMAIN cs = 1 .. N /\ \A i \in 1 .. N : cs[i] \in A
    BY <2>1
  <2>3. ASSUME NEW i \in 1 .. N PROVE BatchPeer(cs, i) \in A
    <3>1. cs[i] \in PeerConfig /\ \E q \in DOMAIN x.Peers : PartOfEntry(cs[i], x.Peers[q])
      BY <2>2 DEF A, Agreeing
    <3>2. BatchPeer(cs, i) \in PeerConfig /\ PartOfEntry(BatchPeer(cs, i), cs[i])
      BY <3>1 DEF BatchPeer, PeerConfig, PartOfEntry
    <3> QED BY <3>1, <3>2 DEF A, Agreeing, PartOfEntry
  <2>4. ASSUME NEW i \in 1 .. N
        PROVE  /\ B(i) \in Config
               /\ B(i).Peers \in Seq(A)
               /\ HeadOf(x, B(i), i)
    <3>1. BatchPeer(cs, i) \in A /\ BatchPeer(cs, i) \in PeerConfig
      BY <2>3 DEF A, Agreeing
    <3> DEFINE s == <<BatchPeer(cs, i)>>
    <3>2. s \in Seq(A) /\ s \in Seq(PeerConfig)
      BY <3>1
    <3>3. Template(x, i) \in Config /\ HeadOf(x, Template(x, i), i)
      <4>1. CASE i = 1
        BY <2>2, <4>1 DEF Template, HeadOf, Config
      <4>2. CASE i # 1
        <5>1. [x EXCEPT !.awg = Nil, !.ReplacePeers = FALSE] \in Config
          BY DEF Config
        <5>2. HeadOf(x, [x EXCEPT !.awg = Nil, !.ReplacePeers = FALSE], i)
          BY <4>2 DEF Config, HeadOf
        <5> QED BY <4>2, <5>1, <5>2 DEF Template
      <4> QED BY <4>1, <4>2
    <3> HIDE DEF s
    <3>4. [Template(x, i) EXCEPT !.Peers = s] \in Config
      BY <3>2, <3>3 DEF Config
    <3>5. [Template(x, i) EXCEPT !.Peers = s].Peers = s
      BY <3>3 DEF Config
    <3>6. HeadOf(x, [Template(x, i) EXCEPT !.Peers = s], i)
      BY <3>3 DEF Config, HeadOf
    <3> QED BY <3>2, <3>3, <3>4, <3>5, <3>6 DEF s
  <2>5. BuildBatches(x) = [i \in 1 .. N |-> B(i)]
    BY <1>2, <2>2 DEF BuildBatches, cs
  <2> HIDE DEF B, N
  <2>6. [i \in 1 .. N |-> B(i)] \in Seq(Config) /\ Len([i \in 1 .. N |-> B(i)]) = N
    BY <2>2, <2>4
  <2>7. BuildBatches(x) # <<>>
    BY <2>2, <2>5, <2>6
  <2> QED BY <2>4, <2>5, <2>6, <2>7 DEF BatchesFit, A
<1> QED BY <1>1, <1>2

-----------------------------------------------------------------------------
(* What a request makes of a device.                                       *)

Created(x) ==
  {x.Peers[i].PublicKey :
     i \in {j \in DOMAIN x.Peers : ~ x.Peers[j].UpdateOnly /\ ~ x.Peers[j].Remove}}

Removed(x) == {x.Peers[i].PublicKey : i \in {j \in DOMAIN x.Peers : x.Peers[j].Remove}}

Messages(x) == {EncodePeer(p) : p \in Agreeing(x)}

\* The peers of a device are a function from some keys to peers.
LEMMA PeersAre ==
  ASSUME NEW g
  PROVE  g \in PeerStates <=> DOMAIN g \in SUBSET Keys /\ g \in [DOMAIN g -> PeerState]
BY DEF PeerStates

\* What the encoding keeps of a peer.
LEMMA Encoded ==
  ASSUME NEW p \in PeerConfig
  PROVE  /\ EncodePeer(p).key = p.PublicKey /\ p.PublicKey \in Keys
         /\ EncodePeer(p).adv \in BOOLEAN
         /\ EncodePeer(p).opts \in Opts \union {Nil}
         /\ ToSet(EncodePeer(p).ips) \in SUBSET IPs
         /\ "REMOVE_ME" \in EncodePeer(p).flags <=> p.Remove
         /\ "UPDATE_ONLY" \in EncodePeer(p).flags <=> p.UpdateOnly
<1>1. p.AllowedIPs \in Seq(IPs)
  BY DEF PeerConfig
<1>2. ToSet(p.AllowedIPs) \in SUBSET IPs
  BY <1>1 DEF ToSet
<1> QED BY <1>2 DEF EncodePeer, PeerConfig

\* What a message makes of the peer it names.
NewState(peers, m) ==
  LET old == IF m.key \in DOMAIN peers THEN peers[m.key] ELSE NewPeer
  IN  [opts |-> IF m.opts = Nil THEN old.opts ELSE m.opts,
       adv  |-> IF "HAS_ADVANCED_SECURITY" \in m.flags THEN m.adv ELSE old.adv,
       ips  |-> ToSet(m.ips) \union
                IF "REPLACE_ALLOWEDIPS" \in m.flags THEN {} ELSE old.ips]

\* One peer of a request: only a message that neither removes nor only
\* updates creates a peer, and only one that removes takes one away.
LEMMA PeerIsSet ==
  ASSUME NEW g \in PeerStates, NEW p \in PeerConfig
  PROVE  LET h == SetPeer(g, EncodePeer(p))
         IN  /\ h \in PeerStates
             /\ \A k \in DOMAIN h \ DOMAIN g :
                  k = p.PublicKey /\ ~ p.Remove /\ ~ p.UpdateOnly
             /\ \A k \in DOMAIN g \ DOMAIN h : k = p.PublicKey /\ p.Remove
<1> DEFINE m == EncodePeer(p)
           h == SetPeer(g, m)
           exists == m.key \in DOMAIN g
           added == [k \in DOMAIN g \union {m.key} |->
                       IF k = m.key THEN NewState(g, m)
                       ELSE [g[k] EXCEPT !.ips = @ \ ToSet(m.ips)]]
<1>1. /\ m.key = p.PublicKey /\ m.key \in Keys
      /\ m.adv \in BOOLEAN /\ m.opts \in Opts \union {Nil}
      /\ ToSet(m.ips) \in SUBSET IPs
      /\ "REMOVE_ME" \in m.flags <=> p.Remove
      /\ "UPDATE_ONLY" \in m.flags <=> p.UpdateOnly
  BY Encoded
<1>2. DOMAIN g \in SUBSET Keys /\ g \in [DOMAIN g -> PeerState]
  BY PeersAre
<1> HIDE DEF m
<1>3. h = CASE ~ exists /\ m.flags \intersect {"REMOVE_ME", "UPDATE_ONLY"} # {} -> g
            [] exists /\ "REMOVE_ME" \in m.flags -> WithoutPeer(g, m.key)
            [] OTHER -> added
  BY DEF SetPeer, NewState
<1>4. NewState(g, m) \in PeerState
  <2>1. NewPeer \in PeerState
    BY DEF NewPeer, PeerState
  <2> DEFINE old == IF exists THEN g[m.key] ELSE NewPeer
  <2>2. old \in PeerState
    BY <1>2, <2>1
  <2>3. NewState(g, m) =
          [opts |-> IF m.opts = Nil THEN old.opts ELSE m.opts,
           adv  |-> IF "HAS_ADVANCED_SECURITY" \in m.flags THEN m.adv ELSE old.adv,
           ips  |-> ToSet(m.ips) \union
                    IF "REPLACE_ALLOWEDIPS" \in m.flags THEN {} ELSE old.ips]
    BY DEF NewState
  <2> HIDE DEF old
  <2> QED BY <1>1, <2>2, <2>3 DEF PeerState
<1>5. added \in PeerStates
  <2>1. \A k \in DOMAIN g : [g[k] EXCEPT !.ips = @ \ ToSet(m.ips)] \in PeerState
    BY <1>2 DEF PeerState
  <2>2. \A k \in DOMAIN g \union {m.key} : added[k] \in PeerState
    BY <1>4, <2>1
  <2>3. DOMAIN added = DOMAIN g \union {m.key}
    OBVIOUS
  <2>4. added \in [DOMAIN g \union {m.key} -> PeerState]
    BY <2>2, <2>3
  <2> QED BY <1>1, <1>2, <2>3, <2>4, PeersAre
<1>6. WithoutPeer(g, m.key) \in PeerStates /\ DOMAIN WithoutPeer(g, m.key) = DOMAIN g \ {m.key}
  <2>1. DOMAIN WithoutPeer(g, m.key) = DOMAIN g \ {m.key}
    BY DEF WithoutPeer
  <2>2. WithoutPeer(g, m.key) \in [DOMAIN g \ {m.key} -> PeerState]
    BY <1>2 DEF WithoutPeer
  <2> QED BY <1>2, <2>1, <2>2, PeersAre
<1>7. CASE ~ exists /\ m.flags \intersect {"REMOVE_ME", "UPDATE_ONLY"} # {}
  <2>1. h = g
    BY <1>3, <1>7
  <2> QED BY <2>1 DEF m
<1>8. CASE exists /\ "REMOVE_ME" \in m.flags
  <2>1. h = WithoutPeer(g, m.key)
    BY <1>3, <1>8
  <2>2. h \in PeerStates /\ DOMAIN h = DOMAIN g \ {m.key}
    BY <1>6, <2>1
  <2> HIDE DEF h
  <2>3. /\ h \in PeerStates
        /\ \A k \in DOMAIN h \ DOMAIN g :
             k = p.PublicKey /\ ~ p.Remove /\ ~ p.UpdateOnly
        /\ \A k \in DOMAIN g \ DOMAIN h : k = p.PublicKey /\ p.Remove
    BY <1>1, <1>8, <2>2
  <2> QED BY <2>3 DEF h, m
<1>9. CASE ~ (exists /\ "REMOVE_ME" \in m.flags)
           /\ ~ (~ exists /\ m.flags \intersect {"REMOVE_ME", "UPDATE_ONLY"} # {})
  <2>1. h = added
    BY <1>3, <1>9
  <2>2. h \in PeerStates /\ DOMAIN h = DOMAIN g \union {m.key}
    BY <1>5, <2>1
  <2>3. ~ exists => "REMOVE_ME" \notin m.flags /\ "UPDATE_ONLY" \notin m.flags
    BY <1>9
  <2> HIDE DEF h
  <2>4. /\ h \in PeerStates
        /\ \A k \in DOMAIN h \ DOMAIN g :
             k = p.PublicKey /\ ~ p.Remove /\ ~ p.UpdateOnly
        /\ \A k \in DOMAIN g \ DOMAIN h : k = p.PublicKey /\ p.Remove
    BY <1>1, <2>2, <2>3
  <2> QED BY <2>4 DEF h, m
<1> QED BY <1>7, <1>8, <1>9

\* The messages of a batch of x are about peers of x.
LEMMA RequestIs ==
  ASSUME NEW x \in Config, NEW b \in Config, b.Peers \in Seq(Agreeing(x))
  PROVE  ConfigAttrs(b).peers \in Seq(Messages(x))
<1> DEFINE M == Messages(x)
           ms == ConfigAttrs(b).peers
<1>1. ms = [i \in 1 .. Len(b.Peers) |-> EncodePeer(b.Peers[i])]
  BY DEF ConfigAttrs
<1>2. \A i \in 1 .. Len(b.Peers) : b.Peers[i] \in Agreeing(x)
  OBVIOUS
<1>3. \A i \in 1 .. Len(b.Peers) : EncodePeer(b.Peers[i]) \in M
  BY <1>2 DEF Messages
<1>4. Len(b.Peers) \in Nat
  OBVIOUS
<1> HIDE DEF M, ms
<1> QED BY <1>1, <1>3, <1>4 DEF M, ms

\* What the request of one batch of x makes of a device, or a part of it.
LEMMA RequestApplied ==
  ASSUME NEW x \in Config, NEW b \in Config, b.Peers \in Seq(Agreeing(x)),
         NEW d \in DeviceState, NEW n \in 0 .. Len(ConfigAttrs(b).peers)
  PROVE  LET e == SetDevice(d, ConfigAttrs(b), n)
         IN  /\ e \in DeviceState
             /\ DOMAIN e.peers \ DOMAIN d.peers \subseteq Created(x)
             /\ ~ b.ReplacePeers => DOMAIN d.peers \ DOMAIN e.peers \subseteq Removed(x)
<1> DEFINE req == ConfigAttrs(b)
           M == Messages(x)
           base == IF b.ReplacePeers THEN NoPeers ELSE d.peers
           part == SubSeq(req.peers, 1, n)
           e == SetDevice(d, req, n)
           ps == FoldLeft(SetPeer, base, part)
           S == {g \in PeerStates :
                   /\ DOMAIN g \subseteq DOMAIN d.peers \union Created(x)
                   /\ ~ b.ReplacePeers =>
                        DOMAIN d.peers \subseteq DOMAIN g \union Removed(x)}
<1>1. req.peers \in Seq(M)
  BY RequestIs
<1>2. part \in Seq(M)
  <2> HIDE DEF M
  <2>1. n \in Int /\ n <= Len(req.peers) /\ 1 \in Nat \ {0}
    BY <1>1
  <2> HIDE DEF req
  <2> QED BY <1>1, <2>1, PartOf
<1>3. base \in S
  <2>1. d.peers \in PeerStates
    BY DEF DeviceState
  <2>2. NoPeers \in PeerStates /\ DOMAIN NoPeers = {}
    BY PeersAre DEF NoPeers
  <2> QED BY <2>1, <2>2
<1>4. ASSUME NEW g \in S, NEW m \in M PROVE SetPeer(g, m) \in S
  <2>1. PICK p \in PeerConfig, i \in DOMAIN x.Peers :
          m = EncodePeer(p) /\ PartOfEntry(p, x.Peers[i])
    BY DEF Messages, Agreeing
  <2>2. /\ p.PublicKey = x.Peers[i].PublicKey
        /\ p.Remove = x.Peers[i].Remove
        /\ p.UpdateOnly = x.Peers[i].UpdateOnly
    BY <2>1 DEF PartOfEntry
  <2>3. ~ p.Remove /\ ~ p.UpdateOnly => p.PublicKey \in Created(x)
    BY <2>2 DEF Created
  <2>4. p.Remove => p.PublicKey \in Removed(x)
    BY <2>2 DEF Removed
  <2> DEFINE h == SetPeer(g, EncodePeer(p))
  <2>5. /\ h \in PeerStates
        /\ \A k \in DOMAIN h \ DOMAIN g :
             k = p.PublicKey /\ ~ p.Remove /\ ~ p.UpdateOnly
        /\ \A k \in DOMAIN g \ DOMAIN h : k = p.PublicKey /\ p.Remove
    BY PeerIsSet
  <2> HIDE DEF h
  <2>6. h \in S
    BY <2>3, <2>4, <2>5
  <2> QED BY <2>1, <2>6 DEF h
<1>5. ps \in S
  <2> HIDE DEF S, M, base, part
  <2> QED BY <1>2, <1>3, <1>4, RequestStays
<1>6. e = [dev   |-> IF b.dev = Nil THEN d.dev ELSE b.dev,
           awg   |-> IF b.awg = Nil THEN d.awg ELSE b.awg,
           peers |-> ps]
  BY DEF SetDevice, ConfigAttrs
<1>7. ps \in PeerStates
  BY <1>5
<1> HIDE DEF ps, e
<1>8. e \in DeviceState /\ e.peers = ps
  BY <1>6, <1>7 DEF DeviceState, Config
<1>9. DOMAIN ps \ DOMAIN d.peers \subseteq Created(x)
  BY <1>5
<1>10. ~ b.ReplacePeers => DOMAIN d.peers \ DOMAIN ps \subseteq Removed(x)
  BY <1>5
<1> QED BY <1>8, <1>9, <1>10 DEF e

-----------------------------------------------------------------------------
(* The inductive invariant.                                                *)

\* What is left to send is the end of the configuration's batches.
Remaining ==
  \A c \in DOMAIN cfg : pc[c] = "batch" =>
    LET all == BuildBatches(cfg[c])
    IN  \E j \in 1 .. Len(all) : todo[c] = SubSeq(all, j, Len(all))

\* A call that sends has a family, and with AmneziaWG fields that one.
Chosen ==
  \A c \in DOMAIN cfg : pc[c] = "batch" =>
    /\ family[c] # "none"
    /\ HasAWGFields(cfg[c]) => family[c] = "amneziawg"

\* Where all configurations have AmneziaWG fields, only an AmneziaWG link is
\* touched; what replaces it is new.
Untouched ==
  (link # "amneziawg" /\ \A c \in DOMAIN cfg : HasAWGFields(cfg[c])) => device = origin

Inv == TypeOK /\ Remaining /\ Chosen /\ Untouched

\* The kernel does not understand exactly what hasAWGFields looks for.
LEMMA FieldsAreRefused ==
  ASSUME NEW x \in Config
  PROVE  ~ Understood(ConfigAttrs(x), "wireguard") <=> HasAWGFields(x)
<1>1. ConfigAttrs(x).awg = x.awg
  BY DEF ConfigAttrs
<1>2. /\ DOMAIN ConfigAttrs(x).peers = DOMAIN x.Peers
      /\ \A i \in DOMAIN x.Peers :
           "HAS_ADVANCED_SECURITY" \in ConfigAttrs(x).peers[i].flags
             <=> x.Peers[i].AdvancedSecurity \/ x.Peers[i].DisableAdvancedSecurity
  BY DEF ConfigAttrs, EncodePeer
<1> QED BY <1>1, <1>2 DEF Understood, HasAWGFields

\* The configurations are those of the callers.
LEMMA CallersAre ==
  ASSUME cfg \in Workloads
  PROVE  \A c \in DOMAIN cfg : c \in Callers /\ cfg[c] \in Config
BY WorkloadsAssumption

LEMMA InitInv == Init => Inv
<1> SUFFICES ASSUME Init PROVE Inv
  OBVIOUS
<1>1. device \in DeviceState /\ device = origin
  BY DevicesAssumption DEF Init
<1>2. TypeOK
  <2>1. <<>> \in Seq(Config)
    OBVIOUS
  <2> QED BY <1>1, <2>1 DEF Init, TypeOK
<1>3. \A c \in DOMAIN cfg : pc[c] # "batch"
  BY CallersAre DEF Init
<1> QED BY <1>1, <1>2, <1>3 DEF Inv, Remaining, Chosen, Untouched

\* Sequences: the first of what is left, and the rest.
LEMMA LeftOf ==
  ASSUME NEW X, NEW s \in Seq(X), NEW j \in 1 .. Len(s),
         NEW t, t = SubSeq(s, j, Len(s))
  PROVE  /\ t # <<>> /\ Len(t) = Len(s) - j + 1
         /\ Head(t) = s[j]
         /\ Len(t) # 1 => /\ j + 1 \in 1 .. Len(s)
                          /\ Tail(t) = SubSeq(s, j + 1, Len(s))
                          /\ Tail(t) # <<>>
<1>1. Len(s) \in Nat /\ j \in Nat \ {0} /\ j <= Len(s)
  OBVIOUS
<1>2. t = [i \in 1 .. (Len(s) - j + 1) |-> s[i + j - 1]]
  BY <1>1
<1>3. t \in Seq(X) /\ Len(t) = Len(s) - j + 1
  BY <1>1
<1>4. t # <<>> /\ Head(t) = s[j]
  BY <1>1, <1>2, <1>3
<1>5. ASSUME Len(t) # 1 PROVE j + 1 \in 1 .. Len(s) /\ Tail(t) = SubSeq(s, j + 1, Len(s))
  <2>1. j + 1 \in 1 .. Len(s)
    BY <1>1, <1>3, <1>5
  <2>2. Tail(t) = [i \in 1 .. (Len(t) - 1) |-> t[i + 1]]
    BY <1>3, <1>4
  <2>3. SubSeq(s, j + 1, Len(s)) = [i \in 1 .. (Len(s) - (j + 1) + 1) |-> s[i + (j + 1) - 1]]
    BY <1>1, <2>1
  <2>4. Len(t) - 1 = Len(s) - (j + 1) + 1
    BY <1>1, <1>3
  <2>5. ASSUME NEW i \in 1 .. (Len(t) - 1) PROVE t[i + 1] = s[i + (j + 1) - 1]
    <3>1. i + 1 \in 1 .. (Len(s) - j + 1)
      BY <1>1, <1>3
    <3>2. t[i + 1] = s[(i + 1) + j - 1] /\ (i + 1) + j - 1 = i + (j + 1) - 1
      BY <1>1, <1>2, <3>1
    <3> QED BY <3>2
  <2> QED BY <2>1, <2>2, <2>3, <2>4, <2>5
<1>6. Len(t) # 1 => Tail(t) # <<>>
  <2>1. Len(Tail(t)) = Len(t) - 1 /\ Len(t) \in Nat
    BY <1>3, <1>4
  <2>2. \A u : u = <<>> => Len(u) = 0
    OBVIOUS
  <2>3. Len(t) # 1 => Len(Tail(t)) # 0
    BY <2>1
  <2> QED BY <2>2, <2>3
<1> QED BY <1>3, <1>4, <1>5, <1>6

\* The batch a caller is about to send.
LEMMA NextBatch ==
  ASSUME Inv, NEW c \in DOMAIN cfg, pc[c] = "batch"
  PROVE  LET all == BuildBatches(cfg[c])
         IN  \E j \in 1 .. Len(all) :
               /\ todo[c] = SubSeq(all, j, Len(all))
               /\ Len(todo[c]) = Len(all) - j + 1
               /\ Head(todo[c]) = all[j]
               /\ all[j] \in Config
               /\ all[j].Peers \in Seq(Agreeing(cfg[c]))
               /\ HeadOf(cfg[c], all[j], j)
               /\ Len(todo[c]) # 1 => /\ j + 1 \in 1 .. Len(all)
                                      /\ Tail(todo[c]) = SubSeq(all, j + 1, Len(all))
                                      /\ Tail(todo[c]) # <<>>
<1> DEFINE all == BuildBatches(cfg[c])
<1>1. cfg[c] \in Config
  BY CallersAre DEF Inv, TypeOK
<1>2. all \in Seq(Config) /\ BatchesFit(cfg[c], all)
  BY <1>1, Batched
<1>3. PICK j \in 1 .. Len(all) : todo[c] = SubSeq(all, j, Len(all))
  BY DEF Inv, Remaining
<1> HIDE DEF all
<1>4. /\ Len(todo[c]) = Len(all) - j + 1
      /\ Head(todo[c]) = all[j]
      /\ Len(todo[c]) # 1 => /\ j + 1 \in 1 .. Len(all)
                             /\ Tail(todo[c]) = SubSeq(all, j + 1, Len(all))
                             /\ Tail(todo[c]) # <<>>
  BY <1>2, <1>3, LeftOf
<1>5. /\ all[j] \in Config /\ all[j].Peers \in Seq(Agreeing(cfg[c]))
      /\ HeadOf(cfg[c], all[j], j)
  BY <1>2 DEF BatchesFit
<1> QED BY <1>3, <1>4, <1>5 DEF all

-----------------------------------------------------------------------------
(* The steps.                                                              *)

\* What one round of the loop does to the device.
LEMMA RoundTouches ==
  ASSUME Inv, NEW c \in DOMAIN cfg, Set(c)
  PROVE  /\ device' \in DeviceState
         /\ DOMAIN device'.peers \ DOMAIN device.peers \subseteq Created(cfg[c])
         /\ Len(todo[c]) < Len(BuildBatches(cfg[c])) =>
              DOMAIN device.peers \ DOMAIN device'.peers \subseteq Removed(cfg[c])
         /\ pc[c] = "batch" /\ link = family[c]
<1> DEFINE all == BuildBatches(cfg[c])
           req == ConfigAttrs(Head(todo[c]))
<1>1. pc[c] = "batch" /\ link = family[c]
  BY DEF Set, Accepted, Rejected, Sends
<1>2. PICK j \in 1 .. Len(all) :
        /\ Len(todo[c]) = Len(all) - j + 1
        /\ Head(todo[c]) = all[j]
        /\ all[j] \in Config
        /\ all[j].Peers \in Seq(Agreeing(cfg[c]))
        /\ HeadOf(cfg[c], all[j], j)
  BY <1>1, NextBatch
<1>3. cfg[c] \in Config /\ device \in DeviceState /\ all \in Seq(Config)
  BY CallersAre, Batched DEF Inv, TypeOK
<1>4. Len(req.peers) \in Nat
  <2>1. req.peers \in Seq(Messages(cfg[c]))
    BY <1>2, <1>3, RequestIs
  <2> QED BY <2>1
<1>5. CASE device' = device
  BY <1>1, <1>3, <1>5
<1>6. CASE \E n \in 0 .. Len(req.peers) : device' = SetDevice(device, req, n)
  <2>1. PICK n \in 0 .. Len(req.peers) : device' = SetDevice(device, req, n)
    BY <1>6
  <2> DEFINE e == SetDevice(device, ConfigAttrs(all[j]), n)
  <2>2. req = ConfigAttrs(all[j]) /\ device' = e
    BY <1>2, <2>1
  <2>3. /\ e \in DeviceState
        /\ DOMAIN e.peers \ DOMAIN device.peers \subseteq Created(cfg[c])
        /\ ~ all[j].ReplacePeers =>
             DOMAIN device.peers \ DOMAIN e.peers \subseteq Removed(cfg[c])
    BY <1>2, <1>3, <2>1, <2>2, RequestApplied
  <2>4. Len(todo[c]) < Len(all) => ~ all[j].ReplacePeers
    <3>1. Len(todo[c]) < Len(all) => j # 1
      BY <1>2, <1>3
    <3>2. all[j].ReplacePeers = (j = 1 /\ cfg[c].ReplacePeers)
      BY <1>2 DEF HeadOf
    <3> QED BY <3>1, <3>2
  <2> HIDE DEF e, all
  <2> QED BY <1>1, <1>2, <2>2, <2>3, <2>4 DEF all
<1>7. device' = device \/ \E n \in 0 .. Len(req.peers) : device' = SetDevice(device, req, n)
  <2>1. Len(req.peers) \in 0 .. Len(req.peers)
    BY <1>4
  <2> HIDE DEF req
  <2> QED BY <2>1 DEF Set, Accepted, Rejected, req
<1> QED BY <1>5, <1>6, <1>7

\* How a call ends.
LEMMA Returned ==
  ASSUME TypeOK, NEW c \in Callers,
         NEW res \in {"ok", "ctx", "notexist", "version", "notsupported", "encode", "errno"},
         Return(c, res)
  PROVE  /\ pc' \in [Callers -> {"idle", "batch", "done"}]
         /\ todo' \in [Callers -> Seq(Config)]
         /\ result' \in [Callers -> {"none", "ok", "ctx", "notexist", "version",
                                     "notsupported", "encode", "errno"}]
         /\ \A d \in Callers : pc'[d] = "batch" <=> todo'[d] # <<>>
         /\ pc'[c] = "done"
         /\ \A d \in Callers \ {c} : pc'[d] = pc[d] /\ todo'[d] = todo[d]
<1>1. <<>> \in Seq(Config)
  OBVIOUS
<1> QED BY <1>1 DEF Return, TypeOK

\* Refusal names the results of ConfigureDevice.
LEMMA RefusalIs ==
  ASSUME NEW c \in DOMAIN cfg
  PROVE  /\ Refusal(c) \subseteq {"ctx", "notexist", "version", "notsupported", "errno"}
         /\ Refusal(c) = {"errno"} =>
              Served /\ (link = "wireguard" => ~ HasAWGFields(cfg[c]))
BY DEF Refusal

\* The conjuncts of the invariant, one by one: the types, with one case per
\* action.
LEMMA TypeStep == Inv /\ [Next]_vars => TypeOK'
<1> SUFFICES ASSUME Inv, [Next]_vars PROVE TypeOK'
  OBVIOUS
<1>1. TypeOK /\ \A c \in DOMAIN cfg : c \in Callers /\ cfg[c] \in Config
  BY CallersAre DEF Inv, TypeOK
<1>2. ASSUME NEW c \in DOMAIN cfg, Refuse(c) PROVE TypeOK'
  <2>1. PICK res \in Refusal(c) : Return(c, res)
    BY <1>2 DEF Refuse
  <2>2. res \in {"ok", "ctx", "notexist", "version", "notsupported", "encode", "errno"}
    BY <2>1, RefusalIs
  <2> QED BY <1>1, <1>2, <2>1, <2>2, Returned DEF Refuse, TypeOK
<1>3. ASSUME NEW c \in DOMAIN cfg, Start(c) PROVE TypeOK'
  <2>1. BuildBatches(cfg[c]) \in Seq(Config) /\ BuildBatches(cfg[c]) # <<>>
    BY <1>1, Batched
  <2> QED BY <1>1, <1>3, <2>1 DEF Start, TypeOK
<1>4. ASSUME NEW c \in DOMAIN cfg, BatchCancelled(c) PROVE TypeOK'
  BY <1>1, <1>4, Returned DEF BatchCancelled, TypeOK
<1>5. ASSUME NEW c \in DOMAIN cfg, EncodeFails(c) PROVE TypeOK'
  BY <1>1, <1>5, Returned DEF EncodeFails, TypeOK
<1>6. ASSUME NEW c \in DOMAIN cfg, DeviceGone(c) PROVE TypeOK'
  BY <1>1, <1>6, Returned DEF DeviceGone, TypeOK
<1>7. ASSUME NEW c \in DOMAIN cfg, Accepted(c) PROVE TypeOK'
  <2>1. device' \in DeviceState /\ pc[c] = "batch"
    BY <1>7, RoundTouches DEF Set
  <2>2. CASE Len(todo[c]) = 1
    BY <1>1, <1>7, <2>1, <2>2, Returned DEF Accepted, TypeOK
  <2>3. CASE Len(todo[c]) # 1
    <3>1. Tail(todo[c]) # <<>>
      BY <2>1, <2>3, NextBatch
    <3>2. todo[c] \in Seq(Config) /\ todo[c] # <<>>
      BY <1>1, <2>1 DEF TypeOK
    <3>3. Tail(todo[c]) \in Seq(Config)
      BY <3>2
    <3>4. /\ todo' = [todo EXCEPT ![c] = Tail(todo[c])]
          /\ UNCHANGED <<pc, result>>
      BY <1>1, <1>7, <2>3 DEF Accepted, TypeOK
    <3>5. UNCHANGED <<host, link, cfg, family, ctxDone, tries, disturbed>>
      BY <1>7 DEF Accepted
    <3> QED BY <1>1, <2>1, <3>1, <3>3, <3>4, <3>5 DEF TypeOK
  <2> QED BY <2>2, <2>3
<1>8. ASSUME NEW c \in DOMAIN cfg, Rejected(c) PROVE TypeOK'
  <2>1. device' \in DeviceState
    BY <1>8, RoundTouches DEF Set
  <2>2. Return(c, "errno") \/ Return(c, "ctx")
    BY <1>8 DEF Rejected
  <2>3. ctxDone' \in [Callers -> BOOLEAN]
    BY <1>1, <1>8 DEF Rejected, TypeOK
  <2>4. UNCHANGED <<host, link, cfg, family, tries, disturbed>>
    BY <1>8 DEF Rejected
  <2> QED BY <1>1, <2>1, <2>2, <2>3, <2>4, Returned DEF TypeOK
<1>9. ASSUME NEW c \in DOMAIN cfg, Retry(c) PROVE TypeOK'
  BY <1>1, <1>9 DEF Retry, TypeOK
<1>10. ASSUME NEW c \in DOMAIN cfg, CtxEnds(c) PROVE TypeOK'
  BY <1>1, <1>10 DEF CtxEnds, TypeOK
<1>11. CASE LinkRemoved
  <2>1. NewDevice \in DeviceState
    <3>1. NoPeers \in PeerStates
      BY PeersAre DEF NoPeers
    <3> QED BY <3>1 DEF NewDevice, DeviceState
  <2>2. disturbed' \in BOOLEAN
    BY <1>1, <1>11 DEF LinkRemoved, TypeOK
  <2> QED BY <1>1, <1>11, <2>1, <2>2 DEF LinkRemoved, callVars, TypeOK
<1>12. CASE LinkCreated
  BY <1>1, <1>12 DEF LinkCreated, callVars, TypeOK
<1>13. ASSUME NEW k \in Keys, PeerRemoved(k) PROVE TypeOK'
  <2>1. device.peers \in PeerStates
    BY <1>1 DEF TypeOK, DeviceState
  <2>2. WithoutPeer(device.peers, k) \in PeerStates
    BY <2>1, PeersAre DEF WithoutPeer
  <2>3. device' = [device EXCEPT !.peers = WithoutPeer(device.peers, k)]
    BY <1>1, <1>13 DEF PeerRemoved, TypeOK, DeviceState
  <2>4. device' \in DeviceState
    BY <1>1, <2>2, <2>3 DEF TypeOK, DeviceState
  <2>5. disturbed' \in BOOLEAN
    BY <1>1, <1>13 DEF PeerRemoved, TypeOK
  <2> QED BY <1>1, <1>13, <2>4, <2>5 DEF PeerRemoved, callVars, TypeOK
<1>14. CASE UNCHANGED vars
  BY <1>1, <1>14 DEF vars, callVars, TypeOK
<1> QED BY <1>2, <1>3, <1>4, <1>5, <1>6, <1>7, <1>8, <1>9, <1>10, <1>11, <1>12,
           <1>13, <1>14 DEF Next, Set

\* A call goes on as it was unless it starts or has sent a batch.
Kept(d) ==
  pc'[d] = "batch" => pc[d] = "batch" /\ todo'[d] = todo[d] /\ family'[d] = family[d]

LEMMA CallStep ==
  ASSUME Inv, [Next]_vars, NEW d \in DOMAIN cfg
  PROVE  cfg' = cfg /\ (Kept(d) \/ Start(d) \/ (Accepted(d) /\ Len(todo[d]) # 1))
<1>1. /\ TypeOK
      /\ \A c \in DOMAIN cfg : c \in Callers
  BY CallersAre DEF Inv, TypeOK
<1>2. ASSUME NEW c \in DOMAIN cfg, NEW res, Return(c, res), UNCHANGED family PROVE Kept(d)
  BY <1>1, <1>2 DEF Return, Kept, TypeOK
<1>3. ASSUME NEW c \in DOMAIN cfg, Refuse(c) PROVE cfg' = cfg /\ Kept(d)
  BY <1>2, <1>3 DEF Refuse
<1>4. ASSUME NEW c \in DOMAIN cfg, Start(c) PROVE cfg' = cfg /\ (Kept(d) \/ Start(d))
  <2>1. CASE c = d
    BY <1>4, <2>1 DEF Start
  <2>2. CASE c # d
    BY <1>1, <1>4, <2>2 DEF Start, Kept, TypeOK
  <2> QED BY <2>1, <2>2
<1>5. ASSUME NEW c \in DOMAIN cfg, BatchCancelled(c) PROVE cfg' = cfg /\ Kept(d)
  BY <1>2, <1>5 DEF BatchCancelled
<1>6. ASSUME NEW c \in DOMAIN cfg, EncodeFails(c) PROVE cfg' = cfg /\ Kept(d)
  BY <1>2, <1>6 DEF EncodeFails
<1>7. ASSUME NEW c \in DOMAIN cfg, DeviceGone(c) PROVE cfg' = cfg /\ Kept(d)
  BY <1>2, <1>7 DEF DeviceGone
<1>8. ASSUME NEW c \in DOMAIN cfg, Accepted(c)
      PROVE  cfg' = cfg /\ (Kept(d) \/ (Accepted(d) /\ Len(todo[d]) # 1))
  <2>1. CASE Len(todo[c]) = 1
    BY <1>2, <1>8, <2>1 DEF Accepted
  <2>2. CASE Len(todo[c]) # 1 /\ c = d
    BY <1>8, <2>2 DEF Accepted
  <2>3. CASE Len(todo[c]) # 1 /\ c # d
    BY <1>1, <1>8, <2>3 DEF Accepted, Kept, TypeOK
  <2> QED BY <2>1, <2>2, <2>3
<1>9. ASSUME NEW c \in DOMAIN cfg, Rejected(c) PROVE cfg' = cfg /\ Kept(d)
  BY <1>2, <1>9 DEF Rejected
<1>10. ASSUME NEW c \in DOMAIN cfg, Retry(c) PROVE cfg' = cfg /\ Kept(d)
  BY <1>1, <1>10 DEF Retry, Kept, TypeOK
<1>11. ASSUME NEW c \in DOMAIN cfg, CtxEnds(c) PROVE cfg' = cfg /\ Kept(d)
  BY <1>11 DEF CtxEnds, Kept
<1>12. ASSUME UNCHANGED callVars PROVE cfg' = cfg /\ Kept(d)
  BY <1>12 DEF callVars, Kept
<1>13. CASE LinkRemoved \/ LinkCreated \/ UNCHANGED vars \/ \E k \in Keys : PeerRemoved(k)
  BY <1>12, <1>13 DEF LinkRemoved, LinkCreated, PeerRemoved, vars
<1> QED BY <1>3, <1>4, <1>5, <1>6, <1>7, <1>8, <1>9, <1>10, <1>11, <1>13 DEF Next, Set

\* The configurations stay what they are.
LEMMA ConfigKept ==
  ASSUME Inv, [Next]_vars
  PROVE  cfg' = cfg
<1>1. CASE DOMAIN cfg = {}
  BY <1>1 DEF Next, LinkRemoved, LinkCreated, PeerRemoved, vars, callVars
<1>2. CASE DOMAIN cfg # {}
  BY <1>2, CallStep
<1> QED BY <1>1, <1>2

\* The batches that are left: all of them at the start, then one less.
LEMMA RemainingStep == Inv /\ [Next]_vars => Remaining'
<1> SUFFICES ASSUME Inv, [Next]_vars, NEW d \in DOMAIN cfg', pc'[d] = "batch"
             PROVE  LET all == BuildBatches(cfg'[d])
                    IN  \E j \in 1 .. Len(all) : todo'[d] = SubSeq(all, j, Len(all))
  BY DEF Remaining
<1>1. cfg' = cfg /\ (Kept(d) \/ Start(d) \/ (Accepted(d) /\ Len(todo[d]) # 1))
  BY ConfigKept, CallStep
<1>2. d \in DOMAIN cfg /\ d \in Callers /\ cfg[d] \in Config /\ TypeOK
  BY <1>1, CallersAre DEF Inv, TypeOK
<1> DEFINE all == BuildBatches(cfg[d])
<1>3. all \in Seq(Config) /\ all # <<>>
  BY <1>2, Batched
<1> HIDE DEF all
<1>4. \E j \in 1 .. Len(all) : todo'[d] = SubSeq(all, j, Len(all))
  <2>1. CASE Kept(d)
    BY <1>2, <2>1 DEF Kept, Inv, Remaining, all
  <2>2. CASE Start(d)
    <3>1. todo'[d] = all
      BY <1>2, <2>2 DEF Start, TypeOK, all
    <3>2. 1 \in 1 .. Len(all) /\ all = SubSeq(all, 1, Len(all))
      BY <1>3
    <3> QED BY <3>1, <3>2
  <2>3. CASE Accepted(d) /\ Len(todo[d]) # 1
    <3>1. pc[d] = "batch" /\ todo'[d] = Tail(todo[d])
      BY <1>2, <2>3 DEF Accepted, Sends, TypeOK
    <3>2. PICK j \in 1 .. Len(all) :
            j + 1 \in 1 .. Len(all) /\ Tail(todo[d]) = SubSeq(all, j + 1, Len(all))
      BY <1>2, <2>3, <3>1, NextBatch DEF all
    <3> QED BY <3>1, <3>2
  <2> QED BY <1>1, <2>1, <2>2, <2>3
<1> QED BY <1>1, <1>4 DEF all

\* The family of a call is that of the link it found.
LEMMA ChosenStep == Inv /\ [Next]_vars => Chosen'
<1> SUFFICES ASSUME Inv, [Next]_vars, NEW d \in DOMAIN cfg', pc'[d] = "batch"
             PROVE  /\ family'[d] # "none"
                    /\ HasAWGFields(cfg'[d]) => family'[d] = "amneziawg"
  BY DEF Chosen
<1>1. cfg' = cfg /\ (Kept(d) \/ Start(d) \/ (Accepted(d) /\ Len(todo[d]) # 1))
  BY ConfigKept, CallStep
<1>2. d \in DOMAIN cfg /\ d \in Callers /\ TypeOK
  BY <1>1, CallersAre DEF Inv, TypeOK
<1>3. CASE Kept(d)
  BY <1>1, <1>2, <1>3 DEF Kept, Inv, Chosen
<1>4. CASE Start(d)
  <2>1. Served /\ (link = "wireguard" => ~ HasAWGFields(cfg[d]))
    BY <1>2, <1>4, RefusalIs DEF Start
  <2>2. family'[d] = link
    BY <1>2, <1>4 DEF Start, TypeOK
  <2> QED BY <1>1, <2>1, <2>2 DEF Served
<1>5. CASE Accepted(d) /\ Len(todo[d]) # 1
  <2>1. pc[d] = "batch" /\ family' = family
    BY <1>5 DEF Accepted, Sends
  <2> QED BY <1>1, <1>2, <2>1 DEF Inv, Chosen
<1> QED BY <1>1, <1>3, <1>4, <1>5

\* A link that is not an AmneziaWG link is not touched.
LEMMA UntouchedStep == Inv /\ [Next]_vars => Untouched'
<1> SUFFICES ASSUME Inv, [Next]_vars, link' # "amneziawg",
                    \A c \in DOMAIN cfg' : HasAWGFields(cfg'[c])
             PROVE  device' = origin'
  BY DEF Untouched
<1>1. cfg' = cfg
  BY ConfigKept
<1>2. link # "amneziawg" => device = origin
  BY <1>1 DEF Inv, Untouched
<1>3. ASSUME NEW c \in DOMAIN cfg, Set(c) PROVE FALSE
  <2>1. pc[c] = "batch" /\ link = family[c] /\ link' = link
    BY <1>3 DEF Set, Accepted, Rejected, Sends
  <2>2. family[c] = "amneziawg"
    BY <1>1, <2>1 DEF Inv, Chosen
  <2> QED BY <2>1, <2>2
<1>4. ASSUME NEW c \in DOMAIN cfg,
             \/ Refuse(c) \/ Start(c) \/ BatchCancelled(c) \/ EncodeFails(c)
             \/ DeviceGone(c) \/ Retry(c) \/ CtxEnds(c)
      PROVE  UNCHANGED <<link, device, origin>>
  BY <1>4 DEF Refuse, Start, BatchCancelled, EncodeFails, DeviceGone, Retry, CtxEnds
<1>5. CASE UNCHANGED <<link, device, origin>>
  BY <1>2, <1>5
<1>6. CASE LinkRemoved
  BY <1>6 DEF LinkRemoved
<1>7. CASE LinkCreated
  BY <1>2, <1>7 DEF LinkCreated
<1>8. ASSUME NEW k \in Keys, PeerRemoved(k) PROVE device' = origin'
  BY <1>2, <1>8 DEF PeerRemoved
<1>9. CASE UNCHANGED vars
  BY <1>2, <1>9 DEF vars
<1> QED BY <1>3, <1>4, <1>5, <1>6, <1>7, <1>8, <1>9 DEF Next

LEMMA Invariant == Spec => []Inv
<1>1. Inv /\ [Next]_vars => Inv'
  BY TypeStep, RemainingStep, ChosenStep, UntouchedStep DEF Inv
<1> QED BY InitInv, <1>1, PTL DEF Spec

-----------------------------------------------------------------------------
(* What Configured says, by name.                                          *)

BaseOf(d, x)   == IF x.ReplacePeers THEN {} ELSE DOMAIN d.peers
OldOf(d, x, k) == IF k \in BaseOf(d, x) THEN d.peers[k] ELSE NewPeer
Effective(d, x) ==
  {i \in DOMAIN x.Peers : /\ ~ x.Peers[i].Remove
                          /\ x.Peers[i].UpdateOnly => x.Peers[i].PublicKey \in BaseOf(d, x)}
EntriesOf(d, x, k) == {i \in Effective(d, x) : x.Peers[i].PublicKey = k}
ClaimsOn(d, x, a)  == {i \in Effective(d, x) : a \in ToSet(x.Peers[i].AllowedIPs)}
KeysAfter(d, x) ==
  (BaseOf(d, x) \ Removed(x)) \union {x.Peers[i].PublicKey : i \in Effective(d, x)}
OptsAfter(d, x, k) ==
  IF \E i \in EntriesOf(d, x, k) : x.Peers[i].opts # Nil
  THEN (CHOOSE p \in {x.Peers[i] : i \in EntriesOf(d, x, k)} : TRUE).opts
  ELSE OldOf(d, x, k).opts
AdvAfter(d, x, k) ==
  IF \E i \in EntriesOf(d, x, k) : x.Peers[i].AdvancedSecurity \/ x.Peers[i].DisableAdvancedSecurity
  THEN \E i \in EntriesOf(d, x, k) : x.Peers[i].AdvancedSecurity
  ELSE OldOf(d, x, k).adv
IPsAfter(d, x, k) ==
  {a \in IPs : IF ClaimsOn(d, x, a) # {} THEN x.Peers[Max(ClaimsOn(d, x, a))].PublicKey = k
               ELSE /\ a \in OldOf(d, x, k).ips
                    /\ ~ \E i \in EntriesOf(d, x, k) : x.Peers[i].ReplaceAllowedIPs}
PeersAfter(d, x) ==
  [k \in KeysAfter(d, x) |->
     [opts |-> OptsAfter(d, x, k), adv |-> AdvAfter(d, x, k), ips |-> IPsAfter(d, x, k)]]

LEMMA ConfiguredIs ==
  ASSUME NEW d, NEW x
  PROVE  Configured(d, x) =
           [dev   |-> IF x.dev = Nil THEN d.dev ELSE x.dev,
            awg   |-> IF x.awg = Nil THEN d.awg ELSE x.awg,
            peers |-> PeersAfter(d, x)]
BY DEF Configured, BaseOf, OldOf, Effective, EntriesOf, ClaimsOn, KeysAfter, OptsAfter, AdvAfter,
       IPsAfter, PeersAfter, Removed

\* No key twice.
EachOnce(x) ==
  \A i, j \in DOMAIN x.Peers : x.Peers[i].PublicKey = x.Peers[j].PublicKey => i = j

-----------------------------------------------------------------------------
(* One message.                                                            *)

\* What is said of a peer by a message that carries entry p or a part of it.
Carries(m, p) ==
  /\ m.key = p.PublicKey
  /\ "REMOVE_ME" \in m.flags <=> p.Remove
  /\ "UPDATE_ONLY" \in m.flags <=> p.UpdateOnly
  /\ "HAS_ADVANCED_SECURITY" \in m.flags <=> p.AdvancedSecurity \/ p.DisableAdvancedSecurity
  /\ m.adv = p.AdvancedSecurity
  /\ m.opts \in {Nil, p.opts}
  /\ "REPLACE_ALLOWEDIPS" \in m.flags => p.ReplaceAllowedIPs
  /\ ToSet(m.ips) \subseteq ToSet(p.AllowedIPs)

LEMMA EncodedCarries ==
  ASSUME NEW p \in PeerConfig, NEW q, PartOfEntry(p, q)
  PROVE  Carries(EncodePeer(p), q)
BY DEF EncodePeer, PartOfEntry, Carries

LEMMA MessageCarries ==
  ASSUME NEW x \in Config, NEW m \in Messages(x)
  PROVE  /\ \E i \in DOMAIN x.Peers : Carries(m, x.Peers[i])
         /\ m.key \in Keys /\ m.adv \in BOOLEAN /\ m.opts \in Opts \union {Nil}
         /\ ToSet(m.ips) \in SUBSET IPs
<1>1. PICK p \in PeerConfig, i \in DOMAIN x.Peers : m = EncodePeer(p) /\ PartOfEntry(p, x.Peers[i])
  BY DEF Messages, Agreeing
<1> QED BY <1>1, EncodedCarries, Encoded

\* The entries of a configuration.
LEMMA EntryIs ==
  ASSUME NEW x \in Config, NEW i \in DOMAIN x.Peers
  PROVE  /\ x.Peers[i] \in PeerConfig /\ x.Peers[i].PublicKey \in Keys
         /\ x.Peers[i].opts \in Opts \union {Nil}
         /\ x.Peers[i].AdvancedSecurity \in BOOLEAN
         /\ x.Peers[i].AllowedIPs \in Seq(IPs)
         /\ ToSet(x.Peers[i].AllowedIPs) \in SUBSET IPs
<1>1. x.Peers \in Seq(PeerConfig)
  BY DEF Config
<1>2. x.Peers[i] \in PeerConfig
  BY <1>1
<1>3. x.Peers[i].AllowedIPs \in Seq(IPs)
  BY <1>2 DEF PeerConfig
<1> QED BY <1>2, <1>3 DEF PeerConfig, ToSet

\* The kernel does as the message says, unless it has nothing to update.
Sets(g, m) == "REMOVE_ME" \notin m.flags /\ ("UPDATE_ONLY" \in m.flags => m.key \in DOMAIN g)
Before(g, k) == IF k \in DOMAIN g THEN g[k] ELSE NewPeer

\* Two peers hold the same.
Alike(s, t) == s.opts = t.opts /\ s.adv = t.adv /\ s.ips = t.ips

\* What one message makes of the peers.
Makes(g, m, h) ==
  IF Sets(g, m)
  THEN /\ DOMAIN h = DOMAIN g \union {m.key}
       /\ h[m.key].opts = (IF m.opts = Nil THEN Before(g, m.key).opts ELSE m.opts)
       /\ h[m.key].adv = (IF "HAS_ADVANCED_SECURITY" \in m.flags THEN m.adv
                          ELSE Before(g, m.key).adv)
       /\ h[m.key].ips = ToSet(m.ips) \union
            (IF "REPLACE_ALLOWEDIPS" \in m.flags THEN {} ELSE Before(g, m.key).ips)
       /\ \A k \in DOMAIN g \ {m.key} : h[k].opts = g[k].opts /\ h[k].adv = g[k].adv
                                        /\ h[k].ips = g[k].ips \ ToSet(m.ips)
  ELSE DOMAIN h = DOMAIN g \ {m.key} /\ \A k \in DOMAIN h : h[k] = g[k]

LEMMA SetPeerMakes ==
  ASSUME NEW g \in PeerStates, NEW m
  PROVE  Makes(g, m, SetPeer(g, m))
<1> DEFINE exists == m.key \in DOMAIN g
           h == SetPeer(g, m)
           added == [k \in DOMAIN g \union {m.key} |->
                       IF k = m.key THEN NewState(g, m)
                       ELSE [g[k] EXCEPT !.ips = @ \ ToSet(m.ips)]]
<1>1. DOMAIN g \in SUBSET Keys /\ g \in [DOMAIN g -> PeerState]
  BY PeersAre
<1>2. h = CASE ~ exists /\ m.flags \intersect {"REMOVE_ME", "UPDATE_ONLY"} # {} -> g
            [] exists /\ "REMOVE_ME" \in m.flags -> WithoutPeer(g, m.key)
            [] OTHER -> added
  BY DEF SetPeer, NewState
<1>3. CASE Sets(g, m)
  <2>1. h = added
    BY <1>2, <1>3 DEF Sets
  <2> HIDE DEF h
  <2>2. DOMAIN h = DOMAIN g \union {m.key} /\ h[m.key] = NewState(g, m)
    BY <2>1
  <2>3. ASSUME NEW k \in DOMAIN g \ {m.key}
        PROVE  h[k].opts = g[k].opts /\ h[k].adv = g[k].adv /\ h[k].ips = g[k].ips \ ToSet(m.ips)
    <3>1. g[k] \in PeerState
      BY <1>1
    <3>2. h[k] = [g[k] EXCEPT !.ips = @ \ ToSet(m.ips)]
      BY <2>1
    <3> QED BY <3>1, <3>2 DEF PeerState
  <2> DEFINE old == IF m.key \in DOMAIN g THEN g[m.key] ELSE NewPeer
  <2>4. /\ h[m.key].opts = IF m.opts = Nil THEN old.opts ELSE m.opts
        /\ h[m.key].adv = IF "HAS_ADVANCED_SECURITY" \in m.flags THEN m.adv ELSE old.adv
        /\ h[m.key].ips = ToSet(m.ips) \union
                            IF "REPLACE_ALLOWEDIPS" \in m.flags THEN {} ELSE old.ips
    <3>1. NewState(g, m) =
            [opts |-> IF m.opts = Nil THEN old.opts ELSE m.opts,
             adv  |-> IF "HAS_ADVANCED_SECURITY" \in m.flags THEN m.adv ELSE old.adv,
             ips  |-> ToSet(m.ips) \union
                      IF "REPLACE_ALLOWEDIPS" \in m.flags THEN {} ELSE old.ips]
      BY DEF NewState
    <3> HIDE DEF old
    <3> QED BY <2>2, <3>1
  <2>5. old = Before(g, m.key)
    BY DEF Before
  <2> HIDE DEF old
  <2> QED BY <1>3, <2>2, <2>3, <2>4, <2>5 DEF Makes, h
<1>4. CASE ~ Sets(g, m)
  <2>1. DOMAIN h = DOMAIN g \ {m.key} /\ \A k \in DOMAIN h : h[k] = g[k]
    <3>1. CASE ~ exists
      <4>1. h = g
        BY <1>2, <1>4, <3>1 DEF Sets
      <4> QED BY <3>1, <4>1
    <3>2. CASE exists
      <4>1. h = WithoutPeer(g, m.key)
        BY <1>2, <1>4, <3>2 DEF Sets
      <4> QED BY <4>1 DEF WithoutPeer
    <3> QED BY <3>1, <3>2
  <2> QED BY <1>4, <2>1 DEF Makes
<1> QED BY <1>3, <1>4

\* Peers that hold the same are the same.
LEMMA SamePeers ==
  ASSUME NEW g \in PeerStates, NEW h \in PeerStates, DOMAIN g = DOMAIN h,
         \A k \in DOMAIN g : Alike(g[k], h[k])
  PROVE  g = h
<1>1. g \in [DOMAIN g -> PeerState] /\ h \in [DOMAIN g -> PeerState]
  BY PeersAre
<1>2. ASSUME NEW k \in DOMAIN g PROVE g[k] = h[k]
  <2>1. g[k] \in PeerState /\ h[k] \in PeerState
    BY <1>1
  <2> QED BY <2>1 DEF PeerState, Alike
<1> QED BY <1>1, <1>2

-----------------------------------------------------------------------------
(* A message of a configuration changes nothing that the configuration     *)
(* makes of the device in the end.                                         *)

Holding(d, g) == [dev |-> d.dev, awg |-> d.awg, peers |-> g]

\* What is configured of a peer depends on what it had as far as no entry
\* says anything else.
LEMMA FieldsAlike ==
  ASSUME NEW d, NEW e, NEW x, NEW k, Effective(e, x) = Effective(d, x),
         \/ \E i \in EntriesOf(d, x, k) : x.Peers[i].opts # Nil
         \/ OldOf(e, x, k).opts = OldOf(d, x, k).opts,
         \/ \E i \in EntriesOf(d, x, k) :
              x.Peers[i].AdvancedSecurity \/ x.Peers[i].DisableAdvancedSecurity
         \/ OldOf(e, x, k).adv = OldOf(d, x, k).adv
  PROVE  /\ OptsAfter(e, x, k) = OptsAfter(d, x, k)
         /\ AdvAfter(e, x, k) = AdvAfter(d, x, k)
<1>1. EntriesOf(e, x, k) = EntriesOf(d, x, k)
  BY DEF EntriesOf
<1>2. OptsAfter(e, x, k) = OptsAfter(d, x, k)
  <2>1. (CHOOSE p \in {x.Peers[i] : i \in EntriesOf(e, x, k)} : TRUE)
          = (CHOOSE p \in {x.Peers[i] : i \in EntriesOf(d, x, k)} : TRUE)
    BY <1>1
  <2>2. EntriesOf(e, x, k) = EntriesOf(d, x, k)
    BY <1>1
  <2>3. CASE \E i \in EntriesOf(d, x, k) : x.Peers[i].opts # Nil
    BY <2>1, <2>2, <2>3 DEF OptsAfter
  <2>4. CASE ~ \E i \in EntriesOf(d, x, k) : x.Peers[i].opts # Nil
    BY <2>2, <2>4 DEF OptsAfter
  <2> QED BY <2>3, <2>4
<1>3. AdvAfter(e, x, k) = AdvAfter(d, x, k)
  BY <1>1, Zenon DEF AdvAfter
<1> QED BY <1>2, <1>3

LEMMA AfterAlike ==
  ASSUME NEW d, NEW e, NEW x, NEW k, Effective(e, x) = Effective(d, x),
         \/ \E i \in EntriesOf(d, x, k) : x.Peers[i].opts # Nil
         \/ OldOf(e, x, k).opts = OldOf(d, x, k).opts,
         \/ \E i \in EntriesOf(d, x, k) :
              x.Peers[i].AdvancedSecurity \/ x.Peers[i].DisableAdvancedSecurity
         \/ OldOf(e, x, k).adv = OldOf(d, x, k).adv,
         \A a \in IPs :
           \/ ClaimsOn(d, x, a) # {}
           \/ \E i \in EntriesOf(d, x, k) : x.Peers[i].ReplaceAllowedIPs
           \/ a \in OldOf(e, x, k).ips <=> a \in OldOf(d, x, k).ips
  PROVE  /\ OptsAfter(e, x, k) = OptsAfter(d, x, k)
         /\ AdvAfter(e, x, k) = AdvAfter(d, x, k)
         /\ IPsAfter(e, x, k) = IPsAfter(d, x, k)
<1>1. EntriesOf(e, x, k) = EntriesOf(d, x, k) /\ \A a : ClaimsOn(e, x, a) = ClaimsOn(d, x, a)
  BY DEF EntriesOf, ClaimsOn
<1>2. OptsAfter(e, x, k) = OptsAfter(d, x, k) /\ AdvAfter(e, x, k) = AdvAfter(d, x, k)
  BY FieldsAlike
<1>4. \A a \in IPs : a \in IPsAfter(e, x, k) <=> a \in IPsAfter(d, x, k)
  BY <1>1 DEF IPsAfter
<1>5. IPsAfter(e, x, k) = IPsAfter(d, x, k)
  <2>1. IPsAfter(e, x, k) \subseteq IPs /\ IPsAfter(d, x, k) \subseteq IPs
    BY DEF IPsAfter
  <2> QED BY <1>4, <2>1
<1> QED BY <1>2, <1>5

LEMMA PeersAlike ==
  ASSUME NEW d, NEW e, NEW x, KeysAfter(e, x) = KeysAfter(d, x),
         \A k \in KeysAfter(d, x) : /\ OptsAfter(e, x, k) = OptsAfter(d, x, k)
                                    /\ AdvAfter(e, x, k) = AdvAfter(d, x, k)
                                    /\ IPsAfter(e, x, k) = IPsAfter(d, x, k)
  PROVE  PeersAfter(e, x) = PeersAfter(d, x)
BY DEF PeersAfter

LEMMA MessageAbsorbed ==
  ASSUME NEW x \in Config, EachOnce(x), NEW m \in Messages(x),
         NEW d \in DeviceState
  PROVE  Configured(Holding(d, SetPeer(d.peers, m)), x) = Configured(d, x)
<1> DEFINE g == d.peers
           h == SetPeer(g, m)
           e == Holding(d, h)
           k == m.key
<1>1. PICK i \in DOMAIN x.Peers : Carries(m, x.Peers[i])
  BY MessageCarries
<1> DEFINE p == x.Peers[i]
<1>2. g \in PeerStates
  BY DEF DeviceState
<1>3. Makes(g, m, h)
  BY <1>2, SetPeerMakes
<1>4. e.dev = d.dev /\ e.awg = d.awg /\ e.peers = h
  BY DEF Holding
<1> HIDE DEF h, e
<1>5. PeersAfter(e, x) = PeersAfter(d, x)
  <2>1. CASE x.ReplacePeers
    <3>1. Effective(e, x) = Effective(d, x) /\ \A y : OldOf(e, x, y) = OldOf(d, x, y)
      BY <2>1 DEF Effective, OldOf, BaseOf
    <3>2. KeysAfter(e, x) = KeysAfter(d, x)
      BY <2>1, <3>1 DEF KeysAfter, BaseOf
    <3>3. \A y : /\ OptsAfter(e, x, y) = OptsAfter(d, x, y)
                 /\ AdvAfter(e, x, y) = AdvAfter(d, x, y)
                 /\ IPsAfter(e, x, y) = IPsAfter(d, x, y)
      BY <3>1, AfterAlike
    <3> QED BY <3>2, <3>3, PeersAlike
  <2>2. CASE ~ x.ReplacePeers
    <3>1. BaseOf(d, x) = DOMAIN g /\ BaseOf(e, x) = DOMAIN h
      BY <1>4, <2>2 DEF BaseOf
    <3>2. \A j \in DOMAIN x.Peers : x.Peers[j].PublicKey = k => j = i
      BY <1>1 DEF EachOnce, Carries
    <3>3. p.PublicKey = k /\ (Sets(g, m) <=> ~ p.Remove /\ (p.UpdateOnly => k \in DOMAIN g))
      BY <1>1 DEF Carries, Sets
    <3>4. /\ Sets(g, m) => DOMAIN h = DOMAIN g \union {k}
          /\ ~ Sets(g, m) => DOMAIN h = DOMAIN g \ {k}
      BY <1>3 DEF Makes
    <3>5. i \in Effective(d, x) <=> Sets(g, m)
      BY <3>1, <3>3 DEF Effective
    <3>6. i \in Effective(e, x) <=> Sets(g, m)
      BY <3>1, <3>3, <3>4 DEF Effective
    <3>7. ASSUME NEW j \in DOMAIN x.Peers, j # i
          PROVE  j \in Effective(e, x) <=> j \in Effective(d, x)
      <4>1. x.Peers[j].PublicKey # k
        BY <3>2, <3>7
      <4> QED BY <3>1, <3>4, <4>1 DEF Effective
    <3>8. Effective(e, x) = Effective(d, x)
      BY <3>5, <3>6, <3>7 DEF Effective
    <3>9. KeysAfter(e, x) = KeysAfter(d, x)
      <4>1. Sets(g, m) => k \in {x.Peers[j].PublicKey : j \in Effective(d, x)}
        BY <3>3, <3>5
      <4>2. ~ Sets(g, m) => k \in Removed(x) \/ k \notin DOMAIN g
        BY <3>3 DEF Removed
      <4> QED BY <3>1, <3>4, <3>8, <4>1, <4>2 DEF KeysAfter
    <3>10. k \in KeysAfter(d, x) => Sets(g, m)
      <4> SUFFICES ASSUME ~ Sets(g, m) PROVE k \notin KeysAfter(d, x)
        OBVIOUS
      <4>1. k \notin {x.Peers[j].PublicKey : j \in Effective(d, x)}
        BY <3>2, <3>5 DEF Effective
      <4>2. k \in Removed(x) \/ k \notin DOMAIN g
        BY <3>3 DEF Removed
      <4> QED BY <3>1, <4>1, <4>2 DEF KeysAfter
    <3>11. ASSUME NEW a, Sets(g, m), ClaimsOn(d, x, a) = {} PROVE a \notin ToSet(m.ips)
      BY <1>1, <3>5, <3>11 DEF ClaimsOn, Carries
    <3>12. ASSUME NEW y \in KeysAfter(d, x)
           PROVE  /\ OptsAfter(e, x, y) = OptsAfter(d, x, y)
                  /\ AdvAfter(e, x, y) = AdvAfter(d, x, y)
                  /\ IPsAfter(e, x, y) = IPsAfter(d, x, y)
      <4> DEFINE now == OldOf(d, x, y)
                 then == OldOf(e, x, y)
      <4>1. now = Before(g, y) /\ then = Before(h, y)
        BY <1>4, <3>1 DEF OldOf, Before
      <4>2. CASE y # k
        <5>1. y \in DOMAIN g <=> y \in DOMAIN h
          BY <3>4, <4>2
        <5>2. then.opts = now.opts /\ then.adv = now.adv
              /\ then.ips = now.ips \ (IF Sets(g, m) THEN ToSet(m.ips) ELSE {})
          <6>1. CASE y \in DOMAIN g
            BY <1>3, <4>1, <4>2, <5>1, <6>1 DEF Makes, Before
          <6>2. CASE y \notin DOMAIN g
            <7>1. then = NewPeer /\ now = NewPeer /\ NewPeer.ips = {}
              BY <4>1, <5>1, <6>2 DEF Before, NewPeer
            <7> HIDE DEF then, now
            <7> QED BY <7>1
          <6> QED BY <6>1, <6>2
        <5>3. \A a \in IPs : ClaimsOn(d, x, a) # {} \/ (a \in then.ips <=> a \in now.ips)
          BY <3>11, <5>2
        <5> HIDE DEF now, then
        <5>4. /\ OldOf(e, x, y).opts = OldOf(d, x, y).opts
              /\ OldOf(e, x, y).adv = OldOf(d, x, y).adv
              /\ \A a \in IPs : \/ ClaimsOn(d, x, a) # {}
                                \/ a \in OldOf(e, x, y).ips <=> a \in OldOf(d, x, y).ips
          BY <5>2, <5>3 DEF now, then
        <5>5. EntriesOf(e, x, y) = EntriesOf(d, x, y) /\ \A a : ClaimsOn(e, x, a) = ClaimsOn(d, x, a)
          BY <3>8 DEF EntriesOf, ClaimsOn
        <5>6. OptsAfter(e, x, y) = OptsAfter(d, x, y)
          BY ONLY <5>4, <5>5 DEF OptsAfter
        <5>7. AdvAfter(e, x, y) = AdvAfter(d, x, y)
          BY ONLY <5>4, <5>5 DEF AdvAfter
        <5>8. IPsAfter(e, x, y) = IPsAfter(d, x, y)
          BY ONLY <5>4, <5>5 DEF IPsAfter
        <5> QED BY <5>6, <5>7, <5>8
      <4>3. CASE y = k
        <5>1. Sets(g, m) /\ i \in EntriesOf(d, x, k)
          BY <3>3, <3>5, <3>10, <4>3 DEF EntriesOf
        <5>2. /\ then.opts = (IF m.opts = Nil THEN now.opts ELSE m.opts)
              /\ then.adv = (IF "HAS_ADVANCED_SECURITY" \in m.flags THEN m.adv ELSE now.adv)
              /\ then.ips = ToSet(m.ips) \union
                   (IF "REPLACE_ALLOWEDIPS" \in m.flags THEN {} ELSE now.ips)
          <6>1. then = h[k] /\ now = Before(g, k)
            BY <3>4, <4>1, <4>3, <5>1 DEF Before
          <6> QED BY <1>3, <5>1, <6>1 DEF Makes
        <5>3. \/ p.opts # Nil
              \/ then.opts = now.opts
          BY <1>1, <5>2 DEF Carries
        <5>4. \/ p.AdvancedSecurity \/ p.DisableAdvancedSecurity
              \/ then.adv = now.adv
          BY <1>1, <5>2 DEF Carries
        <5>5. \A a \in IPs : \/ ClaimsOn(d, x, a) # {}
                             \/ p.ReplaceAllowedIPs
                             \/ a \in then.ips <=> a \in now.ips
          BY <1>1, <3>11, <5>1, <5>2 DEF Carries
        <5> HIDE DEF now, then
        <5>6. /\ \/ \E j \in EntriesOf(d, x, y) : x.Peers[j].opts # Nil
                 \/ OldOf(e, x, y).opts = OldOf(d, x, y).opts
              /\ \/ \E j \in EntriesOf(d, x, y) :
                      x.Peers[j].AdvancedSecurity \/ x.Peers[j].DisableAdvancedSecurity
                 \/ OldOf(e, x, y).adv = OldOf(d, x, y).adv
              /\ \A a \in IPs :
                   \/ ClaimsOn(d, x, a) # {}
                   \/ \E j \in EntriesOf(d, x, y) : x.Peers[j].ReplaceAllowedIPs
                   \/ a \in OldOf(e, x, y).ips <=> a \in OldOf(d, x, y).ips
          BY <4>3, <5>1, <5>3, <5>4, <5>5 DEF now, then
        <5> QED BY <3>8, <5>6, AfterAlike
      <4> QED BY <4>2, <4>3
    <3> QED BY <3>9, <3>12, PeersAlike
  <2> QED BY <2>1, <2>2
<1>6. Configured(e, x) = Configured(d, x)
  BY <1>4, <1>5, ConfiguredIs
<1> QED BY <1>6 DEF e, h

\* So does the head of a request.
HeadSet(d, b) ==
  [dev   |-> IF b.dev = Nil THEN d.dev ELSE b.dev,
   awg   |-> IF b.awg = Nil THEN d.awg ELSE b.awg,
   peers |-> IF b.ReplacePeers THEN NoPeers ELSE d.peers]

LEMMA HeadAbsorbed ==
  ASSUME NEW x \in Config, NEW b, NEW j, HeadOf(x, b, j), NEW d
  PROVE  Configured(HeadSet(d, b), x) = Configured(d, x)
<1> DEFINE e == HeadSet(d, b)
<1>1. /\ e.dev = IF b.dev = Nil THEN d.dev ELSE b.dev
      /\ e.awg = IF b.awg = Nil THEN d.awg ELSE b.awg
      /\ e.peers = IF b.ReplacePeers THEN NoPeers ELSE d.peers
  BY DEF HeadSet
<1>2. b.dev = x.dev /\ b.awg \in {Nil, x.awg} /\ (b.ReplacePeers => x.ReplacePeers)
  BY DEF HeadOf
<1> HIDE DEF e
<1>3. BaseOf(e, x) = BaseOf(d, x) /\ \A k : OldOf(e, x, k) = OldOf(d, x, k)
  BY <1>1, <1>2 DEF BaseOf, OldOf
<1>4. Effective(e, x) = Effective(d, x)
  BY <1>3 DEF Effective
<1>5. KeysAfter(e, x) = KeysAfter(d, x)
  BY <1>3, <1>4 DEF KeysAfter
<1>6. \A k : /\ OptsAfter(e, x, k) = OptsAfter(d, x, k)
             /\ AdvAfter(e, x, k) = AdvAfter(d, x, k)
             /\ IPsAfter(e, x, k) = IPsAfter(d, x, k)
  BY <1>3, <1>4, AfterAlike
<1>7. PeersAfter(e, x) = PeersAfter(d, x)
  BY <1>5, <1>6, PeersAlike
<1>8. Configured(e, x) = Configured(d, x)
  BY <1>1, <1>2, <1>7, ConfiguredIs
<1> QED BY <1>8 DEF e

-----------------------------------------------------------------------------
(* A message of an independent configuration goes before or behind.        *)

\* The last of the entries that claim an allowed IP.
LEMMA LastClaim ==
  ASSUME NEW x \in Config, NEW S \in SUBSET DOMAIN x.Peers, S # {}
  PROVE  /\ Max(S) \in S /\ \A i \in S : i <= Max(S)
         /\ S \in SUBSET Nat
<1> DEFINE n == Len(x.Peers)
           T == {n - i : i \in S}
<1>0. n \in Nat /\ DOMAIN x.Peers = 1 .. n
  BY DEF Config
<1> HIDE DEF n
<1>1. T \in SUBSET Nat /\ T # {}
  <2>1. \A i \in S : i \in Nat /\ n - i \in Nat
    BY <1>0
  <2> QED BY <2>1
<1>2. PICK t \in T : \A u \in T : t <= u
  BY <1>1, LeastMember
<1>3. PICK i \in S : t = n - i
  BY <1>2
<1>4. \A j \in S : n - i <= n - j
  BY <1>2, <1>3
<1>5. \A j \in S : i \in Int /\ j \in Int /\ i >= j
  BY <1>0, <1>4
<1>6. S \in SUBSET Int /\ S \in SUBSET Nat
  BY <1>0
<1>7. Max(S) = i
  BY <1>5, <1>6, MaxIs
<1> QED BY <1>5, <1>6, <1>7

LEMMA ConfiguredType ==
  ASSUME NEW x \in Config, NEW d \in DeviceState
  PROVE  Configured(d, x) \in DeviceState /\ PeersAfter(d, x) \in PeerStates
<1>1. d.peers \in PeerStates /\ d.dev \in Values \union {Nil} /\ d.awg \in Values \union {Nil}
  BY DEF DeviceState
<1>2. DOMAIN d.peers \subseteq Keys /\ d.peers \in [DOMAIN d.peers -> PeerState]
  BY <1>1, PeersAre
<1>3. KeysAfter(d, x) \subseteq Keys
  BY <1>2, EntryIs DEF KeysAfter, Effective, BaseOf
<1>4. ASSUME NEW k PROVE OldOf(d, x, k) \in PeerState
  <2>1. NewPeer \in PeerState
    BY DEF NewPeer, PeerState
  <2> QED BY <1>2, <2>1 DEF OldOf, BaseOf
<1>5. ASSUME NEW k
      PROVE  [opts |-> OptsAfter(d, x, k), adv |-> AdvAfter(d, x, k), ips |-> IPsAfter(d, x, k)]
               \in PeerState
  <2>1. OldOf(d, x, k).opts \in Opts \union {Nil} /\ OldOf(d, x, k).adv \in BOOLEAN
    BY <1>4 DEF PeerState
  <2>2. OptsAfter(d, x, k) \in Opts \union {Nil}
    <3> DEFINE S == {x.Peers[i] : i \in EntriesOf(d, x, k)}
    <3>1. \A p \in S : p.opts \in Opts \union {Nil}
      BY EntryIs DEF EntriesOf, Effective
    <3>2. S # {} => (CHOOSE p \in S : TRUE) \in S
      OBVIOUS
    <3>3. (\E i \in EntriesOf(d, x, k) : x.Peers[i].opts # Nil) => S # {}
      OBVIOUS
    <3>4. OptsAfter(d, x, k) = IF \E i \in EntriesOf(d, x, k) : x.Peers[i].opts # Nil
                               THEN (CHOOSE p \in S : TRUE).opts ELSE OldOf(d, x, k).opts
      BY DEF OptsAfter
    <3> HIDE DEF S
    <3> QED BY <2>1, <3>1, <3>2, <3>3, <3>4
  <2>3. AdvAfter(d, x, k) \in BOOLEAN
    BY <2>1, EntryIs DEF AdvAfter, EntriesOf, Effective
  <2>4. IPsAfter(d, x, k) \in SUBSET IPs
    BY DEF IPsAfter
  <2> QED BY <2>2, <2>3, <2>4 DEF PeerState
<1>6. PeersAfter(d, x) \in PeerStates
  <2>1. DOMAIN PeersAfter(d, x) = KeysAfter(d, x)
    BY DEF PeersAfter
  <2>2. PeersAfter(d, x) \in [KeysAfter(d, x) -> PeerState]
    BY <1>5 DEF PeersAfter
  <2> QED BY <1>3, <2>1, <2>2, PeersAre
<1> DEFINE c == Configured(d, x)
<1>7. c = [dev   |-> IF x.dev = Nil THEN d.dev ELSE x.dev,
           awg   |-> IF x.awg = Nil THEN d.awg ELSE x.awg,
           peers |-> PeersAfter(d, x)]
  BY ConfiguredIs
<1> HIDE DEF c
<1>8. x.dev \in Values \union {Nil} /\ x.awg \in Values \union {Nil}
  BY DEF Config
<1> QED BY <1>1, <1>6, <1>7, <1>8 DEF DeviceState, c

\* A message that touches nothing that x is about.
Foreign(x, m) ==
  ~ x.ReplacePeers /\ m.key \notin KeysOf(x) /\ ToSet(m.ips) \intersect IPsOf(x) = {}

LEMMA Claimed ==
  ASSUME NEW x \in Config, NEW d, NEW a, ClaimsOn(d, x, a) # {}
  PROVE  a \in IPsOf(x) /\ x.Peers[Max(ClaimsOn(d, x, a))].PublicKey \in KeysOf(x)
<1>1. ClaimsOn(d, x, a) \in SUBSET DOMAIN x.Peers
  BY DEF ClaimsOn, Effective
<1>2. Max(ClaimsOn(d, x, a)) \in ClaimsOn(d, x, a)
  BY <1>1, LastClaim
<1> QED BY <1>1, <1>2 DEF ClaimsOn, IPsOf, KeysOf

LEMMA MessageCommutes ==
  ASSUME NEW x \in Config, NEW y \in Config, NEW m \in Messages(y), Foreign(x, m),
         NEW d \in DeviceState
  PROVE  Configured(Holding(d, SetPeer(d.peers, m)), x)
           = Holding(Configured(d, x), SetPeer(Configured(d, x).peers, m))
<1> DEFINE g == d.peers
           h == SetPeer(g, m)
           e == Holding(d, h)
           k == m.key
           G == PeersAfter(d, x)
           H == PeersAfter(e, x)
           F == SetPeer(G, m)
<1>1. PICK p \in PeerConfig : m = EncodePeer(p)
  BY DEF Messages, Agreeing
<1>2. g \in PeerStates /\ h \in PeerStates /\ Makes(g, m, h)
  BY <1>1, PeerIsSet, SetPeerMakes DEF DeviceState
<1>3. e.dev = d.dev /\ e.awg = d.awg /\ e.peers = h
  BY DEF Holding
<1>4. e \in DeviceState
  BY <1>2 DEF Holding, DeviceState
<1>5. G \in PeerStates /\ H \in PeerStates
  BY <1>4, ConfiguredType
<1>6. F \in PeerStates /\ Makes(G, m, F)
  BY <1>1, <1>5, PeerIsSet, SetPeerMakes
<1>7. /\ DOMAIN G = KeysAfter(d, x) /\ DOMAIN H = KeysAfter(e, x)
      /\ \A z \in KeysAfter(d, x) : /\ G[z].opts = OptsAfter(d, x, z)
                                    /\ G[z].adv = AdvAfter(d, x, z)
                                    /\ G[z].ips = IPsAfter(d, x, z)
      /\ \A z \in KeysAfter(e, x) : /\ H[z].opts = OptsAfter(e, x, z)
                                    /\ H[z].adv = AdvAfter(e, x, z)
                                    /\ H[z].ips = IPsAfter(e, x, z)
  BY DEF PeersAfter
<1> HIDE DEF h, e, G, H, F
<1>8. k \notin Removed(x) /\ \A i \in DOMAIN x.Peers : x.Peers[i].PublicKey # k
  BY DEF Foreign, KeysOf, Removed
<1>9. BaseOf(d, x) = DOMAIN g /\ BaseOf(e, x) = DOMAIN h
  BY <1>3 DEF BaseOf, Foreign
<1>10. k \in DOMAIN G <=> k \in DOMAIN g
  BY <1>7, <1>8, <1>9 DEF KeysAfter, Effective
<1>11. Sets(G, m) <=> Sets(g, m)
  BY <1>10 DEF Sets
<1>12. /\ Sets(g, m) => DOMAIN h = DOMAIN g \union {k}
       /\ ~ Sets(g, m) => DOMAIN h = DOMAIN g \ {k}
       /\ Sets(g, m) => DOMAIN F = DOMAIN G \union {k}
       /\ ~ Sets(g, m) => DOMAIN F = DOMAIN G \ {k}
  BY <1>2, <1>6, <1>11 DEF Makes
<1>13. Effective(e, x) = Effective(d, x)
  BY <1>8, <1>9, <1>12 DEF Effective
<1>14. k \notin {x.Peers[j].PublicKey : j \in Effective(d, x)}
  BY <1>8 DEF Effective
<1>15. DOMAIN H = DOMAIN F
  BY <1>7, <1>8, <1>9, <1>12, <1>13, <1>14 DEF KeysAfter
<1>16. \A z : OldOf(d, x, z) = Before(g, z) /\ OldOf(e, x, z) = Before(h, z)
  BY <1>3, <1>9 DEF OldOf, Before
<1>17. \A a : ClaimsOn(e, x, a) = ClaimsOn(d, x, a)
  BY <1>13 DEF ClaimsOn
<1>18. \A a : ClaimsOn(d, x, a) # {} =>
         a \notin ToSet(m.ips) /\ x.Peers[Max(ClaimsOn(d, x, a))].PublicKey # k
  BY Claimed DEF Foreign
<1>19. \A z : EntriesOf(e, x, z) = EntriesOf(d, x, z)
  BY <1>13 DEF EntriesOf
<1>20. ASSUME NEW z \in DOMAIN H PROVE Alike(H[z], F[z])
  <2>1. CASE z # k
    <3>1. z \in DOMAIN G /\ z \in KeysAfter(d, x) /\ z \in KeysAfter(e, x)
      BY <1>7, <1>12, <1>15, <2>1
    <3>2. /\ Before(h, z).opts = Before(g, z).opts /\ Before(h, z).adv = Before(g, z).adv
          /\ Before(h, z).ips = Before(g, z).ips \ (IF Sets(g, m) THEN ToSet(m.ips) ELSE {})
      <4>1. z \in DOMAIN h <=> z \in DOMAIN g
        BY <1>12, <2>1
      <4>2. CASE z \in DOMAIN g
        BY <1>2, <2>1, <4>1, <4>2 DEF Makes, Before
      <4>3. CASE z \notin DOMAIN g
        <5>1. Before(h, z) = NewPeer /\ Before(g, z) = NewPeer /\ NewPeer.ips = {}
          BY <4>1, <4>3 DEF Before, NewPeer
        <5> QED BY <5>1
      <4> QED BY <4>2, <4>3
    <3>3. F[z].opts = G[z].opts /\ F[z].adv = G[z].adv
          /\ F[z].ips = G[z].ips \ (IF Sets(g, m) THEN ToSet(m.ips) ELSE {})
      BY <1>6, <1>11, <1>15, <2>1, <3>1 DEF Makes
    <3>4. OptsAfter(e, x, z) = OptsAfter(d, x, z) /\ AdvAfter(e, x, z) = AdvAfter(d, x, z)
      <4>1. OldOf(e, x, z).opts = OldOf(d, x, z).opts /\ OldOf(e, x, z).adv = OldOf(d, x, z).adv
        BY <1>16, <3>2
      <4> QED BY <1>13, <4>1, FieldsAlike
    <3>5. \A a \in IPs : a \in IPsAfter(e, x, z) <=>
            a \in IPsAfter(d, x, z) /\ ~ (Sets(g, m) /\ a \in ToSet(m.ips))
      BY <1>16, <1>17, <1>18, <1>19, <3>2 DEF IPsAfter
    <3>6. IPsAfter(e, x, z) = IPsAfter(d, x, z) \ (IF Sets(g, m) THEN ToSet(m.ips) ELSE {})
      <4>1. IPsAfter(e, x, z) \subseteq IPs /\ IPsAfter(d, x, z) \subseteq IPs
        BY DEF IPsAfter
      <4> QED BY <3>5, <4>1
    <3> QED BY <1>7, <3>1, <3>3, <3>4, <3>6 DEF Alike
  <2>2. CASE z = k
    <3>1. Sets(g, m) /\ k \in DOMAIN h /\ k \in KeysAfter(e, x)
      BY <1>7, <1>12, <1>15, <2>2
    <3>2. EntriesOf(d, x, k) = {} /\ EntriesOf(e, x, k) = {}
      BY <1>8, <1>19 DEF EntriesOf, Effective
    <3>3. /\ OptsAfter(d, x, k) = OldOf(d, x, k).opts /\ AdvAfter(d, x, k) = OldOf(d, x, k).adv
          /\ OptsAfter(e, x, k) = OldOf(e, x, k).opts /\ AdvAfter(e, x, k) = OldOf(e, x, k).adv
      BY <3>2 DEF OptsAfter, AdvAfter
    <3>4. Before(h, k) = h[k]
      BY <3>1 DEF Before
    <3>5. Before(G, k).opts = Before(g, k).opts /\ Before(G, k).adv = Before(g, k).adv
      <4>1. CASE k \in DOMAIN G
        <5>1. k \in DOMAIN g /\ k \in KeysAfter(d, x)
          BY <1>7, <1>10, <4>1
        <5> QED BY <1>7, <1>16, <3>3, <4>1, <5>1 DEF Before
      <4>2. CASE k \notin DOMAIN G
        BY <1>10, <4>2 DEF Before
      <4> QED BY <4>1, <4>2
    <3>6. H[k].opts = F[k].opts /\ H[k].adv = F[k].adv
      <4>1. H[k].opts = h[k].opts /\ H[k].adv = h[k].adv
        BY <1>7, <1>16, <3>1, <3>3, <3>4
      <4> QED BY <1>2, <1>6, <1>11, <3>1, <3>5, <4>1 DEF Makes
    <3>7. \A a \in IPs : a \in Before(G, k).ips <=> ClaimsOn(d, x, a) = {} /\ a \in Before(g, k).ips
      <4>1. CASE k \in DOMAIN G
        <5>1. Before(G, k).ips = IPsAfter(d, x, k)
          BY <1>7, <4>1 DEF Before
        <5> QED BY <1>16, <1>18, <3>2, <5>1 DEF IPsAfter
      <4>2. CASE k \notin DOMAIN G
        <5>1. Before(G, k) = NewPeer /\ Before(g, k) = NewPeer /\ NewPeer.ips = {}
          BY <1>10, <4>2 DEF Before, NewPeer
        <5> QED BY <5>1
      <4> QED BY <4>1, <4>2
    <3>8. \A a \in IPs : a \in H[k].ips <=> ClaimsOn(d, x, a) = {} /\ a \in h[k].ips
      <4>1. H[k].ips = IPsAfter(e, x, k)
        BY <1>7, <3>1
      <4> QED BY <1>16, <1>17, <1>18, <3>2, <3>4, <4>1 DEF IPsAfter
    <3>9. /\ h[k].ips = ToSet(m.ips) \union
               (IF "REPLACE_ALLOWEDIPS" \in m.flags THEN {} ELSE Before(g, k).ips)
          /\ F[k].ips = ToSet(m.ips) \union
               (IF "REPLACE_ALLOWEDIPS" \in m.flags THEN {} ELSE Before(G, k).ips)
      BY <1>2, <1>6, <1>11, <3>1 DEF Makes
    <3>10. \A a \in IPs : a \in H[k].ips <=> a \in F[k].ips
      BY <1>18, <3>7, <3>8, <3>9
    <3>11. H[k].ips \subseteq IPs /\ F[k].ips \subseteq IPs
      <4>1. H[k] \in PeerState /\ F[k] \in PeerState
        BY <1>5, <1>6, <1>15, <2>2, PeersAre
      <4> QED BY <4>1 DEF PeerState
    <3> QED BY <2>2, <3>6, <3>10, <3>11 DEF Alike
  <2> QED BY <2>1, <2>2
<1>21. H = F
  BY <1>5, <1>6, <1>15, <1>20, SamePeers
<1> DEFINE c == Configured(d, x)
<1>22. /\ c.dev = (IF x.dev = Nil THEN d.dev ELSE x.dev)
       /\ c.awg = (IF x.awg = Nil THEN d.awg ELSE x.awg)
       /\ c.peers = G
  BY ConfiguredIs DEF G
<1> HIDE DEF c
<1>23. Configured(e, x) = [dev |-> c.dev, awg |-> c.awg, peers |-> F]
  BY <1>3, <1>21, <1>22, ConfiguredIs DEF H
<1> QED BY <1>22, <1>23 DEF Holding, c, e, h, F

\* So does the head of a request.
LEMMA HeadCommutes ==
  ASSUME NEW x \in Config, NEW y \in Config, Independent(x, y), NEW b, NEW j, HeadOf(y, b, j),
         NEW d
  PROVE  Configured(HeadSet(d, b), x) = HeadSet(Configured(d, x), b)
<1> DEFINE e == HeadSet(d, b)
           c == Configured(d, x)
<1>1. /\ e.dev = (IF b.dev = Nil THEN d.dev ELSE b.dev)
      /\ e.awg = (IF b.awg = Nil THEN d.awg ELSE b.awg)
      /\ e.peers = (IF b.ReplacePeers THEN NoPeers ELSE d.peers)
  BY DEF HeadSet
<1>2. ~ b.ReplacePeers /\ (x.dev = Nil \/ b.dev = Nil) /\ (x.awg = Nil \/ b.awg = Nil)
  BY DEF HeadOf, Independent
<1>3. /\ c.dev = (IF x.dev = Nil THEN d.dev ELSE x.dev)
      /\ c.awg = (IF x.awg = Nil THEN d.awg ELSE x.awg)
      /\ c.peers = PeersAfter(d, x)
  BY ConfiguredIs
<1> HIDE DEF e, c
<1>4. BaseOf(e, x) = BaseOf(d, x) /\ \A k : OldOf(e, x, k) = OldOf(d, x, k)
  BY <1>1, <1>2 DEF BaseOf, OldOf
<1>5. Effective(e, x) = Effective(d, x)
  BY <1>4 DEF Effective
<1>6. KeysAfter(e, x) = KeysAfter(d, x)
  BY <1>4, <1>5 DEF KeysAfter
<1>7. \A k : /\ OptsAfter(e, x, k) = OptsAfter(d, x, k)
             /\ AdvAfter(e, x, k) = AdvAfter(d, x, k)
             /\ IPsAfter(e, x, k) = IPsAfter(d, x, k)
  BY <1>4, <1>5, AfterAlike
<1>8. PeersAfter(e, x) = PeersAfter(d, x)
  BY <1>6, <1>7, PeersAlike
<1>9. Configured(e, x) = [dev   |-> IF x.dev = Nil THEN e.dev ELSE x.dev,
                          awg   |-> IF x.awg = Nil THEN e.awg ELSE x.awg,
                          peers |-> PeersAfter(d, x)]
  BY <1>8, ConfiguredIs
<1>10. HeadSet(c, b) = [dev   |-> IF b.dev = Nil THEN c.dev ELSE b.dev,
                        awg   |-> IF b.awg = Nil THEN c.awg ELSE b.awg,
                        peers |-> c.peers]
  BY <1>2 DEF HeadSet
<1>11. Configured(e, x) = HeadSet(c, b)
  BY <1>1, <1>2, <1>3, <1>9, <1>10
<1> QED BY <1>11 DEF e, c

-----------------------------------------------------------------------------
(* What is done when the first n of a configuration's messages have been   *)
(* sent, and other callers' in between.                                    *)

\* ms are the messages of x, one behind the other: each carries an entry or
\* a part of it, in the order of the entries, the fields of an entry in some
\* message, REPLACE_ALLOWEDIPS in the first only, all its allowed IPs.
Tells(x, ms) ==
  /\ ms \in Seq(Messages(x))
  /\ \A j, l \in 1 .. Len(ms) :
       l < j /\ ms[l].key = ms[j].key => "REPLACE_ALLOWEDIPS" \notin ms[j].flags
  /\ \A j, l \in 1 .. Len(ms) : \A i, q \in DOMAIN x.Peers :
       (/\ j < l
        /\ ms[j].key = x.Peers[i].PublicKey
        /\ ms[l].key = x.Peers[q].PublicKey) => i <= q
  /\ \A i \in DOMAIN x.Peers : \E j \in 1 .. Len(ms) :
       /\ ms[j].key = x.Peers[i].PublicKey
       /\ ms[j].opts = x.Peers[i].opts
       /\ x.Peers[i].ReplaceAllowedIPs => "REPLACE_ALLOWEDIPS" \in ms[j].flags
  /\ \A i \in DOMAIN x.Peers : \A a \in ToSet(x.Peers[i].AllowedIPs) : \E j \in 1 .. Len(ms) :
       ms[j].key = x.Peers[i].PublicKey /\ a \in ToSet(ms[j].ips)

\* Peers that were to be removed are gone, those to be set are there.
Present(g, ms, n) ==
  \A j \in 1 .. n :
    /\ "REMOVE_ME" \in ms[j].flags => ms[j].key \notin DOMAIN g
    /\ "REMOVE_ME" \notin ms[j].flags /\ "UPDATE_ONLY" \notin ms[j].flags => ms[j].key \in DOMAIN g

\* Their fields are set.
Given(g, ms, n) ==
  \A j \in 1 .. n : ms[j].key \in DOMAIN g =>
    /\ ms[j].opts # Nil => g[ms[j].key].opts = ms[j].opts
    /\ "HAS_ADVANCED_SECURITY" \in ms[j].flags => g[ms[j].key].adv = ms[j].adv

\* An allowed IP is with the peer of the last message that claims it.
Latest(g, ms, n, j, a) ==
  \A l \in 1 .. n : l > j /\ ms[l].key \in DOMAIN g => a \notin ToSet(ms[l].ips)
Owned(g, ms, n) ==
  \A j \in 1 .. n : \A a \in ToSet(ms[j].ips) :
    ms[j].key \in DOMAIN g /\ Latest(g, ms, n, j, a) =>
      \A k \in DOMAIN g : a \in g[k].ips <=> k = ms[j].key

\* Some message claims it for k.
ClaimedFor(ms, n, k, a) == \E l \in 1 .. n : ms[l].key = k /\ a \in ToSet(ms[l].ips)

\* Allowed IPs that were to be replaced are.
Replaced(g, ms, n) ==
  \A j \in 1 .. n : ms[j].key \in DOMAIN g /\ "REPLACE_ALLOWEDIPS" \in ms[j].flags =>
    \A a \in g[ms[j].key].ips : ClaimedFor(ms, n, ms[j].key, a)

Done(g, ms, n) == Present(g, ms, n) /\ Given(g, ms, n) /\ Owned(g, ms, n) /\ Replaced(g, ms, n)

\* The peers are those of the messages, and have nothing else.
Fresh(g, ms, n) ==
  \A k \in DOMAIN g :
    /\ \E j \in 1 .. n : /\ ms[j].key = k
                         /\ "REMOVE_ME" \notin ms[j].flags /\ "UPDATE_ONLY" \notin ms[j].flags
    /\ g[k].opts # Nil => \E j \in 1 .. n : ms[j].key = k /\ ms[j].opts # Nil
    /\ g[k].adv => \E j \in 1 .. n : ms[j].key = k /\ "HAS_ADVANCED_SECURITY" \in ms[j].flags
    /\ \A a \in g[k].ips : ClaimedFor(ms, n, k, a)

\* Messages of one key carry the same entry.
LEMMA SameEntry ==
  ASSUME NEW x \in Config, EachOnce(x), NEW ms, Tells(x, ms),
         NEW j \in 1 .. Len(ms), NEW l \in 1 .. Len(ms), ms[j].key = ms[l].key
  PROVE  /\ "REMOVE_ME" \in ms[j].flags <=> "REMOVE_ME" \in ms[l].flags
         /\ "UPDATE_ONLY" \in ms[j].flags <=> "UPDATE_ONLY" \in ms[l].flags
         /\ "HAS_ADVANCED_SECURITY" \in ms[j].flags <=> "HAS_ADVANCED_SECURITY" \in ms[l].flags
         /\ ms[j].adv = ms[l].adv
         /\ ms[j].opts = Nil \/ ms[l].opts = Nil \/ ms[j].opts = ms[l].opts
<1>1. ms \in Seq(Messages(x))
  BY DEF Tells
<1>2. ms[j] \in Messages(x) /\ ms[l] \in Messages(x)
  BY <1>1
<1>3. PICK i \in DOMAIN x.Peers : Carries(ms[j], x.Peers[i])
  BY <1>2, MessageCarries
<1>4. PICK q \in DOMAIN x.Peers : Carries(ms[l], x.Peers[q])
  BY <1>2, MessageCarries
<1>5. i = q
  BY <1>3, <1>4 DEF EachOnce, Carries
<1> QED BY <1>3, <1>4, <1>5 DEF Carries

\* The next message of x.
LEMMA PresentStep ==
  ASSUME NEW x \in Config, EachOnce(x), NEW ms, Tells(x, ms), NEW n \in Nat, n + 1 \in 1 .. Len(ms),
         NEW g, NEW h, Makes(g, ms[n + 1], h), Present(g, ms, n)
  PROVE  Present(h, ms, n + 1)
<1> DEFINE m == ms[n + 1]
<1>1. \A j \in 1 .. (n + 1) : j = n + 1 \/ j \in 1 .. n
  OBVIOUS
<1>2. \A j \in 1 .. (n + 1) : j \in 1 .. Len(ms)
  <2>1. Len(ms) \in Nat
    BY DEF Tells
  <2> QED BY <2>1
<1>3. \A j \in 1 .. n : ms[j].key = m.key =>
        /\ "REMOVE_ME" \in ms[j].flags <=> "REMOVE_ME" \in m.flags
        /\ "UPDATE_ONLY" \in ms[j].flags <=> "UPDATE_ONLY" \in m.flags
  BY <1>2, SameEntry
<1>4. /\ Sets(g, m) => DOMAIN h = DOMAIN g \union {m.key}
      /\ ~ Sets(g, m) => DOMAIN h = DOMAIN g \ {m.key}
  BY DEF Makes
<1> HIDE DEF m
<1>5. ASSUME NEW j \in 1 .. (n + 1)
      PROVE  /\ "REMOVE_ME" \in ms[j].flags => ms[j].key \notin DOMAIN h
             /\ "REMOVE_ME" \notin ms[j].flags /\ "UPDATE_ONLY" \notin ms[j].flags
                  => ms[j].key \in DOMAIN h
  <2>1. CASE j = n + 1
    BY <1>4, <2>1 DEF Sets, m
  <2>2. CASE j \in 1 .. n /\ ms[j].key = m.key
    <3>1. /\ "REMOVE_ME" \in ms[j].flags <=> "REMOVE_ME" \in m.flags
          /\ "UPDATE_ONLY" \in ms[j].flags <=> "UPDATE_ONLY" \in m.flags
      BY <1>3, <2>2
    <3> QED BY <1>4, <2>2, <3>1 DEF Sets
  <2>3. CASE j \in 1 .. n /\ ms[j].key # m.key
    BY <1>4, <2>3 DEF Present
  <2> QED BY <1>1, <2>1, <2>2, <2>3
<1> QED BY <1>5 DEF Present

\* If it sets a peer that an earlier message named, the peer was there.
LEMMA WasThere ==
  ASSUME NEW x \in Config, EachOnce(x), NEW ms, Tells(x, ms), NEW n \in Nat, n + 1 \in 1 .. Len(ms),
         NEW g, Present(g, ms, n), Sets(g, ms[n + 1]),
         NEW j \in 1 .. n, ms[j].key = ms[n + 1].key
  PROVE  ms[j].key \in DOMAIN g
<1>1. j \in 1 .. Len(ms)
  <2>1. Len(ms) \in Nat
    BY DEF Tells
  <2> QED BY <2>1
<1>2. /\ "REMOVE_ME" \in ms[j].flags <=> "REMOVE_ME" \in ms[n + 1].flags
      /\ "UPDATE_ONLY" \in ms[j].flags <=> "UPDATE_ONLY" \in ms[n + 1].flags
  BY <1>1, SameEntry
<1> QED BY <1>2 DEF Sets, Present

LEMMA GivenStep ==
  ASSUME NEW x \in Config, EachOnce(x), NEW ms, Tells(x, ms), NEW n \in Nat, n + 1 \in 1 .. Len(ms),
         NEW g, NEW h, Makes(g, ms[n + 1], h), Present(g, ms, n), Given(g, ms, n)
  PROVE  Given(h, ms, n + 1)
<1> DEFINE m == ms[n + 1]
           k == m.key
<1>1. \A j \in 1 .. (n + 1) : j = n + 1 \/ j \in 1 .. n
  OBVIOUS
<1>2. \A j \in 1 .. n : j \in 1 .. Len(ms)
  <2>1. Len(ms) \in Nat
    BY DEF Tells
  <2> QED BY <2>1
<1>3. ASSUME NEW j \in 1 .. n, ms[j].key = k
      PROVE  /\ "HAS_ADVANCED_SECURITY" \in ms[j].flags <=> "HAS_ADVANCED_SECURITY" \in m.flags
             /\ ms[j].adv = m.adv
             /\ ms[j].opts = Nil \/ m.opts = Nil \/ ms[j].opts = m.opts
             /\ Sets(g, m) => k \in DOMAIN g
  <2>1. j \in 1 .. Len(ms)
    BY <1>2
  <2> QED BY <1>3, <2>1, SameEntry, WasThere
<1>4. Makes(g, m, h)
  OBVIOUS
<1> HIDE DEF m
<1>5. ASSUME NEW j \in 1 .. (n + 1), ms[j].key \in DOMAIN h
      PROVE  /\ ms[j].opts # Nil => h[ms[j].key].opts = ms[j].opts
             /\ "HAS_ADVANCED_SECURITY" \in ms[j].flags => h[ms[j].key].adv = ms[j].adv
  <2>1. CASE ~ Sets(g, m)
    <3>1. DOMAIN h = DOMAIN g \ {k} /\ h[ms[j].key] = g[ms[j].key]
      BY <1>4, <1>5, <2>1 DEF Makes
    <3>2. j \in 1 .. n /\ ms[j].key \in DOMAIN g
      BY <1>1, <1>5, <3>1 DEF m
    <3> QED BY <3>1, <3>2 DEF Given
  <2>2. CASE Sets(g, m) /\ ms[j].key # k
    <3>1. j \in 1 .. n
      BY <1>1, <2>2 DEF m
    <3>2. ms[j].key \in DOMAIN g
      BY <1>4, <1>5, <2>2 DEF Makes
    <3>3. h[ms[j].key].opts = g[ms[j].key].opts /\ h[ms[j].key].adv = g[ms[j].key].adv
      BY <1>4, <2>2, <3>2 DEF Makes
    <3> QED BY <3>1, <3>2, <3>3 DEF Given
  <2>3. CASE Sets(g, m) /\ ms[j].key = k
    <3>1. /\ h[k].opts = (IF m.opts = Nil THEN Before(g, k).opts ELSE m.opts)
          /\ h[k].adv = (IF "HAS_ADVANCED_SECURITY" \in m.flags THEN m.adv ELSE Before(g, k).adv)
      BY <1>4, <2>3 DEF Makes
    <3>2. CASE j = n + 1
      BY <2>3, <3>1, <3>2 DEF m
    <3>3. CASE j \in 1 .. n
      <4>1. k \in DOMAIN g /\ Before(g, k) = g[k]
        BY <1>3, <2>3, <3>3 DEF Before
      <4>2. ms[j].opts # Nil => g[k].opts = ms[j].opts
        BY <2>3, <3>3, <4>1 DEF Given
      <4>3. "HAS_ADVANCED_SECURITY" \in ms[j].flags => "HAS_ADVANCED_SECURITY" \in m.flags /\ m.adv = ms[j].adv
        BY <1>3, <2>3, <3>3
      <4>4. ms[j].opts # Nil => m.opts = Nil \/ m.opts = ms[j].opts
        BY <1>3, <2>3, <3>3
      <4> QED BY <2>3, <3>1, <4>1, <4>2, <4>3, <4>4
    <3> QED BY <1>1, <3>2, <3>3
  <2> QED BY <2>1, <2>2, <2>3
<1> QED BY <1>5 DEF Given

LEMMA OwnedStep ==
  ASSUME NEW x \in Config, EachOnce(x), NEW ms, Tells(x, ms), NEW n \in Nat, n + 1 \in 1 .. Len(ms),
         NEW g, NEW h, Makes(g, ms[n + 1], h), Present(g, ms, n), Owned(g, ms, n)
  PROVE  Owned(h, ms, n + 1)
<1> DEFINE m == ms[n + 1]
           k == m.key
<1>1. \A j : j \in 1 .. (n + 1) <=> j = n + 1 \/ j \in 1 .. n
  OBVIOUS
<1>2. \A j \in 1 .. n : j \in 1 .. Len(ms) /\ n + 1 > j
  <2>1. Len(ms) \in Nat
    BY DEF Tells
  <2> QED BY <2>1
<1>3. Makes(g, m, h)
  OBVIOUS
<1>4. \A j \in 1 .. n : ms[j].key = k =>
        /\ "REMOVE_ME" \in ms[j].flags <=> "REMOVE_ME" \in m.flags
        /\ "UPDATE_ONLY" \in ms[j].flags <=> "UPDATE_ONLY" \in m.flags
        /\ "REPLACE_ALLOWEDIPS" \notin m.flags
        /\ Sets(g, m) => k \in DOMAIN g
  <2> TAKE j \in 1 .. n
  <2> HAVE ms[j].key = k
  <2>1. j \in 1 .. Len(ms) /\ n + 1 \in 1 .. Len(ms) /\ j < n + 1
    BY <1>2
  <2>2. "REPLACE_ALLOWEDIPS" \notin m.flags
    BY <2>1 DEF Tells
  <2> QED BY <2>1, <2>2, SameEntry, WasThere
<1> HIDE DEF m
\* Who was in the way is still.
<1>5. \A l \in 1 .. n : ms[l].key \in DOMAIN g => ms[l].key \in DOMAIN h
  <2> SUFFICES ASSUME NEW l \in 1 .. n, ms[l].key \in DOMAIN g, ms[l].key \notin DOMAIN h
               PROVE  FALSE
    OBVIOUS
  <2>1. ~ Sets(g, m) /\ ms[l].key = k
    BY <1>3 DEF Makes
  <2>2. "REMOVE_ME" \in ms[l].flags
    BY <1>4, <2>1 DEF Sets
  <2> QED BY <2>2 DEF Present
<1>6. ASSUME NEW j \in 1 .. (n + 1), NEW a \in ToSet(ms[j].ips), ms[j].key \in DOMAIN h,
             Latest(h, ms, n + 1, j, a), NEW y \in DOMAIN h
      PROVE  a \in h[y].ips <=> y = ms[j].key
  <2>1. CASE j = n + 1
    <3>1. Sets(g, m) /\ ms[j].key = k /\ a \in ToSet(m.ips)
      BY <1>3, <1>6, <2>1 DEF Makes, m
    <3>2. CASE y = k
      BY <1>3, <3>1, <3>2 DEF Makes
    <3>3. CASE y # k
      <4>1. y \in DOMAIN g \ {k}
        BY <1>3, <3>1, <3>3 DEF Makes
      <4> QED BY <1>3, <3>1, <4>1 DEF Makes
    <3> QED BY <3>2, <3>3
  <2>2. CASE j \in 1 .. n
    <3>1. Sets(g, m) => a \notin ToSet(m.ips) /\ k \in DOMAIN h
      <4>1. Sets(g, m) => k \in DOMAIN h
        BY <1>3 DEF Makes
      <4>2. n + 1 \in 1 .. (n + 1) /\ n + 1 > j
        BY <1>1, <1>2, <2>2
      <4> QED BY <1>6, <4>1, <4>2 DEF Latest, m
    <3>2. ms[j].key \in DOMAIN g
      BY <1>3, <1>4, <1>6, <2>2 DEF Makes
    <3>3. Latest(g, ms, n, j, a)
      BY <1>1, <1>5, <1>6 DEF Latest
    <3>4. \A z \in DOMAIN g : a \in g[z].ips <=> z = ms[j].key
      BY <2>2, <3>2, <3>3 DEF Owned
    <3>5. CASE ~ Sets(g, m)
      <4>1. y \in DOMAIN g /\ h[y] = g[y]
        BY <1>3, <3>5 DEF Makes
      <4> QED BY <3>4, <4>1
    <3>6. CASE Sets(g, m) /\ y # k
      <4>1. y \in DOMAIN g \ {k}
        BY <1>3, <3>6 DEF Makes
      <4>2. h[y].ips = g[y].ips \ ToSet(m.ips)
        BY <1>3, <3>6, <4>1 DEF Makes
      <4> QED BY <3>1, <3>4, <3>6, <4>1, <4>2
    <3>7. CASE Sets(g, m) /\ y = k
      <4>1. h[k].ips = ToSet(m.ips) \union
              (IF "REPLACE_ALLOWEDIPS" \in m.flags THEN {} ELSE Before(g, k).ips)
        BY <1>3, <3>7 DEF Makes
      <4>2. CASE ms[j].key = k
        <5>1. k \in DOMAIN g /\ "REPLACE_ALLOWEDIPS" \notin m.flags
          BY <1>4, <2>2, <3>7, <4>2
        <5>2. a \in g[k].ips
          BY <3>4, <4>2, <5>1
        <5> QED BY <3>7, <4>1, <4>2, <5>1, <5>2 DEF Before
      <4>3. CASE ms[j].key # k
        <5>1. a \notin Before(g, k).ips
          BY <3>4, <4>3 DEF Before, NewPeer
        <5> QED BY <3>1, <3>7, <4>1, <4>3, <5>1
      <4> QED BY <4>2, <4>3
    <3> QED BY <3>5, <3>6, <3>7
  <2> QED BY <1>1, <2>1, <2>2
<1> QED BY <1>6 DEF Owned

LEMMA ReplacedStep ==
  ASSUME NEW x \in Config, EachOnce(x), NEW ms, Tells(x, ms), NEW n \in Nat, n + 1 \in 1 .. Len(ms),
         NEW g, NEW h, Makes(g, ms[n + 1], h), Present(g, ms, n), Replaced(g, ms, n)
  PROVE  Replaced(h, ms, n + 1)
<1> DEFINE m == ms[n + 1]
           k == m.key
<1>1. \A j : j \in 1 .. (n + 1) <=> j = n + 1 \/ j \in 1 .. n
  OBVIOUS
<1>2. Makes(g, m, h)
  OBVIOUS
<1>3. \A j \in 1 .. n : ms[j].key = k /\ Sets(g, m) => k \in DOMAIN g
  BY WasThere
<1>4. \A y, a : ClaimedFor(ms, n, y, a) => ClaimedFor(ms, n + 1, y, a)
  BY <1>1 DEF ClaimedFor
<1>5. \A a \in ToSet(m.ips) : ClaimedFor(ms, n + 1, k, a)
  BY <1>1 DEF ClaimedFor
<1> HIDE DEF m
<1>6. ASSUME NEW j \in 1 .. (n + 1), ms[j].key \in DOMAIN h, "REPLACE_ALLOWEDIPS" \in ms[j].flags,
             NEW a \in h[ms[j].key].ips
      PROVE  ClaimedFor(ms, n + 1, ms[j].key, a)
  <2>1. CASE ~ Sets(g, m)
    <3>1. ms[j].key \in DOMAIN g /\ ms[j].key # k /\ h[ms[j].key] = g[ms[j].key]
      BY <1>2, <1>6, <2>1 DEF Makes
    <3>2. j \in 1 .. n
      BY <1>1, <3>1 DEF m
    <3> QED BY <1>4, <1>6, <3>1, <3>2 DEF Replaced
  <2>2. CASE Sets(g, m) /\ ms[j].key # k
    <3>1. ms[j].key \in DOMAIN g \ {k} /\ h[ms[j].key].ips \subseteq g[ms[j].key].ips
      BY <1>2, <1>6, <2>2 DEF Makes
    <3>2. j \in 1 .. n
      BY <1>1, <2>2 DEF m
    <3> QED BY <1>4, <1>6, <3>1, <3>2 DEF Replaced
  <2>3. CASE Sets(g, m) /\ ms[j].key = k
    <3>1. h[k].ips = ToSet(m.ips) \union
            (IF "REPLACE_ALLOWEDIPS" \in m.flags THEN {} ELSE Before(g, k).ips)
      BY <1>2, <2>3 DEF Makes
    <3>2. CASE j = n + 1
      <4>1. a \in ToSet(m.ips)
        BY <1>6, <2>3, <3>1, <3>2 DEF m
      <4> QED BY <1>5, <2>3, <4>1
    <3>3. CASE j \in 1 .. n
      <4>1. k \in DOMAIN g /\ Before(g, k) = g[k]
        BY <1>3, <2>3, <3>3 DEF Before
      <4>2. a \in ToSet(m.ips) \/ a \in g[k].ips
        BY <1>6, <2>3, <3>1, <4>1
      <4>3. a \in g[k].ips => ClaimedFor(ms, n, k, a)
        BY <1>6, <2>3, <3>3, <4>1 DEF Replaced
      <4> QED BY <1>4, <1>5, <2>3, <4>2, <4>3
    <3> QED BY <1>1, <3>2, <3>3
  <2> QED BY <2>1, <2>2, <2>3
<1> QED BY <1>6 DEF Replaced

LEMMA DoneStep ==
  ASSUME NEW x \in Config, EachOnce(x), NEW ms, Tells(x, ms), NEW n \in Nat, n + 1 \in 1 .. Len(ms),
         NEW g \in PeerStates, Done(g, ms, n)
  PROVE  Done(SetPeer(g, ms[n + 1]), ms, n + 1)
<1> DEFINE h == SetPeer(g, ms[n + 1])
<1>1. Makes(g, ms[n + 1], h)
  BY SetPeerMakes
<1> HIDE DEF h
<1>2. Done(h, ms, n + 1)
  BY <1>1, PresentStep, GivenStep, OwnedStep, ReplacedStep DEF Done
<1> QED BY <1>2 DEF h

LEMMA FreshStep ==
  ASSUME NEW ms, NEW n \in Nat,
         NEW g \in PeerStates, Fresh(g, ms, n)
  PROVE  Fresh(SetPeer(g, ms[n + 1]), ms, n + 1)
<1> DEFINE m == ms[n + 1]
           k == m.key
           h == SetPeer(g, m)
<1>1. \A j : j \in 1 .. (n + 1) <=> j = n + 1 \/ j \in 1 .. n
  OBVIOUS
<1>2. Makes(g, m, h)
  BY SetPeerMakes
<1>3. \A y, a : ClaimedFor(ms, n, y, a) => ClaimedFor(ms, n + 1, y, a)
  BY <1>1 DEF ClaimedFor
<1>4. \A a \in ToSet(m.ips) : ClaimedFor(ms, n + 1, k, a)
  BY <1>1 DEF ClaimedFor
<1> DEFINE Part(y) ==
             /\ \E j \in 1 .. (n + 1) :
                  /\ ms[j].key = y
                  /\ "REMOVE_ME" \notin ms[j].flags /\ "UPDATE_ONLY" \notin ms[j].flags
             /\ h[y].opts # Nil => \E j \in 1 .. (n + 1) : ms[j].key = y /\ ms[j].opts # Nil
             /\ h[y].adv => \E j \in 1 .. (n + 1) :
                              ms[j].key = y /\ "HAS_ADVANCED_SECURITY" \in ms[j].flags
             /\ \A a \in h[y].ips : ClaimedFor(ms, n + 1, y, a)
<1> HIDE DEF h
<1>5. ASSUME NEW y \in DOMAIN g, y \in DOMAIN h, h[y].opts = g[y].opts, h[y].adv = g[y].adv,
             h[y].ips \subseteq g[y].ips
      PROVE  Part(y)
  BY <1>1, <1>3, <1>5 DEF Fresh
<1>6. ASSUME NEW y \in DOMAIN h PROVE Part(y)
  <2>1. CASE ~ Sets(g, m)
    <3>1. y \in DOMAIN g /\ h[y] = g[y]
      BY <1>2, <2>1 DEF Makes
    <3> HIDE DEF Part
    <3> QED BY <1>5, <3>1
  <2>2. CASE Sets(g, m) /\ y # k
    <3>1. y \in DOMAIN g \ {k}
      BY <1>2, <2>2 DEF Makes
    <3>2. h[y].opts = g[y].opts /\ h[y].adv = g[y].adv /\ h[y].ips = g[y].ips \ ToSet(m.ips)
      BY <1>2, <2>2, <3>1 DEF Makes
    <3> HIDE DEF Part
    <3> QED BY <1>5, <3>1, <3>2
  <2>3. CASE Sets(g, m) /\ y = k
    <3>1. /\ h[k].opts = (IF m.opts = Nil THEN Before(g, k).opts ELSE m.opts)
          /\ h[k].adv = (IF "HAS_ADVANCED_SECURITY" \in m.flags THEN m.adv ELSE Before(g, k).adv)
          /\ h[k].ips = ToSet(m.ips) \union
               (IF "REPLACE_ALLOWEDIPS" \in m.flags THEN {} ELSE Before(g, k).ips)
      BY <1>2, <2>3 DEF Makes
    <3>2. n + 1 \in 1 .. (n + 1) /\ ms[n + 1].key = k
      BY <1>1
    <3>3. CASE k \in DOMAIN g
      <4>1. Before(g, k) = g[k]
        BY <3>3 DEF Before
      <4>2. /\ \E j \in 1 .. n : ms[j].key = k /\ "REMOVE_ME" \notin ms[j].flags
                                  /\ "UPDATE_ONLY" \notin ms[j].flags
            /\ g[k].opts # Nil => \E j \in 1 .. n : ms[j].key = k /\ ms[j].opts # Nil
            /\ g[k].adv => \E j \in 1 .. n :
                             ms[j].key = k /\ "HAS_ADVANCED_SECURITY" \in ms[j].flags
            /\ \A a \in g[k].ips : ClaimedFor(ms, n, k, a)
        BY <3>3 DEF Fresh
      <4>3. h[k].opts # Nil => m.opts # Nil \/ g[k].opts # Nil
        BY <3>1, <4>1
      <4>4. h[k].adv => "HAS_ADVANCED_SECURITY" \in m.flags \/ g[k].adv
        BY <3>1, <4>1
      <4>5. \A a \in h[k].ips : a \in ToSet(m.ips) \/ a \in g[k].ips
        BY <3>1, <4>1
      <4> QED BY <1>1, <1>3, <1>4, <2>3, <3>2, <4>2, <4>3, <4>4, <4>5
    <3>4. CASE k \notin DOMAIN g
      <4>1. Before(g, k).opts = Nil /\ ~ Before(g, k).adv /\ Before(g, k).ips = {}
        BY <3>4 DEF Before, NewPeer
      <4>2. "REMOVE_ME" \notin m.flags /\ "UPDATE_ONLY" \notin m.flags
        BY <2>3, <3>4 DEF Sets
      <4>3. h[k].opts # Nil => m.opts # Nil
        BY <3>1, <4>1
      <4>4. h[k].adv => "HAS_ADVANCED_SECURITY" \in m.flags
        BY <3>1, <4>1
      <4>5. \A a \in h[k].ips : a \in ToSet(m.ips)
        BY <3>1, <4>1
      <4> QED BY <1>4, <2>3, <3>2, <4>2, <4>3, <4>4, <4>5
    <3> QED BY <3>3, <3>4
  <2> QED BY <2>1, <2>2, <2>3
<1>7. Fresh(h, ms, n + 1)
  BY <1>6 DEF Fresh
<1> QED BY <1>7 DEF h

\* What a message of x is about.
LEMMA MessageOf ==
  ASSUME NEW x \in Config, NEW ms, Tells(x, ms), NEW j \in 1 .. Len(ms)
  PROVE  \E i \in DOMAIN x.Peers : Carries(ms[j], x.Peers[i])
<1>1. ms \in Seq(Messages(x))
  BY DEF Tells
<1>2. ms[j] \in Messages(x)
  BY <1>1
<1> QED BY <1>2, MessageCarries

\* A message that is not about x.
LEMMA ForeignKeeps ==
  ASSUME NEW x \in Config, NEW ms, Tells(x, ms), NEW n \in 0 .. Len(ms),
         NEW m, Foreign(x, m), NEW g \in PeerStates, Done(g, ms, n)
  PROVE  Done(SetPeer(g, m), ms, n)
<1> DEFINE h == SetPeer(g, m)
           k == m.key
<1>1. Makes(g, m, h)
  BY SetPeerMakes
<1>2. ASSUME NEW j \in 1 .. n
      PROVE  ms[j].key # k /\ \A a \in ToSet(ms[j].ips) : a \notin ToSet(m.ips)
  <2>1. Len(ms) \in Nat
    BY DEF Tells
  <2>2. j \in 1 .. Len(ms)
    BY <2>1
  <2>3. PICK i \in DOMAIN x.Peers : Carries(ms[j], x.Peers[i])
    BY <2>2, MessageOf
  <2>4. ms[j].key \in KeysOf(x) /\ ToSet(ms[j].ips) \subseteq IPsOf(x)
    BY <2>3 DEF Carries, KeysOf, IPsOf
  <2> QED BY <2>4 DEF Foreign
<1> HIDE DEF h
<1>3. \A y : y # k => (y \in DOMAIN h <=> y \in DOMAIN g)
  BY <1>1 DEF Makes
<1>4. ASSUME NEW y \in DOMAIN g, y # k
      PROVE  /\ h[y].opts = g[y].opts /\ h[y].adv = g[y].adv
             /\ h[y].ips \subseteq g[y].ips
             /\ \A a \in g[y].ips : a \notin ToSet(m.ips) => a \in h[y].ips
  <2>1. CASE Sets(g, m)
    <3>1. h[y].opts = g[y].opts /\ h[y].adv = g[y].adv /\ h[y].ips = g[y].ips \ ToSet(m.ips)
      BY <1>1, <1>4, <2>1 DEF Makes
    <3> QED BY <3>1
  <2>2. CASE ~ Sets(g, m)
    <3>1. h[y] = g[y]
      BY <1>1, <1>3, <1>4, <2>2 DEF Makes
    <3> QED BY <3>1
  <2> QED BY <2>1, <2>2
<1>5. Present(h, ms, n)
  BY <1>2, <1>3 DEF Done, Present
<1>6. Given(h, ms, n)
  BY <1>2, <1>3, <1>4 DEF Done, Given
<1>7. Owned(h, ms, n)
  <2> SUFFICES ASSUME NEW j \in 1 .. n, NEW a \in ToSet(ms[j].ips), ms[j].key \in DOMAIN h,
                      Latest(h, ms, n, j, a), NEW y \in DOMAIN h
               PROVE  a \in h[y].ips <=> y = ms[j].key
    BY DEF Owned
  <2>1. ms[j].key \in DOMAIN g /\ a \notin ToSet(m.ips) /\ ms[j].key # k
    BY <1>2, <1>3
  <2>2. Latest(g, ms, n, j, a)
    BY <1>2, <1>3 DEF Latest
  <2>3. \A z \in DOMAIN g : a \in g[z].ips <=> z = ms[j].key
    BY <2>1, <2>2 DEF Done, Owned
  <2>4. CASE y # k
    <3>1. y \in DOMAIN g
      BY <1>3, <2>4
    <3> QED BY <1>4, <2>1, <2>3, <2>4, <3>1
  <2>5. CASE y = k
    <3>1. Sets(g, m)
      BY <1>1, <2>5 DEF Makes
    <3>2. h[k].ips = ToSet(m.ips) \union
            (IF "REPLACE_ALLOWEDIPS" \in m.flags THEN {} ELSE Before(g, k).ips)
      BY <1>1, <3>1 DEF Makes
    <3>3. a \notin Before(g, k).ips
      BY <2>1, <2>3 DEF Before, NewPeer
    <3> QED BY <2>1, <2>5, <3>2, <3>3
  <2> QED BY <2>4, <2>5
<1>8. Replaced(h, ms, n)
  <2> SUFFICES ASSUME NEW j \in 1 .. n, ms[j].key \in DOMAIN h,
                      "REPLACE_ALLOWEDIPS" \in ms[j].flags, NEW a \in h[ms[j].key].ips
               PROVE  ClaimedFor(ms, n, ms[j].key, a)
    BY DEF Replaced
  <2>1. ms[j].key \in DOMAIN g /\ a \in g[ms[j].key].ips
    BY <1>2, <1>3, <1>4
  <2> QED BY <2>1 DEF Done, Replaced
<1>9. Done(h, ms, n)
  BY <1>5, <1>6, <1>7, <1>8 DEF Done
<1> QED BY <1>9 DEF h

\* When all is sent, the device is as it would be configured.
HeadDone(x, d) == (x.dev # Nil => d.dev = x.dev) /\ (x.awg # Nil => d.awg = x.awg)

Finished(x, ms, d) ==
  /\ HeadDone(x, d)
  /\ Done(d.peers, ms, Len(ms))
  /\ x.ReplacePeers => Fresh(d.peers, ms, Len(ms))

\* An entry takes effect if and only if its peer is there.
LEMMA EffectiveIs ==
  ASSUME NEW x \in Config, EachOnce(x), NEW ms, Tells(x, ms), NEW d \in DeviceState,
         Finished(x, ms, d), NEW i \in DOMAIN x.Peers
  PROVE  /\ i \in Effective(d, x) <=> x.Peers[i].PublicKey \in DOMAIN d.peers
         /\ x.Peers[i].Remove => x.Peers[i].PublicKey \notin DOMAIN d.peers
<1> DEFINE g == d.peers
           p == x.Peers[i]
           n == Len(ms)
<1>1. PICK j \in 1 .. n : ms[j].key = p.PublicKey
  BY DEF Tells
<1>2. ASSUME NEW l \in 1 .. n, ms[l].key = p.PublicKey PROVE Carries(ms[l], p)
  <2>1. PICK q \in DOMAIN x.Peers : Carries(ms[l], x.Peers[q])
    BY MessageOf
  <2>2. q = i
    BY <1>2, <2>1 DEF Carries, EachOnce
  <2> QED BY <2>1, <2>2
<1>3. Carries(ms[j], p)
  BY <1>1, <1>2
<1>4. p.Remove => p.PublicKey \notin DOMAIN g
  BY <1>3 DEF Carries, Finished, Done, Present
<1>5. ~ p.Remove /\ ~ p.UpdateOnly => p.PublicKey \in DOMAIN g
  BY <1>3 DEF Carries, Finished, Done, Present
<1>6. CASE ~ x.ReplacePeers
  <2>1. BaseOf(d, x) = DOMAIN g
    BY <1>6 DEF BaseOf
  <2> QED BY <1>4, <1>5, <2>1 DEF Effective
<1>7. CASE x.ReplacePeers
  <2>1. BaseOf(d, x) = {}
    BY <1>7 DEF BaseOf
  <2>2. p.PublicKey \in DOMAIN g => ~ p.Remove /\ ~ p.UpdateOnly
    <3> SUFFICES ASSUME p.PublicKey \in DOMAIN g PROVE ~ p.Remove /\ ~ p.UpdateOnly
      OBVIOUS
    <3>1. PICK l \in 1 .. n : /\ ms[l].key = p.PublicKey
                              /\ "REMOVE_ME" \notin ms[l].flags /\ "UPDATE_ONLY" \notin ms[l].flags
      BY <1>7 DEF Finished, Fresh
    <3> QED BY <1>2, <3>1 DEF Carries
  <2> QED BY <1>4, <1>5, <2>1, <2>2 DEF Effective
<1> QED BY <1>4, <1>6, <1>7

\* An allowed IP that is claimed is with the last entry that claims it.
LEMMA ClaimedIsOwned ==
  ASSUME NEW x \in Config, EachOnce(x), NEW ms, Tells(x, ms), NEW d \in DeviceState,
         Finished(x, ms, d), NEW a, ClaimsOn(d, x, a) # {}
  PROVE  \A k \in DOMAIN d.peers :
           a \in d.peers[k].ips <=> x.Peers[Max(ClaimsOn(d, x, a))].PublicKey = k
<1> DEFINE g == d.peers
           n == Len(ms)
           S == ClaimsOn(d, x, a)
           i == Max(S)
           J == {j \in 1 .. n : ms[j].key \in DOMAIN g /\ a \in ToSet(ms[j].ips)}
<1>0. n \in Nat
  BY DEF Tells
<1>1. S \in SUBSET DOMAIN x.Peers
  BY DEF ClaimsOn, Effective
<1>2. i \in S /\ i \in DOMAIN x.Peers /\ \A q \in S : q <= i
  BY <1>1, LastClaim
<1>3. x.Peers[i].PublicKey \in DOMAIN g /\ a \in ToSet(x.Peers[i].AllowedIPs)
  BY <1>2, EffectiveIs DEF ClaimsOn
<1>4. PICK j0 \in 1 .. n : ms[j0].key = x.Peers[i].PublicKey /\ a \in ToSet(ms[j0].ips)
  BY <1>2, <1>3 DEF Tells
<1>5. j0 \in J
  BY <1>3, <1>4
<1> HIDE DEF S, i
<1>6. PICK j \in J : \A l \in J : l <= j
  <2> DEFINE T == {n - l : l \in J}
  <2>1. T \in SUBSET Nat /\ T # {}
    <3>1. \A l \in J : n - l \in Nat
      BY <1>0
    <3> QED BY <1>5, <3>1
  <2>2. PICK t \in T : \A u \in T : t <= u
    <3> HIDE DEF T
    <3> QED BY <2>1, LeastMember
  <2>3. PICK l \in J : t = n - l
    BY <2>2
  <2>4. \A q \in J : n - l <= n - q
    BY <2>2, <2>3
  <2>5. \A q \in J : q <= l
    BY <1>0, <2>4
  <2> QED BY <2>5
<1>7. j \in 1 .. n /\ ms[j].key \in DOMAIN g /\ a \in ToSet(ms[j].ips) /\ j0 <= j
  BY <1>5, <1>6
<1>8. PICK q \in DOMAIN x.Peers : Carries(ms[j], x.Peers[q])
  BY <1>7, MessageOf
<1>9. q \in S
  <2>1. x.Peers[q].PublicKey \in DOMAIN g /\ a \in ToSet(x.Peers[q].AllowedIPs)
    BY <1>7, <1>8 DEF Carries
  <2> QED BY <2>1, EffectiveIs DEF ClaimsOn, S
<1>10. q <= i
  BY <1>2, <1>9
<1>11. q = i
  <2>1. CASE j0 = j
    BY <1>2, <1>4, <1>8, <2>1 DEF EachOnce, Carries
  <2>2. CASE j0 # j
    <3>1. j0 < j
      BY <1>7, <2>2
    <3>2. i <= q
      BY <1>2, <1>4, <1>7, <1>8, <3>1 DEF Tells, Carries
    <3>3. i \in Nat /\ q \in Nat
      BY <1>2 DEF Config
    <3> QED BY <1>10, <3>2, <3>3
  <2> QED BY <2>1, <2>2
<1>12. Latest(g, ms, n, j, a)
  <2> SUFFICES ASSUME NEW l \in 1 .. n, l > j, ms[l].key \in DOMAIN g, a \in ToSet(ms[l].ips)
               PROVE  FALSE
    BY DEF Latest
  <2>1. l <= j
    BY <1>6
  <2> QED BY <1>7, <2>1
<1>13. \A k \in DOMAIN g : a \in g[k].ips <=> k = ms[j].key
  BY <1>7, <1>12 DEF Finished, Done, Owned
<1>14. ms[j].key = x.Peers[i].PublicKey
  BY <1>8, <1>11 DEF Carries
<1> QED BY <1>13, <1>14 DEF S, i

\* The entry a message is about, when its peer is there.
LEMMA EntryThere ==
  ASSUME NEW x \in Config, EachOnce(x), NEW ms, Tells(x, ms), NEW d \in DeviceState,
         Finished(x, ms, d), NEW j \in 1 .. Len(ms), ms[j].key \in DOMAIN d.peers
  PROVE  \E i \in EntriesOf(d, x, ms[j].key) : Carries(ms[j], x.Peers[i])
<1>1. PICK i \in DOMAIN x.Peers : Carries(ms[j], x.Peers[i])
  BY MessageOf
<1>2. x.Peers[i].PublicKey = ms[j].key
  BY <1>1 DEF Carries
<1>3. i \in Effective(d, x)
  BY <1>2, EffectiveIs
<1> QED BY <1>1, <1>2, <1>3 DEF EntriesOf

LEMMA FinishedKeys ==
  ASSUME NEW x \in Config, EachOnce(x), NEW ms, Tells(x, ms), NEW d \in DeviceState,
         Finished(x, ms, d)
  PROVE  KeysAfter(d, x) = DOMAIN d.peers
<1> DEFINE g == d.peers
           E == {x.Peers[i].PublicKey : i \in Effective(d, x)}
<1>1. E \subseteq DOMAIN g
  BY EffectiveIs DEF Effective
<1>2. CASE ~ x.ReplacePeers
  <2>1. BaseOf(d, x) = DOMAIN g
    BY <1>2 DEF BaseOf
  <2>2. Removed(x) \intersect DOMAIN g = {}
    BY EffectiveIs DEF Removed
  <2> QED BY <1>1, <2>1, <2>2 DEF KeysAfter
<1>3. CASE x.ReplacePeers
  <2>1. BaseOf(d, x) = {}
    BY <1>3 DEF BaseOf
  <2>2. ASSUME NEW k \in DOMAIN g PROVE k \in E
    <3>1. PICK j \in 1 .. Len(ms) : ms[j].key = k
      BY <1>3 DEF Finished, Fresh
    <3>2. PICK i \in EntriesOf(d, x, k) : Carries(ms[j], x.Peers[i])
      BY <3>1, EntryThere
    <3> QED BY <3>2 DEF EntriesOf
  <2> QED BY <1>1, <2>1, <2>2 DEF KeysAfter
<1> QED BY <1>2, <1>3

LEMMA FinishedFields ==
  ASSUME NEW x \in Config, EachOnce(x), NEW ms, Tells(x, ms), NEW d \in DeviceState,
         Finished(x, ms, d), NEW k \in DOMAIN d.peers
  PROVE  OptsAfter(d, x, k) = d.peers[k].opts /\ AdvAfter(d, x, k) = d.peers[k].adv
<1> DEFINE s == d.peers[k]
           n == Len(ms)
<1>0. s \in PeerState
  BY PeersAre DEF DeviceState
<1>1. ASSUME NEW i \in EntriesOf(d, x, k)
      PROVE  /\ EntriesOf(d, x, k) = {i}
             /\ \E j \in 1 .. n : /\ Carries(ms[j], x.Peers[i])
                                  /\ ms[j].key = k /\ ms[j].opts = x.Peers[i].opts
  <2>1. i \in DOMAIN x.Peers /\ x.Peers[i].PublicKey = k
    BY DEF EntriesOf, Effective
  <2>2. EntriesOf(d, x, k) = {i}
    BY <2>1 DEF EachOnce, EntriesOf, Effective
  <2>3. PICK j \in 1 .. n : ms[j].key = k /\ ms[j].opts = x.Peers[i].opts
    BY <2>1 DEF Tells
  <2>4. Carries(ms[j], x.Peers[i])
    BY <2>2, <2>3, EntryThere
  <2> QED BY <2>2, <2>3, <2>4
<1>2. ASSUME NEW j \in 1 .. n, ms[j].key = k
      PROVE  \E i \in EntriesOf(d, x, k) : Carries(ms[j], x.Peers[i])
  BY <1>2, EntryThere
<1>3. x.ReplacePeers => OldOf(d, x, k).opts = Nil /\ ~ OldOf(d, x, k).adv
  BY DEF OldOf, BaseOf, NewPeer
<1>4. ~ x.ReplacePeers => OldOf(d, x, k) = s
  BY DEF OldOf, BaseOf
<1>5. OptsAfter(d, x, k) = s.opts
  <2>1. CASE \E i \in EntriesOf(d, x, k) : x.Peers[i].opts # Nil
    <3>1. PICK i \in EntriesOf(d, x, k) : x.Peers[i].opts # Nil
      BY <2>1
    <3>2. PICK j \in 1 .. n : ms[j].key = k /\ ms[j].opts = x.Peers[i].opts
      BY <1>1
    <3>3. s.opts = x.Peers[i].opts
      BY <3>1, <3>2 DEF Finished, Done, Given
    <3>4. {x.Peers[q] : q \in EntriesOf(d, x, k)} = {x.Peers[i]}
      BY <1>1
    <3>5. (CHOOSE p \in {x.Peers[q] : q \in EntriesOf(d, x, k)} : TRUE) = x.Peers[i]
      BY <3>4
    <3> QED BY <2>1, <3>3, <3>5 DEF OptsAfter
  <2>2. CASE ~ \E i \in EntriesOf(d, x, k) : x.Peers[i].opts # Nil
    <3>1. OptsAfter(d, x, k) = OldOf(d, x, k).opts
      BY <2>2 DEF OptsAfter
    <3>2. x.ReplacePeers => s.opts = Nil
      <4> SUFFICES ASSUME x.ReplacePeers, s.opts # Nil PROVE FALSE
        OBVIOUS
      <4>1. PICK j \in 1 .. n : ms[j].key = k /\ ms[j].opts # Nil
        BY DEF Finished, Fresh
      <4> QED BY <1>2, <2>2, <4>1 DEF Carries
    <3> QED BY <1>3, <1>4, <3>1, <3>2
  <2> QED BY <2>1, <2>2
<1>6. AdvAfter(d, x, k) <=> s.adv
  <2> DEFINE Says(i) == x.Peers[i].AdvancedSecurity \/ x.Peers[i].DisableAdvancedSecurity
  <2>1. CASE \E i \in EntriesOf(d, x, k) : Says(i)
    <3>1. PICK i \in EntriesOf(d, x, k) : Says(i)
      BY <2>1
    <3>2. PICK j \in 1 .. n : Carries(ms[j], x.Peers[i]) /\ ms[j].key = k
      BY <1>1
    <3>3. s.adv = x.Peers[i].AdvancedSecurity
      BY <3>1, <3>2 DEF Carries, Finished, Done, Given
    <3>4. EntriesOf(d, x, k) = {i}
      BY <1>1
    <3>5. AdvAfter(d, x, k) <=> \E q \in EntriesOf(d, x, k) : x.Peers[q].AdvancedSecurity
      BY <2>1 DEF AdvAfter
    <3> QED BY <3>3, <3>4, <3>5
  <2>2. CASE ~ \E i \in EntriesOf(d, x, k) : Says(i)
    <3>1. AdvAfter(d, x, k) <=> OldOf(d, x, k).adv
      BY <2>2 DEF AdvAfter
    <3>2. x.ReplacePeers => ~ s.adv
      <4> SUFFICES ASSUME x.ReplacePeers, s.adv PROVE FALSE
        OBVIOUS
      <4>1. PICK j \in 1 .. n : ms[j].key = k /\ "HAS_ADVANCED_SECURITY" \in ms[j].flags
        BY DEF Finished, Fresh
      <4>2. PICK i \in EntriesOf(d, x, k) : Carries(ms[j], x.Peers[i])
        BY <1>2, <4>1
      <4> QED BY <2>2, <4>1, <4>2 DEF Carries
    <3> QED BY <1>3, <1>4, <3>1, <3>2
  <2> QED BY <2>1, <2>2
<1>7. AdvAfter(d, x, k) \in BOOLEAN
  <2>1. OldOf(d, x, k).adv \in BOOLEAN
    BY <1>0, <1>4 DEF OldOf, BaseOf, NewPeer, PeerState
  <2> QED BY <2>1, EntryIs DEF AdvAfter, EntriesOf, Effective
<1>8. s.adv \in BOOLEAN
  BY <1>0 DEF PeerState
<1> QED BY <1>5, <1>6, <1>7, <1>8

LEMMA FinishedIPs ==
  ASSUME NEW x \in Config, EachOnce(x), NEW ms, Tells(x, ms), NEW d \in DeviceState,
         Finished(x, ms, d), NEW k \in DOMAIN d.peers
  PROVE  IPsAfter(d, x, k) = d.peers[k].ips
<1> DEFINE s == d.peers[k]
           n == Len(ms)
<1>1. s.ips \subseteq IPs
  <2>1. s \in PeerState
    BY PeersAre DEF DeviceState
  <2> QED BY <2>1 DEF PeerState
<1>2. IPsAfter(d, x, k) \subseteq IPs
  BY DEF IPsAfter
<1>3. ASSUME NEW a, ClaimsOn(d, x, a) = {} PROVE ~ ClaimedFor(ms, n, k, a)
  <2> SUFFICES ASSUME NEW j \in 1 .. n, ms[j].key = k, a \in ToSet(ms[j].ips) PROVE FALSE
    BY DEF ClaimedFor
  <2>1. PICK i \in EntriesOf(d, x, k) : Carries(ms[j], x.Peers[i])
    BY EntryThere
  <2>2. i \in ClaimsOn(d, x, a)
    BY <2>1 DEF Carries, ClaimsOn, EntriesOf
  <2> QED BY <1>3, <2>2
<1>4. ASSUME NEW a \in IPs PROVE a \in IPsAfter(d, x, k) <=> a \in s.ips
  <2>1. CASE ClaimsOn(d, x, a) # {}
    <3>1. a \in s.ips <=> x.Peers[Max(ClaimsOn(d, x, a))].PublicKey = k
      BY <2>1, ClaimedIsOwned
    <3>2. a \in IPsAfter(d, x, k) <=> x.Peers[Max(ClaimsOn(d, x, a))].PublicKey = k
      BY <2>1 DEF IPsAfter
    <3> QED BY <3>1, <3>2
  <2>2. CASE ClaimsOn(d, x, a) = {}
    <3>1. a \in IPsAfter(d, x, k) <=>
            /\ a \in OldOf(d, x, k).ips
            /\ ~ \E i \in EntriesOf(d, x, k) : x.Peers[i].ReplaceAllowedIPs
      BY <2>2 DEF IPsAfter
    <3>2. ~ ClaimedFor(ms, n, k, a)
      BY <1>3, <2>2
    <3>3. CASE x.ReplacePeers
      <4>1. OldOf(d, x, k).ips = {}
        BY <3>3 DEF OldOf, BaseOf, NewPeer
      <4>2. a \notin s.ips
        BY <3>2, <3>3 DEF Finished, Fresh
      <4> QED BY <3>1, <4>1, <4>2
    <3>4. CASE ~ x.ReplacePeers
      <4>1. OldOf(d, x, k) = s
        BY <3>4 DEF OldOf, BaseOf
      <4>2. ASSUME NEW i \in EntriesOf(d, x, k), x.Peers[i].ReplaceAllowedIPs
            PROVE  a \notin s.ips
        <5>1. i \in DOMAIN x.Peers /\ x.Peers[i].PublicKey = k
          BY DEF EntriesOf, Effective
        <5>2. PICK j \in 1 .. n : ms[j].key = k /\ "REPLACE_ALLOWEDIPS" \in ms[j].flags
          BY <4>2, <5>1 DEF Tells
        <5> QED BY <3>2, <5>2 DEF Finished, Done, Replaced
      <4> QED BY <3>1, <4>1, <4>2
    <3> QED BY <3>3, <3>4
  <2> QED BY <2>1, <2>2
<1> QED BY <1>1, <1>2, <1>4

\* Then the configuration, applied once more, changes nothing.
LEMMA FinishedIs ==
  ASSUME NEW x \in Config, EachOnce(x), NEW ms, Tells(x, ms), NEW d \in DeviceState,
         Finished(x, ms, d)
  PROVE  Configured(d, x) = d
<1> DEFINE P == PeersAfter(d, x)
<1>1. d.peers \in PeerStates /\ P \in PeerStates
  BY ConfiguredType DEF DeviceState
<1>2. DOMAIN P = DOMAIN d.peers
  BY FinishedKeys DEF PeersAfter
<1>3. \A k \in DOMAIN P : Alike(P[k], d.peers[k])
  BY <1>2, FinishedFields, FinishedIPs DEF PeersAfter, Alike
<1> HIDE DEF P
<1>4. P = d.peers
  BY <1>1, <1>2, <1>3, SamePeers
<1>5. Configured(d, x) = [dev   |-> IF x.dev = Nil THEN d.dev ELSE x.dev,
                          awg   |-> IF x.awg = Nil THEN d.awg ELSE x.awg,
                          peers |-> P]
  BY ConfiguredIs DEF P
<1>6. Configured(d, x) = [dev |-> d.dev, awg |-> d.awg, peers |-> d.peers]
  BY <1>4, <1>5 DEF Finished, HeadDone
<1> QED BY <1>6 DEF DeviceState

-----------------------------------------------------------------------------
(* All the messages of a configuration.                                    *)

\* What holds of the first, and of each that follows one of which it holds.
LEMMA OneByOne ==
  ASSUME NEW N \in Nat, NEW G,
         0 \in G, \A n \in 1 .. N : n - 1 \in G => n \in G
  PROVE  0 .. N \subseteq G
<1> DEFINE T == {n \in 0 .. N : n \notin G}
<1> SUFFICES ASSUME T # {} PROVE FALSE
  OBVIOUS
<1>1. T \in SUBSET Nat
  OBVIOUS
<1>2. PICK n \in T : \A m \in T : n <= m
  <2> HIDE DEF T
  <2> QED BY <1>1, LeastMember
<1>3. n \in 1 .. N /\ n - 1 \in 0 .. N /\ ~ (n <= n - 1)
  BY <1>2
<1> QED BY <1>2, <1>3

\* FlattenSeq appends the sequences one after the other.
LEMMA Appended ==
  ASSUME NEW X, NEW ss \in Seq(Seq(X))
  PROVE  \E h : /\ h[0] = <<>> /\ h[Len(ss)] = FlattenSeq(ss)
                /\ \A i \in 1 .. Len(ss) : h[i] = h[i - 1] \o ss[i]
<1> DEFINE N == Len(ss)
           f == CHOOSE g : Joined(ss, N, g)
           h == [i \in 0 .. N |-> IF i = 0 THEN <<>> ELSE f[i]]
<1>1. N \in Nat /\ 0 \in 0 .. N /\ N \in 0 .. N /\ \A i \in 1 .. N : ss[i] \in Seq(X)
  OBVIOUS
<1>2. FlattenSeq(ss) = h[N]
  <2>1. CASE N = 0
    <3>1. ss = <<>> /\ FlattenSeq(ss) = ss
      BY <2>1 DEF FlattenSeq
    <3> QED BY <1>1, <2>1, <3>1
  <2>2. CASE N # 0
    <3>1. FlattenSeq(ss) = f[N]
      BY <1>1, <2>2 DEF FlattenSeq, Joined
    <3> QED BY <1>1, <2>2, <3>1
  <2> QED BY <2>1, <2>2
<1>3. Joined(ss, N, f)
  BY <1>1, JoinedExists
<1> HIDE DEF f
<1>4. ASSUME NEW i \in 1 .. N PROVE h[i] = h[i - 1] \o ss[i]
  <2>1. i - 1 \in 0 .. N /\ i \in 0 .. N /\ i # 0 /\ (i = 1 <=> i - 1 = 0)
    BY <1>1
  <2>2. f[i] = IF i = 1 THEN ss[i] ELSE f[i - 1] \o ss[i]
    BY <1>3 DEF Joined
  <2>3. <<>> \o ss[i] = ss[i]
    BY <1>1
  <2> QED BY <2>1, <2>2, <2>3
<1>5. h[0] = <<>>
  BY <1>1
<1> HIDE DEF h
<1> QED BY <1>2, <1>4, <1>5

\* Where the elements of a concatenation are.
LEMMA Concatenation ==
  ASSUME NEW X, NEW s \in Seq(X), NEW t \in Seq(X)
  PROVE  /\ s \o t \in Seq(X) /\ Len(s \o t) = Len(s) + Len(t)
         /\ \A i \in 1 .. Len(s) : (s \o t)[i] = s[i]
         /\ \A j \in 1 .. Len(t) : (s \o t)[Len(s) + j] = t[j]
OBVIOUS

\* Every allowed IP is in a chunk.
LEMMA ChunksCover ==
  ASSUME NEW s \in Seq(IPs), NEW a \in ToSet(s)
  PROVE  \E q \in 1 .. ChunkCount(Len(s)) : a \in ToSet(Chunk(s, q))
<1> DEFINE n == Len(s)
           d == IPChunk
<1>1. PICK u \in 1 .. n : a = s[u]
  BY DEF ToSet
<1>2. n \in Nat /\ n # 0 /\ d \in Nat /\ d > 0 /\ u \in Nat /\ 1 <= u /\ u <= n
  <2>1. n \in Nat
    OBVIOUS
  <2> QED BY <2>1, ChunkAssumption
<1> DEFINE w == (u - 1) \div d
           r == (u - 1) % d
           Q == (n + d - 1) \div d
           R == (n + d - 1) % d
<1>3. w \in Int /\ r \in 0 .. (d - 1) /\ u - 1 = d * w + r
  <2>1. u - 1 \in Nat
    BY <1>2
  <2> QED BY <1>2, <2>1
<1>4. Q \in Int /\ R \in 0 .. (d - 1) /\ n + d - 1 = d * Q + R
  <2>1. n + d - 1 \in Nat
    BY <1>2
  <2> QED BY <1>2, <2>1
<1>5. ChunkCount(n) = Q
  BY <1>2 DEF ChunkCount
<1> HIDE DEF n, d, w, r, Q, R
<1>6. w >= 0
  <2> SUFFICES ASSUME w <= 0 - 1 PROVE FALSE
    BY <1>3
  <2>1. 0 - 1 - w \in Nat
    BY <1>3
  <2>2. d * (0 - 1 - w) >= 0
    BY <1>2, <2>1
  <2>3. d * (0 - 1 - w) = (0 - d) - d * w
    BY <1>2, <1>3
  <2>4. d * w \in Int
    BY <1>2, <1>3
  <2> QED BY <1>2, <1>3, <2>2, <2>3, <2>4
<1>7. w + 1 <= Q
  <2> SUFFICES ASSUME Q <= w PROVE FALSE
    BY <1>3, <1>4
  <2>1. w - Q \in Nat
    BY <1>3, <1>4
  <2>2. d * (w - Q) >= 0
    BY <1>2, <2>1
  <2>3. d * (w - Q) = d * w - d * Q
    BY <1>2, <1>3, <1>4
  <2>4. d * w \in Int /\ d * Q \in Int
    BY <1>2, <1>3, <1>4
  <2> QED BY <1>2, <1>3, <1>4, <2>2, <2>3, <2>4
<1> DEFINE q == w + 1
           first == (q - 1) * d + 1
           last == IF q * d < n THEN q * d ELSE n
<1>8. first = d * w + 1 /\ q * d = d * w + d /\ d * w \in Nat
  <2>1. q - 1 = w
    BY <1>3
  <2>2. w \in Nat /\ d * w \in Nat
    BY <1>2, <1>3, <1>6
  <2> QED BY <1>2, <2>1, <2>2
<1>9. Chunk(s, q) = SubSeq(s, first, last)
  BY DEF Chunk, n, d
<1>10. last \in Int /\ r + 1 \in 1 .. (last - first + 1)
  BY <1>2, <1>3, <1>8
<1>11. first \in Int /\ (r + 1) + first - 1 = u
  BY <1>2, <1>3, <1>8
<1> HIDE DEF first, last
<1>12. SubSeq(s, first, last) = [i \in 1 .. (last - first + 1) |-> s[i + first - 1]]
  BY <1>10, <1>11
<1>13. a \in ToSet(Chunk(s, q))
  BY <1>1, <1>9, <1>10, <1>11, <1>12 DEF ToSet
<1>14. q \in 1 .. Q
  BY <1>3, <1>4, <1>6, <1>7
<1> QED BY <1>5, <1>13, <1>14 DEF n

\* The q-th chunk of an entry, and how many there are.
Piece(x, i, q) == [x.Peers[i] EXCEPT !.AllowedIPs = Chunk(x.Peers[i].AllowedIPs, q)]
Pieces(x, i) == ChunkCount(Len(x.Peers[i].AllowedIPs))

\* s has the chunks of the first n entries, in the entries' order.
Told(x, s, n) ==
  /\ s \in Seq(PeerConfig)
  /\ \A t \in 1 .. Len(s) : \E i \in 1 .. n : \E q \in 1 .. Pieces(x, i) : s[t] = Piece(x, i, q)
  /\ \A i \in 1 .. n : \A q \in 1 .. Pieces(x, i) : \E t \in 1 .. Len(s) : s[t] = Piece(x, i, q)
  /\ \A t, u \in 1 .. Len(s) : \A i, k \in DOMAIN x.Peers :
       t < u /\ s[t].PublicKey = x.Peers[i].PublicKey /\ s[u].PublicKey = x.Peers[k].PublicKey
       => i <= k

LEMMA PieceIs ==
  ASSUME NEW x \in Config, NEW i \in DOMAIN x.Peers, NEW q \in Nat \ {0}
  PROVE  /\ Piece(x, i, q) \in PeerConfig
         /\ PartOfEntry(Piece(x, i, q), x.Peers[i])
         /\ Piece(x, i, q).PublicKey = x.Peers[i].PublicKey
         /\ Piece(x, i, q).opts = x.Peers[i].opts
         /\ Piece(x, i, q).ReplaceAllowedIPs = x.Peers[i].ReplaceAllowedIPs
         /\ Piece(x, i, q).AllowedIPs = Chunk(x.Peers[i].AllowedIPs, q)
         /\ Pieces(x, i) \in Nat \ {0}
<1>1. x.Peers[i] \in PeerConfig /\ x.Peers[i].AllowedIPs \in Seq(IPs)
  BY EntryIs
<1>2. /\ Chunk(x.Peers[i].AllowedIPs, q) \in Seq(IPs)
      /\ ToSet(Chunk(x.Peers[i].AllowedIPs, q)) \subseteq ToSet(x.Peers[i].AllowedIPs)
  BY <1>1, ChunkIsPart
<1>3. Len(x.Peers[i].AllowedIPs) \in Nat
  BY <1>1
<1>4. Pieces(x, i) \in Nat \ {0}
  BY <1>3, ChunkCounted DEF Pieces
<1> QED BY <1>1, <1>2, <1>4 DEF Piece, PeerConfig, PartOfEntry

\* One more entry.
LEMMA ToldStep ==
  ASSUME NEW x \in Config, EachOnce(x), NEW n \in DOMAIN x.Peers, NEW s, Told(x, s, n - 1)
  PROVE  Told(x, s \o [q \in 1 .. Pieces(x, n) |-> Piece(x, n, q)], n)
<1> DEFINE N == Pieces(x, n)
           t == [q \in 1 .. N |-> Piece(x, n, q)]
           w == s \o t
<1>0. x.Peers \in Seq(PeerConfig) /\ DOMAIN x.Peers = 1 .. Len(x.Peers) /\ Len(x.Peers) \in Nat
  BY DEF Config
<1>1. N \in Nat \ {0} /\ \A q \in 1 .. N : Piece(x, n, q) \in PeerConfig
                                          /\ Piece(x, n, q).PublicKey = x.Peers[n].PublicKey
  <2>1. 1 \in Nat \ {0}
    OBVIOUS
  <2>2. N \in Nat \ {0}
    BY <2>1, PieceIs
  <2> HIDE DEF N
  <2>3. \A q \in 1 .. N : q \in Nat \ {0}
    BY <2>2
  <2> QED BY <2>2, <2>3, PieceIs
<1> HIDE DEF N
<1>2. t \in Seq(PeerConfig) /\ Len(t) = N /\ \A q \in 1 .. N : t[q] = Piece(x, n, q)
  BY <1>1
<1>3. s \in Seq(PeerConfig) /\ Len(s) \in Nat
  BY DEF Told
<1> HIDE DEF t
<1>4. /\ w \in Seq(PeerConfig) /\ Len(w) = Len(s) + N
      /\ \A u \in 1 .. Len(s) : w[u] = s[u]
      /\ \A q \in 1 .. N : w[Len(s) + q] = Piece(x, n, q)
  <2>1. /\ w \in Seq(PeerConfig) /\ Len(w) = Len(s) + Len(t)
        /\ \A u \in 1 .. Len(s) : w[u] = s[u]
        /\ \A q \in 1 .. Len(t) : w[Len(s) + q] = t[q]
    <3>1. s \in Seq(PeerConfig) /\ t \in Seq(PeerConfig)
      BY <1>2, <1>3
    <3> QED BY ONLY <3>1, Concatenation
  <2> HIDE DEF w
  <2> QED BY <1>2, <2>1
<1> HIDE DEF w
<1>5. \A u \in 1 .. Len(w) : u \in 1 .. Len(s) \/ (u - Len(s) \in 1 .. N /\ u = Len(s) + (u - Len(s)))
  BY <1>1, <1>3, <1>4
<1>6. \A i : i \in 1 .. n <=> i = n \/ i \in 1 .. (n - 1)
  BY <1>0
<1>7. \A u \in 1 .. Len(s) : u \in 1 .. Len(w)
  BY <1>1, <1>3, <1>4
<1>8. \A q \in 1 .. N : Len(s) + q \in 1 .. Len(w)
  BY <1>1, <1>3, <1>4
<1>9. ASSUME NEW u \in 1 .. Len(w)
      PROVE  \E i \in 1 .. n : \E q \in 1 .. Pieces(x, i) : w[u] = Piece(x, i, q)
  <2>1. CASE u \in 1 .. Len(s)
    <3>1. w[u] = s[u]
      BY <1>4, <2>1
    <3>2. \E i \in 1 .. (n - 1) : \E q \in 1 .. Pieces(x, i) : s[u] = Piece(x, i, q)
      BY <2>1 DEF Told
    <3> QED BY <1>6, <3>1, <3>2
  <2>2. CASE u \notin 1 .. Len(s)
    <3> DEFINE q == u - Len(s)
    <3>1. q \in 1 .. N /\ u = Len(s) + q
      BY <1>5, <2>2
    <3>2. w[u] = Piece(x, n, q)
      BY <1>4, <3>1
    <3> HIDE DEF q
    <3> QED BY <1>6, <3>1, <3>2 DEF N
  <2> QED BY <2>1, <2>2
<1>10. ASSUME NEW i \in 1 .. n, NEW q \in 1 .. Pieces(x, i)
       PROVE  \E u \in 1 .. Len(w) : w[u] = Piece(x, i, q)
  <2>1. CASE i = n
    <3>1. q \in 1 .. N
      BY <2>1 DEF N
    <3>2. w[Len(s) + q] = Piece(x, n, q) /\ Len(s) + q \in 1 .. Len(w)
      BY <1>4, <1>8, <3>1
    <3> QED BY <2>1, <3>2
  <2>2. CASE i # n
    <3>1. i \in 1 .. (n - 1)
      BY <1>6, <2>2
    <3>2. PICK u \in 1 .. Len(s) : s[u] = Piece(x, i, q)
      BY <3>1 DEF Told
    <3> QED BY <1>4, <1>7, <3>2
  <2> QED BY <2>1, <2>2
\* Of which entry an element is.
<1>11. ASSUME NEW u \in 1 .. Len(s), NEW i \in DOMAIN x.Peers, s[u].PublicKey = x.Peers[i].PublicKey
       PROVE  i \in 1 .. (n - 1)
  <2>1. PICK k \in 1 .. (n - 1) : \E q \in 1 .. Pieces(x, k) : s[u] = Piece(x, k, q)
    BY DEF Told
  <2>2. PICK q \in 1 .. Pieces(x, k) : s[u] = Piece(x, k, q)
    BY <2>1
  <2>3. k \in DOMAIN x.Peers
    BY <1>0
  <2>4. q \in Nat \ {0}
    <3>1. 1 \in Nat \ {0}
      OBVIOUS
    <3>2. Pieces(x, k) \in Nat \ {0}
      BY <2>3, <3>1, PieceIs
    <3> QED BY <3>2
  <2>5. s[u].PublicKey = x.Peers[k].PublicKey
    BY <2>2, <2>3, <2>4, PieceIs
  <2>6. i = k
    BY <1>11, <2>3, <2>5 DEF EachOnce
  <2> QED BY <2>6
<1>12. ASSUME NEW u \in 1 .. Len(w), u \notin 1 .. Len(s), NEW i \in DOMAIN x.Peers,
              w[u].PublicKey = x.Peers[i].PublicKey
       PROVE  i = n
  <2> DEFINE q == u - Len(s)
  <2>1. q \in 1 .. N /\ u = Len(s) + q
    BY <1>5, <1>12
  <2>2. w[u] = Piece(x, n, q)
    BY <1>4, <2>1
  <2>3. w[u].PublicKey = x.Peers[n].PublicKey
    BY <1>1, <2>1, <2>2
  <2> QED BY <1>12, <2>3 DEF EachOnce
<1>13. ASSUME NEW u \in 1 .. Len(w), NEW v \in 1 .. Len(w),
              NEW i \in DOMAIN x.Peers, NEW k \in DOMAIN x.Peers,
              u < v, w[u].PublicKey = x.Peers[i].PublicKey, w[v].PublicKey = x.Peers[k].PublicKey
       PROVE  i <= k
  <2>0. i \in Nat /\ k \in Nat /\ n \in Nat
    BY <1>0
  <2>1. CASE v \in 1 .. Len(s)
    <3>1. u \in 1 .. Len(s)
      BY <1>3, <1>4, <1>1, <1>13, <2>1
    <3>2. s[u].PublicKey = x.Peers[i].PublicKey /\ s[v].PublicKey = x.Peers[k].PublicKey
      BY <1>4, <1>13, <2>1, <3>1
    <3> QED BY <1>13, <2>1, <3>1, <3>2 DEF Told
  <2>2. CASE v \notin 1 .. Len(s)
    <3>1. k = n
      BY <1>12, <1>13, <2>2
    <3>2. i = n \/ i \in 1 .. (n - 1)
      <4>1. CASE u \in 1 .. Len(s)
        <5>1. s[u].PublicKey = x.Peers[i].PublicKey
          BY <1>4, <1>13, <4>1
        <5> QED BY <1>11, <4>1, <5>1
      <4>2. CASE u \notin 1 .. Len(s)
        BY <1>12, <1>13, <4>2
      <4> QED BY <4>1, <4>2
    <3> QED BY <2>0, <3>1, <3>2
  <2> QED BY <2>1, <2>2
<1>14. Told(x, w, n)
  BY <1>4, <1>9, <1>10, <1>13 DEF Told
<1> QED BY <1>14 DEF w, t, N

LEMMA ChunksTold ==
  ASSUME NEW x \in Config, EachOnce(x)
  PROVE  Told(x, PeerChunks(x), Len(x.Peers))
<1> DEFINE N == Len(x.Peers)
           Row(i) == [q \in 1 .. Pieces(x, i) |-> Piece(x, i, q)]
           ss == [i \in 1 .. N |-> Row(i)]
<1>1. N \in Nat /\ DOMAIN x.Peers = 1 .. N
  BY DEF Config
<1>2. PeerChunks(x) = FlattenSeq(ss)
  BY <1>1 DEF PeerChunks, Piece, Pieces
<1>3. ASSUME NEW i \in 1 .. N PROVE Row(i) \in Seq(PeerConfig)
  <2>1. 1 \in Nat \ {0}
    OBVIOUS
  <2>2. Pieces(x, i) \in Nat \ {0}
    BY <1>1, <2>1, PieceIs
  <2>3. \A q \in 1 .. Pieces(x, i) : q \in Nat \ {0}
    BY <2>2
  <2>4. \A q \in 1 .. Pieces(x, i) : Piece(x, i, q) \in PeerConfig
    BY <1>1, <2>3, PieceIs
  <2> QED BY <2>2, <2>4
<1> HIDE DEF Row
<1>4. ss \in Seq(Seq(PeerConfig)) /\ Len(ss) = N /\ \A i \in 1 .. N : ss[i] = Row(i)
  BY <1>1, <1>3
<1> HIDE DEF ss
<1>5. PICK h : /\ h[0] = <<>> /\ h[Len(ss)] = FlattenSeq(ss)
               /\ \A i \in 1 .. Len(ss) : h[i] = h[i - 1] \o ss[i]
  BY <1>4, Appended
<1> DEFINE G == {i \in 0 .. N : Told(x, h[i], i)}
<1>6. 0 \in G
  <2>1. <<>> \in Seq(PeerConfig) /\ Len(<<>>) = 0
    OBVIOUS
  <2>2. Told(x, <<>>, 0)
    BY <2>1 DEF Told
  <2> QED BY <1>1, <1>5, <2>2
<1>7. ASSUME NEW i \in 1 .. N, i - 1 \in G PROVE i \in G
  <2>0. h[i] = h[i - 1] \o Row(i) /\ i \in DOMAIN x.Peers /\ i \in 0 .. N
    <3>1. h[i] = h[i - 1] \o ss[i] /\ ss[i] = Row(i)
      BY <1>4, <1>5
    <3> QED BY <1>1, <3>1
  <2>1. Told(x, h[i - 1], i - 1)
    BY <1>7
  <2>2. Told(x, h[i - 1] \o Row(i), i)
    BY <2>0, <2>1, ToldStep DEF Row
  <2> QED BY <2>0, <2>2
<1> HIDE DEF G
<1>8. 0 .. N \subseteq G
  BY <1>1, <1>6, <1>7, OneByOne
<1>9. N \in G
  BY <1>1, <1>8
<1> QED BY <1>2, <1>4, <1>5, <1>9 DEF G

\* The messages of all the batches, one behind the other.
AllMessages(x) ==
  IF ShouldBatch(x)
  THEN [t \in DOMAIN PeerChunks(x) |-> EncodePeer(BatchPeer(PeerChunks(x), t))]
  ELSE [i \in DOMAIN x.Peers |-> EncodePeer(x.Peers[i])]

\* Without batches, the entries themselves.
LEMMA WholeTells ==
  ASSUME NEW x \in Config, EachOnce(x), ~ ShouldBatch(x)
  PROVE  Tells(x, AllMessages(x))
<1> DEFINE N == Len(x.Peers)
           ms == [i \in 1 .. N |-> EncodePeer(x.Peers[i])]
<1>1. N \in Nat /\ DOMAIN x.Peers = 1 .. N
  BY DEF Config
<1>2. AllMessages(x) = ms
  BY <1>1 DEF AllMessages
<1>3. ASSUME NEW i \in 1 .. N
      PROVE  /\ ms[i] \in Messages(x) /\ ms[i].key = x.Peers[i].PublicKey
             /\ ms[i].opts = x.Peers[i].opts
             /\ x.Peers[i].ReplaceAllowedIPs => "REPLACE_ALLOWEDIPS" \in ms[i].flags
             /\ ms[i].ips = x.Peers[i].AllowedIPs
  <2>1. x.Peers[i] \in PeerConfig
    BY <1>1, EntryIs
  <2>2. x.Peers[i] \in Agreeing(x)
    BY <1>1, <2>1 DEF Agreeing, PartOfEntry
  <2>3. ms[i] = EncodePeer(x.Peers[i])
    OBVIOUS
  <2> QED BY <2>2, <2>3 DEF Messages, EncodePeer
<1> DEFINE M == Messages(x)
<1>4. ms \in Seq(M) /\ Len(ms) = N
  <2> HIDE DEF M
  <2> SUFFICES \A i \in 1 .. N : EncodePeer(x.Peers[i]) \in M
    BY <1>1
  <2> QED BY <1>3 DEF M
<1> HIDE DEF ms
<1>5. \A j, l \in 1 .. N : ms[j].key = ms[l].key => j = l
  BY <1>1, <1>3 DEF EachOnce
<1>6. \A j \in 1 .. N : \A i \in DOMAIN x.Peers : ms[j].key = x.Peers[i].PublicKey => j = i
  BY <1>1, <1>3 DEF EachOnce
<1>7. \A j, l \in 1 .. N : l < j /\ ms[l].key = ms[j].key => "REPLACE_ALLOWEDIPS" \notin ms[j].flags
  <2>1. \A j, l \in 1 .. N : l < j => l # j
    BY <1>1
  <2> QED BY <1>5, <2>1
<1>8. \A j, l \in 1 .. N : \A i, q \in DOMAIN x.Peers :
        (/\ j < l
         /\ ms[j].key = x.Peers[i].PublicKey
         /\ ms[l].key = x.Peers[q].PublicKey) => i <= q
  <2>1. \A j, l \in 1 .. N : j < l => j <= l
    BY <1>1
  <2> QED BY <1>6, <2>1
<1>9. \A i \in DOMAIN x.Peers : \E j \in 1 .. N :
        /\ ms[j].key = x.Peers[i].PublicKey
        /\ ms[j].opts = x.Peers[i].opts
        /\ x.Peers[i].ReplaceAllowedIPs => "REPLACE_ALLOWEDIPS" \in ms[j].flags
  BY <1>1, <1>3
<1>10. \A i \in DOMAIN x.Peers : \A a \in ToSet(x.Peers[i].AllowedIPs) : \E j \in 1 .. N :
         ms[j].key = x.Peers[i].PublicKey /\ a \in ToSet(ms[j].ips)
  BY <1>1, <1>3
<1> QED BY <1>2, <1>4, <1>7, <1>8, <1>9, <1>10 DEF Tells, M

\* A chunk as it is sent.
LEMMA SentPeer ==
  ASSUME NEW cs \in Seq(PeerConfig), NEW t \in 1 .. Len(cs)
  PROVE  LET p == BatchPeer(cs, t)
         IN  /\ p \in PeerConfig
             /\ PartOfEntry(p, cs[t])
             /\ p.PublicKey = cs[t].PublicKey
             /\ p.AllowedIPs = cs[t].AllowedIPs
             /\ FirstOccurrence(cs, t) => p = cs[t]
             /\ ~ FirstOccurrence(cs, t) => ~ p.ReplaceAllowedIPs
<1>1. cs[t] \in PeerConfig
  OBVIOUS
<1> QED BY <1>1 DEF BatchPeer, PeerConfig, PartOfEntry

LEMMA SplitTells ==
  ASSUME NEW x \in Config, EachOnce(x), ShouldBatch(x)
  PROVE  Tells(x, AllMessages(x))
<1> DEFINE cs == PeerChunks(x)
           N == Len(cs)
           B(t) == BatchPeer(cs, t)
           ms == [t \in 1 .. N |-> EncodePeer(B(t))]
           M == Messages(x)
<1>1. Told(x, cs, Len(x.Peers))
  BY ChunksTold
<1>2. AllMessages(x) = [t \in DOMAIN cs |-> EncodePeer(B(t))]
  BY DEF AllMessages
<1> HIDE DEF cs
<1>3. cs \in Seq(PeerConfig) /\ N \in Nat /\ DOMAIN cs = 1 .. N
      /\ DOMAIN x.Peers = 1 .. Len(x.Peers)
  BY <1>1 DEF Told, Config
<1>4. AllMessages(x) = ms
  BY <1>2, <1>3
<1>5. ASSUME NEW t \in 1 .. N
      PROVE  \E i \in DOMAIN x.Peers : \E q \in Nat \ {0} : cs[t] = Piece(x, i, q)
  <2>1. PICK i \in 1 .. Len(x.Peers) : \E q \in 1 .. Pieces(x, i) : cs[t] = Piece(x, i, q)
    BY <1>1 DEF Told
  <2>2. PICK q \in 1 .. Pieces(x, i) : cs[t] = Piece(x, i, q)
    BY <2>1
  <2>3. i \in DOMAIN x.Peers
    BY <1>3
  <2>4. q \in Nat \ {0}
    <3>1. 1 \in Nat \ {0}
      OBVIOUS
    <3>2. Pieces(x, i) \in Nat \ {0}
      BY <2>3, <3>1, PieceIs
    <3> QED BY <3>2
  <2> QED BY <2>2, <2>3, <2>4
<1>6. ASSUME NEW t \in 1 .. N
      PROVE  /\ B(t) \in Agreeing(x)
             /\ ms[t].key = cs[t].PublicKey /\ ms[t].ips = cs[t].AllowedIPs
             /\ FirstOccurrence(cs, t) =>
                  /\ ms[t].opts = cs[t].opts
                  /\ cs[t].ReplaceAllowedIPs => "REPLACE_ALLOWEDIPS" \in ms[t].flags
             /\ ~ FirstOccurrence(cs, t) => "REPLACE_ALLOWEDIPS" \notin ms[t].flags
  <2>1. PICK i \in DOMAIN x.Peers : \E q \in Nat \ {0} : cs[t] = Piece(x, i, q)
    BY <1>5
  <2>2. PartOfEntry(cs[t], x.Peers[i])
    BY <2>1, PieceIs
  <2>3. /\ B(t) \in PeerConfig
        /\ PartOfEntry(B(t), cs[t])
        /\ B(t).PublicKey = cs[t].PublicKey
        /\ B(t).AllowedIPs = cs[t].AllowedIPs
        /\ FirstOccurrence(cs, t) => B(t) = cs[t]
        /\ ~ FirstOccurrence(cs, t) => ~ B(t).ReplaceAllowedIPs
    BY <1>3, SentPeer
  <2>4. ms[t] = EncodePeer(B(t))
    OBVIOUS
  <2> HIDE DEF B, ms
  <2>5. B(t) \in Agreeing(x)
    BY <2>2, <2>3 DEF Agreeing, PartOfEntry
  <2> QED BY <2>3, <2>4, <2>5 DEF EncodePeer
<1> HIDE DEF B
<1>7. ms \in Seq(M) /\ Len(ms) = N
  <2> HIDE DEF M
  <2> SUFFICES \A t \in 1 .. N : EncodePeer(B(t)) \in M
    BY <1>3
  <2> QED BY <1>6 DEF M, Messages
<1> HIDE DEF ms, M
<1>8. \A j, l \in 1 .. N : l < j /\ ms[l].key = ms[j].key => "REPLACE_ALLOWEDIPS" \notin ms[j].flags
  <2> SUFFICES ASSUME NEW j \in 1 .. N, NEW l \in 1 .. N, l < j, ms[l].key = ms[j].key
               PROVE  "REPLACE_ALLOWEDIPS" \notin ms[j].flags
    OBVIOUS
  <2>1. l \in 1 .. j - 1
    BY <1>3
  <2>2. cs[l].PublicKey = cs[j].PublicKey
    BY <1>6
  <2>3. ~ FirstOccurrence(cs, j)
    BY <2>1, <2>2 DEF FirstOccurrence
  <2> QED BY <1>6, <2>3
<1>9. \A j, l \in 1 .. N : \A i, q \in DOMAIN x.Peers :
        (/\ j < l
         /\ ms[j].key = x.Peers[i].PublicKey
         /\ ms[l].key = x.Peers[q].PublicKey) => i <= q
  BY <1>1, <1>6 DEF Told
<1>10. ASSUME NEW i \in DOMAIN x.Peers
       PROVE  \E j \in 1 .. N :
                /\ ms[j].key = x.Peers[i].PublicKey
                /\ ms[j].opts = x.Peers[i].opts
                /\ x.Peers[i].ReplaceAllowedIPs => "REPLACE_ALLOWEDIPS" \in ms[j].flags
  <2> DEFINE T == {t \in 1 .. N : cs[t].PublicKey = x.Peers[i].PublicKey}
  <2>1. T \in SUBSET Nat /\ T # {}
    <3>1. 1 \in Nat \ {0}
      OBVIOUS
    <3>2. Pieces(x, i) \in Nat \ {0} /\ Piece(x, i, 1).PublicKey = x.Peers[i].PublicKey
      BY <3>1, PieceIs
    <3>3. 1 \in 1 .. Pieces(x, i) /\ i \in 1 .. Len(x.Peers)
      BY <1>3, <3>2
    <3>4. \E t \in 1 .. Len(cs) : cs[t] = Piece(x, i, 1)
      BY <1>1, <3>3 DEF Told
    <3>5. T # {}
      BY <3>2, <3>4
    <3>6. 1 .. N \subseteq Nat
      BY <1>3
    <3> QED BY <3>5, <3>6
  <2>2. PICK t \in T : \A u \in T : t <= u
    <3> HIDE DEF T
    <3> QED BY <2>1, LeastMember
  <2>3. FirstOccurrence(cs, t)
    <3> SUFFICES ASSUME NEW u \in 1 .. t - 1, cs[u].PublicKey = cs[t].PublicKey PROVE FALSE
      BY DEF FirstOccurrence
    <3>1. t \in Nat /\ t <= N /\ u \in 1 .. N /\ ~ (t <= u)
      BY <1>3
    <3>2. u \in T
      BY <2>2, <3>1
    <3> QED BY <2>2, <3>1, <3>2
  <2>4. PICK k \in DOMAIN x.Peers : \E q \in Nat \ {0} : cs[t] = Piece(x, k, q)
    BY <1>5
  <2>5. /\ cs[t].PublicKey = x.Peers[k].PublicKey
        /\ cs[t].opts = x.Peers[k].opts
        /\ cs[t].ReplaceAllowedIPs = x.Peers[k].ReplaceAllowedIPs
    BY <2>4, PieceIs
  <2>6. k = i
    BY <2>2, <2>5 DEF EachOnce
  <2> QED BY <1>6, <2>2, <2>3, <2>5, <2>6
<1>11. ASSUME NEW i \in DOMAIN x.Peers, NEW a \in ToSet(x.Peers[i].AllowedIPs)
       PROVE  \E j \in 1 .. N : ms[j].key = x.Peers[i].PublicKey /\ a \in ToSet(ms[j].ips)
  <2>1. x.Peers[i].AllowedIPs \in Seq(IPs)
    BY EntryIs
  <2>2. PICK q \in 1 .. Pieces(x, i) : a \in ToSet(Chunk(x.Peers[i].AllowedIPs, q))
    BY <2>1, ChunksCover DEF Pieces
  <2>3. q \in Nat \ {0}
    <3>1. 1 \in Nat \ {0}
      OBVIOUS
    <3>2. Pieces(x, i) \in Nat \ {0}
      BY <3>1, PieceIs
    <3> QED BY <3>2
  <2>4. i \in 1 .. Len(x.Peers)
    BY <1>3
  <2>5. PICK t \in 1 .. N : cs[t] = Piece(x, i, q)
    BY <1>1, <2>4 DEF Told
  <2>6. /\ cs[t].PublicKey = x.Peers[i].PublicKey
        /\ cs[t].AllowedIPs = Chunk(x.Peers[i].AllowedIPs, q)
    BY <2>3, <2>5, PieceIs
  <2> QED BY <1>6, <2>2, <2>6
<1> QED BY <1>4, <1>7, <1>8, <1>9, <1>10, <1>11 DEF Tells, M

LEMMA AllTell ==
  ASSUME NEW x \in Config, EachOnce(x)
  PROVE  Tells(x, AllMessages(x))
BY WholeTells, SplitTells

\* A batch has the next messages, and the last batch the last of them.
LEMMA BatchSays ==
  ASSUME NEW x \in Config, NEW j \in 1 .. Len(BuildBatches(x))
  PROVE  LET ps == ConfigAttrs(BuildBatches(x)[j]).peers
             ms == AllMessages(x)
         IN  /\ (j - 1) + Len(ps) \in 0 .. Len(ms)
             /\ \A i \in 1 .. Len(ps) : ps[i] = ms[(j - 1) + i]
             /\ j # Len(BuildBatches(x)) => Len(ps) = 1
             /\ j = Len(BuildBatches(x)) => (j - 1) + Len(ps) = Len(ms)
<1>1. CASE ~ ShouldBatch(x)
  <2> DEFINE ms == [i \in DOMAIN x.Peers |-> EncodePeer(x.Peers[i])]
  <2>1. BuildBatches(x) = <<x>> /\ AllMessages(x) = ms
    BY <1>1 DEF BuildBatches, AllMessages
  <2>2. Len(<<x>>) = 1 /\ <<x>>[1] = x
    OBVIOUS
  <2>3. j = 1
    BY <2>1, <2>2
  <2>4. ConfigAttrs(BuildBatches(x)[j]).peers = ms
    BY <2>1, <2>2, <2>3 DEF ConfigAttrs
  <2>5. Len(x.Peers) \in Nat /\ DOMAIN x.Peers = 1 .. Len(x.Peers)
    BY DEF Config
  <2>6. Len(ms) = Len(x.Peers)
    BY <2>5
  <2> HIDE DEF ms
  <2>7. (j - 1) + Len(ms) \in 0 .. Len(ms) /\ (j - 1) + Len(ms) = Len(ms)
    BY <2>3, <2>5, <2>6
  <2>8. \A i \in 1 .. Len(ms) : ms[i] = ms[(j - 1) + i]
    <3> SUFFICES ASSUME NEW i \in 1 .. Len(ms) PROVE i = (j - 1) + i
      OBVIOUS
    <3> QED BY <2>3, <2>5, <2>6
  <2>9. j = Len(BuildBatches(x))
    BY <2>1, <2>2, <2>3
  <2> QED BY <2>1, <2>4, <2>7, <2>8, <2>9
<1>2. CASE ShouldBatch(x)
  <2> DEFINE cs == PeerChunks(x)
             N == Len(cs)
             ms == [t \in DOMAIN cs |-> EncodePeer(BatchPeer(cs, t))]
             bs == [t \in DOMAIN cs |-> [Template(x, t) EXCEPT !.Peers = <<BatchPeer(cs, t)>>]]
  <2>1. BuildBatches(x) = bs /\ AllMessages(x) = ms
    BY <1>2 DEF BuildBatches, AllMessages
  <2>2. cs \in Seq(Agreeing(x))
    BY <1>2, SplitHasPeers, ChunksAgree
  <2> HIDE DEF cs
  <2>3. DOMAIN cs = 1 .. N /\ N \in Nat
    BY <2>2
  <2>4. Len(ms) = N /\ Len(bs) = N
    BY <2>3
  <2>5. j \in 1 .. N /\ j \in DOMAIN cs
    BY <2>1, <2>3, <2>4
  <2>6. Template(x, j) \in Config
    BY DEF Template, Config
  <2>7. bs[j].Peers = <<BatchPeer(cs, j)>>
    <3> DEFINE s == <<BatchPeer(cs, j)>>
    <3>1. bs[j] = [Template(x, j) EXCEPT !.Peers = s]
      BY <2>5
    <3> HIDE DEF s, bs
    <3>2. bs[j].Peers = s
      BY <2>6, <3>1 DEF Config
    <3> QED BY <3>2 DEF s
  <2> DEFINE ps == ConfigAttrs(bs[j]).peers
  <2>8. ps = [i \in DOMAIN bs[j].Peers |-> EncodePeer(bs[j].Peers[i])]
    BY DEF ConfigAttrs
  <2> HIDE DEF bs, ps
  <2>9. Len(ps) = 1 /\ ps[1] = EncodePeer(BatchPeer(cs, j))
    <3> DEFINE p == BatchPeer(cs, j)
    <3>1. Len(<<p>>) = 1 /\ <<p>>[1] = p /\ DOMAIN <<p>> = 1 .. 1
      OBVIOUS
    <3>2. ps = [i \in 1 .. 1 |-> EncodePeer(<<p>>[i])]
      BY <2>7, <2>8, <3>1
    <3> QED BY <3>1, <3>2
  <2>10. ms[j] = EncodePeer(BatchPeer(cs, j))
    BY <2>5
  <2> HIDE DEF ms, N
  <2>11. (j - 1) + Len(ps) = j /\ j \in 0 .. N
    BY <2>3, <2>5, <2>9
  <2>12. ASSUME NEW i \in 1 .. Len(ps) PROVE ps[i] = ms[(j - 1) + i]
    <3>1. i = 1 /\ (j - 1) + i = j
      BY <2>5, <2>9
    <3> QED BY <2>9, <2>10, <3>1
  <2>13. ps = ConfigAttrs(BuildBatches(x)[j]).peers
    BY <2>1 DEF ps
  <2> QED BY <2>1, <2>4, <2>9, <2>11, <2>12, <2>13
<1> QED BY <1>1, <1>2

-----------------------------------------------------------------------------
(* A request, or a part of it, is its head and then messages.              *)

LEMMA RequestKeeps ==
  ASSUME NEW x \in Config, NEW b \in Config, b.Peers \in Seq(Agreeing(x)),
         NEW d \in DeviceState, NEW n \in 0 .. Len(ConfigAttrs(b).peers),
         NEW S \in SUBSET DeviceState, HeadSet(d, b) \in S,
         \A e \in S : \A m \in Messages(x) :
           Holding(e, SetPeer(e.peers, m)) \in DeviceState => Holding(e, SetPeer(e.peers, m)) \in S
  PROVE  SetDevice(d, ConfigAttrs(b), n) \in S
<1> DEFINE h == HeadSet(d, b)
           Q == {g \in PeerStates : Holding(h, g) \in S}
           M == Messages(x)
           part == SubSeq(ConfigAttrs(b).peers, 1, n)
           ps == FoldLeft(SetPeer, h.peers, part)
<1>1. part \in Seq(M)
  <2>1. ConfigAttrs(b).peers \in Seq(M)
    BY RequestIs
  <2> HIDE DEF M
  <2>2. n \in Int /\ n <= Len(ConfigAttrs(b).peers) /\ 1 \in Nat \ {0}
    BY <2>1
  <2> QED BY <2>1, <2>2, PartOf
<1>2. h \in S /\ h \in DeviceState
  OBVIOUS
<1>3. SetDevice(d, ConfigAttrs(b), n) = Holding(h, ps)
  BY DEF SetDevice, ConfigAttrs, Holding, HeadSet
<1> HIDE DEF h, part
<1>4. h.peers \in Q
  <2>1. Holding(h, h.peers) = h
    BY <1>2 DEF DeviceState, Holding
  <2>2. h.peers \in PeerStates
    BY <1>2 DEF DeviceState
  <2> QED BY <1>2, <2>1, <2>2
<1>5. ASSUME NEW g \in Q, NEW m \in M PROVE SetPeer(g, m) \in Q
  <2>1. PICK p \in PeerConfig : m = EncodePeer(p)
    BY DEF Messages, Agreeing
  <2>2. SetPeer(g, m) \in PeerStates
    BY <2>1, PeerIsSet
  <2> DEFINE e == Holding(h, g)
             f == SetPeer(g, m)
  <2>3. e \in S /\ e.peers = g /\ e.dev = h.dev /\ e.awg = h.awg
    BY DEF Holding
  <2> HIDE DEF e
  <2>4. Holding(e, SetPeer(e.peers, m)) = Holding(h, f)
    BY <2>3 DEF Holding
  <2> HIDE DEF f
  <2>5. Holding(h, f) \in DeviceState
    BY <1>2, <2>2 DEF Holding, DeviceState, f
  <2>6. Holding(h, f) \in S
    BY <2>3, <2>4, <2>5
  <2> QED BY <2>2, <2>6 DEF f
<1> HIDE DEF Q, M
<1>6. ps \in Q
  BY <1>1, <1>4, <1>5, RequestStays
<1> QED BY <1>3, <1>6 DEF Q

\* How far the device is with x, when the first n messages are sent.
Reached(x, d, n) ==
  /\ HeadDone(x, d)
  /\ Done(d.peers, AllMessages(x), n)
  /\ x.ReplacePeers => Fresh(d.peers, AllMessages(x), n)

LEMMA HeadType ==
  ASSUME NEW b \in Config, NEW d \in DeviceState
  PROVE  HeadSet(d, b) \in DeviceState
<1>1. NoPeers \in PeerStates
  BY PeersAre DEF NoPeers
<1> QED BY <1>1 DEF HeadSet, DeviceState, Config

\* Another caller's request.
LEMMA OthersKeep ==
  ASSUME NEW x \in Config, EachOnce(x), NEW y \in Config, Independent(x, y),
         NEW b \in Config, b.Peers \in Seq(Agreeing(y)), NEW j, HeadOf(y, b, j),
         NEW d \in DeviceState, NEW k \in 0 .. Len(ConfigAttrs(b).peers),
         NEW n \in 0 .. Len(AllMessages(x)), Reached(x, d, n)
  PROVE  Reached(x, SetDevice(d, ConfigAttrs(b), k), n)
<1> DEFINE ms == AllMessages(x)
           S == {e \in DeviceState : Reached(x, e, n)}
<1>1. Tells(x, ms)
  BY AllTell
<1>2. ~ x.ReplacePeers
  BY DEF Independent
<1>3. HeadSet(d, b) \in S
  <2> DEFINE h == HeadSet(d, b)
  <2>1. h \in DeviceState
    BY HeadType
  <2>2. /\ h.dev = (IF b.dev = Nil THEN d.dev ELSE b.dev)
        /\ h.awg = (IF b.awg = Nil THEN d.awg ELSE b.awg)
        /\ h.peers = (IF b.ReplacePeers THEN NoPeers ELSE d.peers)
    BY DEF HeadSet
  <2>3. ~ b.ReplacePeers /\ (x.dev = Nil \/ b.dev = Nil) /\ (x.awg = Nil \/ b.awg = Nil)
    BY DEF HeadOf, Independent
  <2> HIDE DEF h, ms
  <2>4. Reached(x, h, n)
    BY <1>2, <2>2, <2>3 DEF Reached, HeadDone
  <2> QED BY <2>1, <2>4 DEF h
<1>4. ASSUME NEW e \in S, NEW m \in Messages(y), Holding(e, SetPeer(e.peers, m)) \in DeviceState
      PROVE  Holding(e, SetPeer(e.peers, m)) \in S
  <2> DEFINE f == Holding(e, SetPeer(e.peers, m))
  <2>1. PICK i \in DOMAIN y.Peers : Carries(m, y.Peers[i])
    BY MessageCarries
  <2>2. m.key \in KeysOf(y) /\ ToSet(m.ips) \subseteq IPsOf(y)
    BY <2>1 DEF Carries, KeysOf, IPsOf
  <2>3. Foreign(x, m)
    BY <2>2 DEF Foreign, Independent
  <2>4. e.peers \in PeerStates /\ Done(e.peers, ms, n)
    BY DEF DeviceState, Reached
  <2>5. Done(SetPeer(e.peers, m), ms, n)
    BY <1>1, <2>3, <2>4, ForeignKeeps
  <2>6. f.peers = SetPeer(e.peers, m) /\ f.dev = e.dev /\ f.awg = e.awg
    BY DEF Holding
  <2>7. HeadDone(x, e)
    BY DEF Reached
  <2> HIDE DEF f
  <2>8. Reached(x, f, n)
    BY <1>2, <2>5, <2>6, <2>7 DEF Reached, HeadDone
  <2> QED BY <1>4, <2>8 DEF f
<1>5. S \in SUBSET DeviceState
  OBVIOUS
<1> DEFINE e == SetDevice(d, ConfigAttrs(b), k)
<1> HIDE DEF S
<1>6. e \in S
  BY <1>3, <1>4, <1>5, RequestKeeps
<1> QED BY <1>6 DEF S

\* The caller's own request, as a whole.
LEMMA OwnRequest ==
  ASSUME NEW x \in Config, EachOnce(x), NEW j \in 1 .. Len(BuildBatches(x)), NEW d \in DeviceState,
         j # 1 => Reached(x, d, j - 1)
  PROVE  LET req == ConfigAttrs(BuildBatches(x)[j])
         IN  Reached(x, SetDevice(d, req, Len(req.peers)), (j - 1) + Len(req.peers))
<1> DEFINE b == BuildBatches(x)[j]
           ps == ConfigAttrs(b).peers
           N == Len(ps)
           ms == AllMessages(x)
           e == SetDevice(d, ConfigAttrs(b), N)
           base == IF b.ReplacePeers THEN NoPeers ELSE d.peers
<1>1. b \in Config /\ b.Peers \in Seq(Agreeing(x)) /\ HeadOf(x, b, j) /\ j \in Nat \ {0}
  <2>1. BuildBatches(x) \in Seq(Config) /\ BatchesFit(x, BuildBatches(x))
    BY Batched
  <2> QED BY <2>1 DEF BatchesFit
<1>2. Tells(x, ms)
  BY AllTell
<1>3. /\ (j - 1) + N \in 0 .. Len(ms)
      /\ \A i \in 1 .. N : ps[i] = ms[(j - 1) + i]
  BY BatchSays
<1>4. ps \in Seq(Messages(x))
  BY <1>1, RequestIs
<1>5. SubSeq(ps, 1, N) = ps /\ N \in Nat
  BY <1>4
<1>6. /\ e.dev = (IF b.dev = Nil THEN d.dev ELSE b.dev)
      /\ e.awg = (IF b.awg = Nil THEN d.awg ELSE b.awg)
      /\ e.peers = FoldLeft(SetPeer, base, ps)
  BY <1>5 DEF SetDevice, ConfigAttrs
<1>7. Len(ms) \in Nat /\ DOMAIN ms = 1 .. Len(ms)
  BY <1>2 DEF Tells
<1> HIDE DEF e, ps, ms, b
<1>8. HeadDone(x, e)
  <2>1. b.dev = x.dev /\ (j = 1 => b.awg = x.awg) /\ (j # 1 => b.awg = Nil)
    BY <1>1 DEF HeadOf
  <2>2. j # 1 => HeadDone(x, d)
    BY DEF Reached
  <2> QED BY <1>6, <2>1, <2>2 DEF HeadDone
<1>9. base \in PeerStates
  <2>1. NoPeers \in PeerStates
    BY PeersAre DEF NoPeers
  <2> QED BY <2>1 DEF DeviceState
<1> DEFINE Ok(g, n) == Done(g, ms, n) /\ (x.ReplacePeers => Fresh(g, ms, n))
<1>10. Ok(base, j - 1)
  <2>1. CASE j = 1
    <3>1. j - 1 = 0 /\ 1 .. 0 = {}
      BY <2>1
    <3>2. Done(base, ms, 0)
      BY <3>1 DEF Done, Present, Given, Owned, Replaced
    <3>3. x.ReplacePeers => base = NoPeers
      BY <1>1, <2>1 DEF HeadOf
    <3>4. Fresh(NoPeers, ms, 0)
      <4>1. DOMAIN NoPeers = {}
        BY DEF NoPeers
      <4> QED BY <4>1 DEF Fresh
    <3> HIDE DEF base
    <3> QED BY <3>1, <3>2, <3>3, <3>4
  <2>2. CASE j # 1
    <3>1. base = d.peers
      BY <1>1, <2>2 DEF HeadOf
    <3> HIDE DEF base
    <3> QED BY <2>2, <3>1 DEF Reached, ms
  <2> QED BY <2>1, <2>2
<1>11. PICK r : Handled(base, ps, r)
  BY <1>4, PeersOneByOne
<1> DEFINE G == {i \in 0 .. N : r[i] \in PeerStates /\ Ok(r[i], (j - 1) + i)}
<1> HIDE DEF base, Ok
<1>12. 0 \in G
  <2>1. r[0] = base /\ 0 \in 0 .. N /\ (j - 1) + 0 = j - 1
    BY <1>1, <1>5, <1>11 DEF Handled
  <2> QED BY <1>9, <1>10, <2>1
<1>13. ASSUME NEW i \in 1 .. N, i - 1 \in G PROVE i \in G
  <2>1. r[i] = SetPeer(r[i - 1], ps[i]) /\ ps[i] = ms[(j - 1) + i]
    BY <1>3, <1>11 DEF Handled
  <2> DEFINE n == (j - 1) + (i - 1)
  <2>2. n \in Nat /\ n + 1 = (j - 1) + i /\ n + 1 \in 1 .. Len(ms) /\ i \in 0 .. N
    BY <1>1, <1>3, <1>5, <1>7
  <2>3. r[i - 1] \in PeerStates /\ Ok(r[i - 1], n)
    BY <1>13
  <2> HIDE DEF n
  <2>4. r[i] = SetPeer(r[i - 1], ms[n + 1])
    BY <2>1, <2>2
  <2>5. Done(r[i], ms, n + 1)
    BY <1>2, <2>2, <2>3, <2>4, DoneStep DEF Ok
  <2>6. x.ReplacePeers => Fresh(r[i], ms, n + 1)
    BY <2>2, <2>3, <2>4, FreshStep DEF Ok
  <2>7. r[i] \in PeerStates
    <3>1. ps[i] \in Messages(x)
      BY <1>4
    <3>2. PICK p \in PeerConfig : ps[i] = EncodePeer(p)
      BY <3>1 DEF Messages, Agreeing
    <3> QED BY <2>1, <2>3, <3>2, PeerIsSet
  <2>8. Ok(r[i], (j - 1) + i)
    BY <2>2, <2>5, <2>6 DEF Ok
  <2> QED BY <2>2, <2>7, <2>8
<1> HIDE DEF G
<1>14. N \in G
  <2>1. 0 .. N \subseteq G
    BY <1>5, <1>12, <1>13, OneByOne
  <2> QED BY <1>5, <2>1
<1>15. e.peers = r[N]
  BY <1>6, <1>11 DEF Handled
<1>16. Reached(x, e, (j - 1) + N)
  BY <1>8, <1>14, <1>15 DEF G, Ok, Reached, ms
<1> QED BY <1>16 DEF e, ps, b

-----------------------------------------------------------------------------
(* The callers' configurations, one applied after the other.               *)

\* An order of the callers leaves none of them out.
LEMMA CallersInOrder ==
  ASSUME NEW S, IsFiniteSet(S)
  PROVE  SetToSeq(S) \in Seq(S) /\ \A c \in S : \E i \in 1 .. Len(SetToSeq(S)) : SetToSeq(S)[i] = c
<1> DEFINE C == Cardinality(S)
           s == SetToSeq(S)
<1>1. C \in Nat /\ ExistsBijection(1 .. C, S)
  BY FS_CardinalityType
<1>2. \E f \in [1 .. C -> S] : IsInjective(f)
  BY <1>1 DEF ExistsBijection, Bijection, Injection
<1>3. s \in [1 .. C -> S] /\ IsInjective(s)
  BY <1>2 DEF SetToSeq
<1> HIDE DEF s, C
<1>4. s \in Injection(1 .. C, S)
  BY <1>3 DEF Injection
<1>5. IsFiniteSet(1 .. C) /\ Cardinality(1 .. C) = C
  BY <1>1, FS_Interval
<1>6. s \in Surjection(1 .. C, S)
  BY <1>4, <1>5, FS_Injection DEF C
<1>7. s \in Seq(S) /\ Len(s) = C
  BY <1>1, <1>3
<1> QED BY <1>6, <1>7 DEF Surjection, s

\* The recursive function that FoldLeft evaluates.
Applied(w, base, s, n, f) ==
  f = [t \in SUBSET (1 .. n) |->
         IF t = {} THEN base ELSE Configured(f[t \ {Max(t)}], w[s[Max(t)]])]

LEMMA AppliedExists ==
  ASSUME NEW w, NEW base, NEW s
  PROVE  \A n \in Nat : \E f : Applied(w, base, s, n, f)
<1> DEFINE T == {n \in Nat : ~ \E f : Applied(w, base, s, n, f)}
<1> SUFFICES ASSUME T # {} PROVE FALSE
  OBVIOUS
<1>1. PICK n \in T : \A m \in T : n <= m
  BY LeastMember
<1>2. n # 0
  <2> SUFFICES \E f : Applied(w, base, s, 0, f)
    OBVIOUS
  <2>1. 1 .. 0 = {}
    OBVIOUS
  <2>2. Applied(w, base, s, 0, [t \in SUBSET {} |-> base])
    BY <2>1 DEF Applied
  <2> QED BY <2>2
<1>3. n \in Nat /\ n - 1 \in Nat /\ n - 1 \notin T
  BY <1>1, <1>2
<1>4. PICK f : Applied(w, base, s, n - 1, f)
  BY <1>3
<1> DEFINE g == [t \in SUBSET (1 .. n) |->
                   IF n \in t THEN Configured(f[t \ {n}], w[s[n]]) ELSE f[t]]
<1>5. ASSUME NEW t \in SUBSET (1 .. n)
      PROVE  g[t] = IF t = {} THEN base ELSE Configured(g[t \ {Max(t)}], w[s[Max(t)]])
  <2>1. CASE n \in t
    <3>1. Max(t) = n
      BY <1>3, <2>1, MaxIs
    <3>2. t \ {n} \in SUBSET (1 .. n) /\ n \notin t \ {n}
      BY <1>3
    <3>3. g[t \ {n}] = f[t \ {n}]
      BY <3>2
    <3> QED BY <2>1, <3>1, <3>3
  <2>2. CASE n \notin t
    <3>1. t \in SUBSET (1 .. (n - 1))
      BY <1>3, <2>2
    <3>2. f[t] = IF t = {} THEN base ELSE Configured(f[t \ {Max(t)}], w[s[Max(t)]])
      BY <1>4, <3>1 DEF Applied
    <3>3. g[t] = f[t] /\ g[t \ {Max(t)}] = f[t \ {Max(t)}]
      BY <2>2
    <3> QED BY <3>2, <3>3
  <2> QED BY <2>1, <2>2
<1>6. Applied(w, base, s, n, g)
  BY <1>5 DEF Applied
<1> QED BY <1>1, <1>6

Together(w, base) == FoldLeft(LAMBDA d, c : Configured(d, w[c]), base, SetToSeq(DOMAIN w))

\* r[i] is what the first i callers make of base.
InTurn(w, base, r) ==
  LET s == SetToSeq(DOMAIN w)
  IN  /\ r[0] = base
      /\ \A i \in 1 .. Len(s) : r[i] = Configured(r[i - 1], w[s[i]])
      /\ Together(w, base) = r[Len(s)]

LEMMA CallersOneByOne ==
  ASSUME NEW w, IsFiniteSet(DOMAIN w), NEW base
  PROVE  \E r : InTurn(w, base, r)
<1> DEFINE s == SetToSeq(DOMAIN w)
           N == Len(s)
           h == CHOOSE f : Applied(w, base, s, N, f)
<1>1. N \in Nat /\ DOMAIN s = 1 .. N
  <2>1. s \in Seq(DOMAIN w)
    BY CallersInOrder
  <2> QED BY <2>1
<1>2. Applied(w, base, s, N, h)
  BY <1>1, AppliedExists
<1>3. Together(w, base) = h[1 .. N]
  BY <1>1 DEF Together, FoldLeft, MapThenFoldSet, Applied
<1> HIDE DEF h, N, s
<1> DEFINE r == [i \in 0 .. N |-> h[1 .. i]]
<1>4. r[0] = base
  BY <1>1, <1>2 DEF Applied
<1>5. ASSUME NEW i \in 1 .. N PROVE r[i] = Configured(r[i - 1], w[s[i]])
  <2>1. Max(1 .. i) = i
    <3>1. 1 .. i \in SUBSET Int /\ i \in 1 .. i /\ \A y \in 1 .. i : i >= y
      BY <1>1
    <3> QED BY <3>1, MaxIs
  <2>2. /\ (1 .. i) \ {i} = 1 .. (i - 1)
        /\ 1 .. i \in SUBSET (1 .. N)
        /\ 1 .. i # {}
    <3>1. i \in Nat /\ 1 <= i /\ i <= N
      BY <1>1
    <3>2. \A j : j \in (1 .. i) \ {i} <=> j \in 1 .. (i - 1)
      BY <1>1, <3>1
    <3>3. (1 .. i) \ {i} = 1 .. (i - 1)
      BY <3>2
    <3>4. \A j \in 1 .. i : j \in 1 .. N
      BY <1>1, <3>1
    <3>5. i \in 1 .. i
      BY <1>1, <3>1
    <3> QED BY <3>3, <3>4, <3>5
  <2>3. h[1 .. i] = Configured(h[1 .. (i - 1)], w[s[i]])
    BY <1>2, <2>1, <2>2 DEF Applied
  <2>4. r[i] = h[1 .. i] /\ r[i - 1] = h[1 .. (i - 1)]
    BY <1>1
  <2> QED BY <2>3, <2>4
<1>6. r[N] = h[1 .. N]
  BY <1>1
<1> HIDE DEF r
<1>7. InTurn(w, base, r)
  BY <1>3, <1>4, <1>5, <1>6 DEF InTurn, N, s
<1> QED BY <1>7

\* If each configuration changes nothing, all of them change nothing.
LEMMA TogetherSame ==
  ASSUME NEW w, IsFiniteSet(DOMAIN w), NEW d, \A c \in DOMAIN w : Configured(d, w[c]) = d
  PROVE  Together(w, d) = d
<1> DEFINE s == SetToSeq(DOMAIN w)
           N == Len(s)
<1>1. s \in Seq(DOMAIN w)
  BY CallersInOrder
<1>2. PICK r : InTurn(w, d, r)
  BY CallersOneByOne
<1>3. r[0] = d /\ Together(w, d) = r[N] /\ \A i \in 1 .. N : r[i] = Configured(r[i - 1], w[s[i]])
  BY <1>2 DEF InTurn
<1> HIDE DEF s
<1>4. N \in Nat /\ \A i \in 1 .. N : s[i] \in DOMAIN w
  BY <1>1
<1> HIDE DEF N
<1> DEFINE G == {i \in 0 .. N : r[i] = d}
<1>5. 0 \in G
  BY <1>3, <1>4
<1>6. ASSUME NEW i \in 1 .. N, i - 1 \in G PROVE i \in G
  BY <1>3, <1>4, <1>6
<1> HIDE DEF G
<1>7. 0 .. N \subseteq G
  BY <1>4, <1>5, <1>6, OneByOne
<1>8. N \in G
  BY <1>4, <1>7
<1> QED BY <1>3, <1>8 DEF G

\* What goes before or behind every other configuration, and is lost in that
\* of c, changes nothing that all of them make of the device.
LEMMA TogetherKept ==
  ASSUME NEW w, IsFiniteSet(DOMAIN w), \A y \in DOMAIN w : w[y] \in Config,
         NEW c \in DOMAIN w, NEW u \in [DeviceState -> DeviceState],
         \A e \in DeviceState : Configured(u[e], w[c]) = Configured(e, w[c]),
         \A y \in DOMAIN w \ {c} : \A e \in DeviceState :
           Configured(u[e], w[y]) = u[Configured(e, w[y])],
         NEW d \in DeviceState
  PROVE  Together(w, u[d]) = Together(w, d)
<1> DEFINE s == SetToSeq(DOMAIN w)
           N == Len(s)
<1>1. s \in Seq(DOMAIN w) /\ \E i \in 1 .. N : s[i] = c
  BY CallersInOrder
<1>2. PICK r : InTurn(w, d, r)
  BY CallersOneByOne
<1>3. PICK q : InTurn(w, u[d], q)
  BY CallersOneByOne
<1>4. /\ r[0] = d /\ Together(w, d) = r[N]
      /\ \A i \in 1 .. N : r[i] = Configured(r[i - 1], w[s[i]])
      /\ q[0] = u[d] /\ Together(w, u[d]) = q[N]
      /\ \A i \in 1 .. N : q[i] = Configured(q[i - 1], w[s[i]])
  BY <1>2, <1>3 DEF InTurn
<1> HIDE DEF s
<1>5. N \in Nat /\ \A i \in 1 .. N : s[i] \in DOMAIN w /\ w[s[i]] \in Config
  BY <1>1
<1> HIDE DEF N
\* Up to the turn of c, and from then on.
<1> DEFINE Passed(i) == \E k \in 1 .. i : s[k] = c
           G == {i \in 0 .. N : r[i] \in DeviceState /\ (q[i] = r[i] \/ (~ Passed(i) /\ q[i] = u[r[i]]))}
<1>6. 0 \in G
  <2>1. ~ Passed(0)
    OBVIOUS
  <2> HIDE DEF Passed
  <2> QED BY <1>4, <1>5, <2>1
<1>7. ASSUME NEW i \in 1 .. N, i - 1 \in G PROVE i \in G
  <2>1. /\ r[i - 1] \in DeviceState /\ i \in 0 .. N
        /\ r[i] = Configured(r[i - 1], w[s[i]])
        /\ q[i] = Configured(q[i - 1], w[s[i]])
        /\ s[i] \in DOMAIN w /\ w[s[i]] \in Config
    <3>1. i \in 0 .. N
      BY <1>5
    <3>2. r[i - 1] \in DeviceState
      BY <1>7
    <3> QED BY <1>4, <1>5, <3>1, <3>2
  <2>2. r[i] \in DeviceState
    BY <2>1, ConfiguredType
  <2>3. CASE q[i - 1] = r[i - 1]
    BY <2>1, <2>2, <2>3
  <2>4. CASE ~ Passed(i - 1) /\ q[i - 1] = u[r[i - 1]]
    <3>1. CASE s[i] = c
      <4>1. q[i] = r[i]
        BY <2>1, <2>4, <3>1
      <4> QED BY <2>1, <2>2, <4>1
    <3>2. CASE s[i] # c
      <4>1. q[i] = u[r[i]]
        BY <2>1, <2>4, <3>2
      <4>2. ~ Passed(i)
        <5>1. \A k \in 1 .. i : k = i \/ k \in 1 .. (i - 1)
          BY <1>5
        <5> QED BY <2>4, <3>2, <5>1
      <4> HIDE DEF Passed
      <4> QED BY <2>1, <2>2, <4>1, <4>2
    <3> QED BY <3>1, <3>2
  <2>5. q[i - 1] = r[i - 1] \/ (~ Passed(i - 1) /\ q[i - 1] = u[r[i - 1]])
    <3> HIDE DEF Passed
    <3> QED BY <1>7
  <2> QED BY <2>3, <2>4, <2>5
<1>8. Passed(N)
  BY <1>1 DEF N
<1> HIDE DEF G, Passed
<1>9. 0 .. N \subseteq G
  BY <1>5, <1>6, <1>7, OneByOne
<1>10. N \in G
  BY <1>5, <1>9
<1>11. q[N] = r[N]
  BY <1>8, <1>10 DEF G
<1> QED BY <1>4, <1>11

\* A request of one of several independent callers, or a part of it.
LEMMA RequestTogether ==
  ASSUME NEW w, IsFiniteSet(DOMAIN w), \A y \in DOMAIN w : w[y] \in Config,
         \A y, z \in DOMAIN w : y # z => Independent(w[y], w[z]),
         NEW c \in DOMAIN w, EachOnce(w[c]),
         NEW b \in Config, b.Peers \in Seq(Agreeing(w[c])), NEW j, HeadOf(w[c], b, j),
         NEW d \in DeviceState, NEW n \in 0 .. Len(ConfigAttrs(b).peers)
  PROVE  Together(w, SetDevice(d, ConfigAttrs(b), n)) = Together(w, d)
<1> DEFINE x == w[c]
           S == {e \in DeviceState : Together(w, e) = Together(w, d)}
<1>1. x \in Config
  OBVIOUS
<1>2. HeadSet(d, b) \in S
  <2> DEFINE u == [e \in DeviceState |-> HeadSet(e, b)]
  <2>1. u \in [DeviceState -> DeviceState] /\ \A e \in DeviceState : u[e] = HeadSet(e, b)
    BY HeadType
  <2>2. ASSUME NEW e \in DeviceState PROVE Configured(u[e], w[c]) = Configured(e, w[c])
    BY <2>1, HeadAbsorbed
  <2>3. ASSUME NEW y \in DOMAIN w \ {c}, NEW e \in DeviceState
        PROVE  Configured(u[e], w[y]) = u[Configured(e, w[y])]
    <3>1. w[y] \in Config /\ Independent(w[y], w[c])
      OBVIOUS
    <3>2. Configured(e, w[y]) \in DeviceState
      BY <3>1, ConfiguredType
    <3>3. Configured(HeadSet(e, b), w[y]) = HeadSet(Configured(e, w[y]), b)
      BY <1>1, <3>1, HeadCommutes
    <3> HIDE DEF u
    <3> QED BY <2>1, <3>2, <3>3
  <2> HIDE DEF u
  <2>4. Together(w, u[d]) = Together(w, d)
    BY <2>1, <2>2, <2>3, TogetherKept
  <2> QED BY <2>1, <2>4
<1>3. ASSUME NEW f \in S, NEW m \in Messages(x), Holding(f, SetPeer(f.peers, m)) \in DeviceState
      PROVE  Holding(f, SetPeer(f.peers, m)) \in S
  <2> DEFINE u == [e \in DeviceState |-> Holding(e, SetPeer(e.peers, m))]
  <2>0. PICK p \in PeerConfig : m = EncodePeer(p)
    BY DEF Messages, Agreeing
  <2>1. u \in [DeviceState -> DeviceState]
    <3> SUFFICES ASSUME NEW e \in DeviceState PROVE Holding(e, SetPeer(e.peers, m)) \in DeviceState
      OBVIOUS
    <3> DEFINE h == SetPeer(e.peers, m)
    <3>1. e.peers \in PeerStates
      BY DEF DeviceState
    <3>2. h \in PeerStates
      BY <2>0, <3>1, PeerIsSet
    <3> HIDE DEF h
    <3>3. Holding(e, h) \in DeviceState
      BY <3>2 DEF Holding, DeviceState
    <3> QED BY <3>3 DEF h
  <2>2. \A e \in DeviceState : u[e] = Holding(e, SetPeer(e.peers, m))
    OBVIOUS
  <2>3. ASSUME NEW e \in DeviceState PROVE Configured(u[e], w[c]) = Configured(e, w[c])
    BY <1>1, <2>2, MessageAbsorbed
  <2>4. ASSUME NEW y \in DOMAIN w \ {c}, NEW e \in DeviceState
        PROVE  Configured(u[e], w[y]) = u[Configured(e, w[y])]
    <3>1. w[y] \in Config /\ Independent(w[y], w[c])
      OBVIOUS
    <3>2. Configured(e, w[y]) \in DeviceState
      BY <3>1, ConfiguredType
    <3>3. PICK i \in DOMAIN x.Peers : Carries(m, x.Peers[i])
      BY <1>1, MessageCarries
    <3>4. m.key \in KeysOf(x) /\ ToSet(m.ips) \subseteq IPsOf(x)
      BY <3>3 DEF Carries, KeysOf, IPsOf
    <3>5. Foreign(w[y], m)
      BY <3>1, <3>4 DEF Foreign, Independent
    <3>6. Configured(Holding(e, SetPeer(e.peers, m)), w[y])
            = Holding(Configured(e, w[y]), SetPeer(Configured(e, w[y]).peers, m))
      BY <1>1, <3>1, <3>5, MessageCommutes
    <3> HIDE DEF u
    <3> QED BY <2>2, <3>2, <3>6
  <2> HIDE DEF u
  <2>5. f \in DeviceState /\ Together(w, f) = Together(w, d)
    OBVIOUS
  <2>6. Together(w, u[f]) = Together(w, f)
    BY <2>1, <2>3, <2>4, <2>5, TogetherKept
  <2> QED BY <1>3, <2>2, <2>5, <2>6
<1>4. S \in SUBSET DeviceState
  OBVIOUS
<1> DEFINE e == SetDevice(d, ConfigAttrs(b), n)
<1> HIDE DEF S
<1>5. e \in S
  BY <1>1, <1>2, <1>3, <1>4, RequestKeeps
<1> QED BY <1>5 DEF S

-----------------------------------------------------------------------------
(* What holds of the calls under way.                                      *)

Apart == \A c, d \in DOMAIN cfg : c # d => Independent(cfg[c], cfg[d])

\* Before any call, nothing has been done.
AtRest ==
  ~ UnderWay => /\ device = origin
                /\ \A c \in DOMAIN cfg : pc[c] = "idle" /\ result[c] = "none"

\* All the configurations, applied now, would come to what they would have
\* come to at the start.
SameInTheEnd ==
  Apart /\ ~ disturbed => Together(cfg, device) = Together(cfg, origin)

\* A call is as far as its batches are sent.
Ahead(c) ==
  LET all == BuildBatches(cfg[c])
  IN  /\ pc[c] = "batch" =>
           \E j \in 1 .. Len(all) : /\ todo[c] = SubSeq(all, j, Len(all))
                                    /\ j # 1 => Reached(cfg[c], device, j - 1)
      /\ result[c] = "ok" =>
           pc[c] = "done" /\ Reached(cfg[c], device, Len(AllMessages(cfg[c])))
Advancing == Apart /\ ~ disturbed => \A c \in DOMAIN cfg : Ahead(c)

CallInv == AtRest /\ SameInTheEnd /\ Advancing

\* No configuration names a key twice.
EachNamedOnce == \A w \in Workloads : \A c \in DOMAIN w : EachOnce(w[c])

LEMMA ConfigsAre ==
  ASSUME EachNamedOnce, TypeOK
  PROVE  /\ IsFiniteSet(DOMAIN cfg)
         /\ \A c \in DOMAIN cfg : c \in Callers /\ cfg[c] \in Config /\ EachOnce(cfg[c])
<1>1. cfg \in Workloads
  BY DEF TypeOK
<1>2. DOMAIN cfg \subseteq Callers
  BY <1>1, WorkloadsAssumption
<1>3. IsFiniteSet(DOMAIN cfg)
  BY <1>2, CallersAssumption, FS_Subset
<1> QED BY <1>1, <1>3, CallersAre DEF EachNamedOnce

\* A caller that calls again changes nothing but its own state.
LEMMA RetryIs ==
  ASSUME NEW c, Retry(c)
  PROVE  /\ pc[c] = "done" /\ result[c] # "ok"
         /\ pc' = [pc EXCEPT ![c] = "idle"]
         /\ UNCHANGED <<device, cfg, todo, result, tries, origin, disturbed>>
<1>1. pc[c] = "done" /\ result[c] # "ok"
  BY Zenon DEF Retry
<1>2. pc' = [pc EXCEPT ![c] = "idle"]
  BY Zenon DEF Retry
<1>3. UNCHANGED <<host, link, device, cfg, family, todo, result, tries, restarts, removals, origin, disturbed>>
  BY Zenon DEF Retry
<1> QED BY <1>1, <1>2, <1>3

LEMMA AtRestStep == Inv /\ AtRest /\ [Next]_vars => AtRest'
<1> SUFFICES ASSUME Inv, AtRest, [Next]_vars, ~ UnderWay'
             PROVE  device' = origin' /\ \A c \in DOMAIN cfg' : pc'[c] = "idle" /\ result'[c] = "none"
  BY DEF AtRest
<1>1. /\ TypeOK
      /\ \A c \in DOMAIN cfg : c \in Callers
  BY CallersAre DEF Inv, TypeOK
<1>2. ASSUME NEW c \in DOMAIN cfg, Refuse(c) \/ Start(c) PROVE FALSE
  <2>1. tries' = [tries EXCEPT ![c] = tries[c] + 1] /\ c \in Callers
    BY <1>1, <1>2 DEF Refuse, Start, TypeOK
  <2>2. tries'[c] > 0
    BY <1>1, <2>1 DEF TypeOK
  <2> QED BY <2>1, <2>2 DEF UnderWay
<1>3. tries' = tries => /\ device = origin
                        /\ \A c \in DOMAIN cfg : pc[c] = "idle" /\ result[c] = "none"
  BY DEF UnderWay, AtRest
<1>4. ASSUME NEW c \in DOMAIN cfg,
             BatchCancelled(c) \/ EncodeFails(c) \/ DeviceGone(c) \/ Set(c) \/ Retry(c)
      PROVE  FALSE
  <2>1. tries' = tries /\ pc[c] # "idle"
    <3>1. CASE BatchCancelled(c) \/ EncodeFails(c) \/ DeviceGone(c)
      BY <3>1 DEF BatchCancelled, EncodeFails, DeviceGone, Sends
    <3>2. CASE Accepted(c)
      BY <3>2 DEF Accepted, Sends
    <3>3. CASE Rejected(c)
      BY <3>3 DEF Rejected, Sends
    <3>4. CASE Retry(c)
      <4>1. pc[c] = "done" /\ tries' = tries
        BY <3>4, RetryIs
      <4> QED BY <4>1
    <3> QED BY <1>4, <3>1, <3>2, <3>3, <3>4 DEF Set
  <2> QED BY <1>3, <2>1
<1>5. ASSUME NEW c \in DOMAIN cfg, CtxEnds(c) PROVE UNCHANGED <<tries, device, origin, cfg, pc, result>>
  BY <1>5 DEF CtxEnds
<1>6. CASE UNCHANGED <<tries, device, origin, cfg, pc, result>>
  BY <1>3, <1>6
<1>7. CASE LinkRemoved
  BY <1>3, <1>7 DEF LinkRemoved, callVars
<1>8. CASE LinkCreated \/ UNCHANGED vars
  BY <1>6, <1>8 DEF LinkCreated, vars, callVars
<1>9. ASSUME NEW k \in Keys, PeerRemoved(k)
      PROVE  device' = origin' /\ \A c \in DOMAIN cfg' : pc'[c] = "idle" /\ result'[c] = "none"
  BY <1>3, <1>9 DEF PeerRemoved, callVars
<1> QED BY <1>2, <1>4, <1>5, <1>6, <1>7, <1>8, <1>9 DEF Next

\* A round of the loop: the device as the kernel leaves it.
LEMMA RoundIs ==
  ASSUME Inv, NEW c \in DOMAIN cfg, Set(c)
  PROVE  \/ device' = device
         \/ \E j \in 1 .. Len(BuildBatches(cfg[c])) :
              LET b == BuildBatches(cfg[c])[j]
              IN  /\ b \in Config /\ b.Peers \in Seq(Agreeing(cfg[c])) /\ HeadOf(cfg[c], b, j)
                  /\ \E n \in 0 .. Len(ConfigAttrs(b).peers) :
                       device' = SetDevice(device, ConfigAttrs(b), n)
<1> DEFINE all == BuildBatches(cfg[c])
           req == ConfigAttrs(Head(todo[c]))
<1>1. pc[c] = "batch" /\ cfg[c] \in Config
  BY CallersAre DEF Set, Accepted, Rejected, Sends, Inv, TypeOK
<1>2. PICK j \in 1 .. Len(all) :
        /\ Head(todo[c]) = all[j]
        /\ all[j] \in Config
        /\ all[j].Peers \in Seq(Agreeing(cfg[c]))
        /\ HeadOf(cfg[c], all[j], j)
  BY <1>1, NextBatch
<1>3. Len(req.peers) \in Nat
  <2>1. req.peers \in Seq(Messages(cfg[c]))
    BY <1>1, <1>2, RequestIs
  <2> QED BY <2>1
<1>4. device' = device \/ \E n \in 0 .. Len(req.peers) : device' = SetDevice(device, req, n)
  <2>1. Len(req.peers) \in 0 .. Len(req.peers)
    BY <1>3
  <2> HIDE DEF req
  <2> QED BY <2>1 DEF Set, Accepted, Rejected, req
<1>5. req = ConfigAttrs(all[j])
  BY <1>2
<1> HIDE DEF all, req
<1> QED BY <1>2, <1>4, <1>5 DEF all

LEMMA RoundTogether ==
  ASSUME EachNamedOnce, Inv, Apart, NEW c \in DOMAIN cfg, Set(c)
  PROVE  Together(cfg, device') = Together(cfg, device)
<1>1. /\ TypeOK /\ device \in DeviceState /\ IsFiniteSet(DOMAIN cfg)
      /\ \A y \in DOMAIN cfg : cfg[y] \in Config /\ EachOnce(cfg[y])
  BY ConfigsAre DEF Inv, TypeOK
<1>2. CASE device' = device
  BY <1>2
<1>3. ASSUME NEW j \in 1 .. Len(BuildBatches(cfg[c])),
             NEW b \in Config, b.Peers \in Seq(Agreeing(cfg[c])), HeadOf(cfg[c], b, j),
             NEW n \in 0 .. Len(ConfigAttrs(b).peers), device' = SetDevice(device, ConfigAttrs(b), n)
      PROVE  Together(cfg, device') = Together(cfg, device)
  BY <1>1, <1>3, RequestTogether DEF Apart
<1> QED BY <1>2, <1>3, RoundIs

LEMMA RoundKeeps ==
  ASSUME EachNamedOnce, Inv, Apart, NEW c \in DOMAIN cfg, Set(c), NEW y \in DOMAIN cfg \ {c},
         NEW n \in 0 .. Len(AllMessages(cfg[y])), Reached(cfg[y], device, n)
  PROVE  Reached(cfg[y], device', n)
<1>1. /\ TypeOK /\ device \in DeviceState
      /\ \A z \in DOMAIN cfg : cfg[z] \in Config /\ EachOnce(cfg[z])
  BY ConfigsAre DEF Inv, TypeOK
<1>2. CASE device' = device
  BY <1>2
<1>3. ASSUME NEW j \in 1 .. Len(BuildBatches(cfg[c])),
             NEW b \in Config, b.Peers \in Seq(Agreeing(cfg[c])), HeadOf(cfg[c], b, j),
             NEW k \in 0 .. Len(ConfigAttrs(b).peers), device' = SetDevice(device, ConfigAttrs(b), k)
      PROVE  Reached(cfg[y], device', n)
  <2>1. Independent(cfg[y], cfg[c])
    BY DEF Apart
  <2>2. cfg[y] \in Config /\ EachOnce(cfg[y]) /\ cfg[c] \in Config
    BY <1>1
  <2> QED BY <1>1, <1>3, <2>1, <2>2, OthersKeep
<1> QED BY <1>2, <1>3, RoundIs

LEMMA SameStep ==
  ASSUME EachNamedOnce
  PROVE  Inv /\ AtRest /\ SameInTheEnd /\ [Next]_vars => SameInTheEnd'
<1> SUFFICES ASSUME Inv, AtRest, SameInTheEnd, [Next]_vars, Apart', ~ disturbed'
             PROVE  Together(cfg', device') = Together(cfg', origin')
  BY DEF SameInTheEnd
<1>1. cfg' = cfg /\ Apart
  BY ConfigKept DEF Apart
<1>2. ASSUME disturbed' = disturbed PROVE Together(cfg, device) = Together(cfg, origin)
  BY <1>1, <1>2 DEF SameInTheEnd
<1>3. ASSUME NEW c \in DOMAIN cfg, Set(c) PROVE Together(cfg', device') = Together(cfg', origin')
  <2>1. Together(cfg, device') = Together(cfg, device)
    BY <1>1, <1>3, RoundTogether
  <2>2. origin' = origin /\ disturbed' = disturbed
    BY <1>3 DEF Set, Accepted, Rejected
  <2> QED BY <1>1, <1>2, <2>1, <2>2
<1>4. ASSUME NEW c \in DOMAIN cfg,
             \/ Refuse(c) \/ Start(c) \/ BatchCancelled(c) \/ EncodeFails(c)
             \/ DeviceGone(c) \/ Retry(c) \/ CtxEnds(c)
      PROVE  UNCHANGED <<device, origin, disturbed>>
  <2>1. CASE Refuse(c) \/ Start(c) \/ CtxEnds(c)
    BY <2>1 DEF Refuse, Start, CtxEnds
  <2>2. CASE BatchCancelled(c) \/ EncodeFails(c) \/ DeviceGone(c)
    BY <2>2 DEF BatchCancelled, EncodeFails, DeviceGone
  <2>3. CASE Retry(c)
    BY <2>3, RetryIs
  <2> QED BY <1>4, <2>1, <2>2, <2>3
<1>5. CASE UNCHANGED <<device, origin, disturbed>>
  BY <1>1, <1>2, <1>5
<1>6. CASE LinkCreated \/ UNCHANGED vars
  BY <1>5, <1>6 DEF LinkCreated, vars
<1>7. CASE LinkRemoved
  BY <1>7 DEF LinkRemoved
<1>8. ASSUME NEW k \in Keys, PeerRemoved(k) PROVE device' = origin'
  <2>1. ~ UnderWay
    BY <1>8 DEF PeerRemoved
  <2> QED BY <1>8, <2>1 DEF AtRest, PeerRemoved
<1> QED BY <1>3, <1>4, <1>5, <1>6, <1>7, <1>8 DEF Next

\* A call that does not go on is as far as it was.
Unmoved(d) ==
  /\ pc'[d] = "batch" => pc[d] = "batch" /\ todo'[d] = todo[d]
  /\ result'[d] = "ok" => result[d] = "ok" /\ pc'[d] = pc[d]

LEMMA AheadStays ==
  ASSUME NEW d \in DOMAIN cfg, cfg[d] \in Config, cfg' = cfg, Ahead(d), Unmoved(d),
         EachOnce(cfg[d]),
         \A n \in 0 .. Len(AllMessages(cfg[d])) :
           Reached(cfg[d], device, n) => Reached(cfg[d], device', n)
  PROVE  Ahead(d)'
<1> DEFINE x == cfg[d]
           all == BuildBatches(x)
           ms == AllMessages(x)
<1>1. Tells(x, ms)
  BY AllTell
<1>2. Len(ms) \in 0 .. Len(ms)
  <2>1. Len(ms) \in Nat
    BY <1>1 DEF Tells
  <2> HIDE DEF ms
  <2> QED BY <2>1
<1>3. ASSUME NEW j \in 1 .. Len(all) PROVE j - 1 \in 0 .. Len(ms)
  <2> DEFINE ps == ConfigAttrs(all[j]).peers
  <2>1. (j - 1) + Len(ps) \in 0 .. Len(ms)
    BY BatchSays
  <2>2. all \in Seq(Config) /\ BatchesFit(x, all)
    BY Batched
  <2>3. ps \in Seq(Messages(x))
    BY <2>2, RequestIs DEF BatchesFit
  <2>4. Len(ps) \in Nat /\ Len(all) \in Nat
    BY <2>2, <2>3
  <2>5. Len(ms) \in Nat
    BY <1>1 DEF Tells
  <2> HIDE DEF ps, ms, all
  <2> QED BY <2>1, <2>4, <2>5
<1>4. pc'[d] = "batch" =>
        \E j \in 1 .. Len(all) : /\ todo'[d] = SubSeq(all, j, Len(all))
                                 /\ j # 1 => Reached(x, device', j - 1)
  <2> SUFFICES ASSUME pc'[d] = "batch"
               PROVE  \E j \in 1 .. Len(all) : /\ todo'[d] = SubSeq(all, j, Len(all))
                                               /\ j # 1 => Reached(x, device', j - 1)
    OBVIOUS
  <2>1. pc[d] = "batch" /\ todo'[d] = todo[d]
    BY DEF Unmoved
  <2>2. PICK j \in 1 .. Len(all) : /\ todo[d] = SubSeq(all, j, Len(all))
                                   /\ j # 1 => Reached(x, device, j - 1)
    BY <2>1 DEF Ahead
  <2>3. j # 1 => Reached(x, device', j - 1)
    BY <1>3, <2>2
  <2> QED BY <2>1, <2>2, <2>3
<1>5. result'[d] = "ok" => pc'[d] = "done" /\ Reached(x, device', Len(ms))
  BY <1>2 DEF Unmoved, Ahead
<1> QED BY <1>4, <1>5 DEF Ahead

\* A round brings its own call forward.
LEMMA RoundAhead ==
  ASSUME EachNamedOnce, Inv, NEW c \in DOMAIN cfg, Set(c), Ahead(c)
  PROVE  Ahead(c)'
<1> DEFINE x == cfg[c]
           all == BuildBatches(x)
           ms == AllMessages(x)
           req == ConfigAttrs(Head(todo[c]))
<1>1. /\ TypeOK /\ device \in DeviceState /\ c \in Callers /\ x \in Config /\ EachOnce(x)
      /\ pc[c] = "batch" /\ result[c] # "ok"
      /\ cfg' = cfg
  <2>1. TypeOK /\ device \in DeviceState
    BY DEF Inv, TypeOK
  <2>2. pc[c] = "batch" /\ cfg' = cfg
    BY DEF Set, Accepted, Rejected, Sends
  <2>3. result[c] # "ok"
    BY <2>2 DEF Ahead
  <2> QED BY <2>1, <2>2, <2>3, ConfigsAre
<1>2. PICK j \in 1 .. Len(all) :
        /\ todo[c] = SubSeq(all, j, Len(all))
        /\ Len(todo[c]) = Len(all) - j + 1
        /\ Head(todo[c]) = all[j]
        /\ Len(todo[c]) # 1 => /\ j + 1 \in 1 .. Len(all)
                               /\ Tail(todo[c]) = SubSeq(all, j + 1, Len(all))
  BY <1>1, NextBatch
<1>3. Len(all) \in Nat /\ all \in Seq(Config)
  <2>1. all \in Seq(Config)
    BY <1>1, Batched
  <2> HIDE DEF all
  <2> QED BY <2>1
<1>4. j # 1 => Reached(x, device, j - 1)
  <2>1. PICK k \in 1 .. Len(all) : /\ todo[c] = SubSeq(all, k, Len(all))
                                   /\ k # 1 => Reached(x, device, k - 1)
    BY <1>1 DEF Ahead
  <2> HIDE DEF all, x
  <2>2. Len(SubSeq(all, k, Len(all))) = Len(all) - k + 1
    BY <1>3
  <2>3. k = j
    BY <1>2, <1>3, <2>1, <2>2
  <2> QED BY <2>1, <2>3
<1>5. /\ req = ConfigAttrs(all[j])
      /\ Reached(x, SetDevice(device, req, Len(req.peers)), (j - 1) + Len(req.peers))
      /\ j # Len(all) => Len(req.peers) = 1
      /\ j = Len(all) => (j - 1) + Len(req.peers) = Len(ms)
  <2>1. req = ConfigAttrs(all[j])
    BY <1>2
  <2>2. Reached(x, SetDevice(device, req, Len(req.peers)), (j - 1) + Len(req.peers))
    BY <1>1, <1>4, <2>1, OwnRequest
  <2>3. /\ j # Len(all) => Len(req.peers) = 1
        /\ j = Len(all) => (j - 1) + Len(req.peers) = Len(ms)
    BY <1>1, <2>1, BatchSays
  <2> QED BY <2>1, <2>2, <2>3
<1> HIDE DEF all, ms, x
<1>6. CASE Accepted(c)
  <2>1. device' = SetDevice(device, req, Len(req.peers))
    BY <1>6 DEF Accepted
  <2> HIDE DEF req
  <2>2. CASE Len(todo[c]) = 1
    <3>1. j = Len(all)
      BY <1>2, <1>3, <2>2
    <3>2. Reached(x, device', Len(ms))
      BY <1>5, <2>1, <3>1
    <3>3. pc'[c] = "done"
      BY <1>1, <1>6, <2>2 DEF Accepted, Return, TypeOK
    <3> QED BY <1>1, <3>2, <3>3 DEF Ahead, x, ms
  <2>3. CASE Len(todo[c]) # 1
    <3>1. Reached(x, device', (j + 1) - 1) /\ j + 1 \in 1 .. Len(all)
      <4>1. j # Len(all) /\ (j - 1) + 1 = (j + 1) - 1
        BY <1>2, <1>3, <2>3
      <4> QED BY <1>2, <1>5, <2>1, <2>3, <4>1
    <3>2. /\ pc' = pc /\ result' = result
          /\ todo'[c] = Tail(todo[c])
      BY <1>1, <1>6, <2>3 DEF Accepted, TypeOK
    <3>3. todo'[c] = SubSeq(all, j + 1, Len(all))
      BY <1>2, <2>3, <3>2
    <3> QED BY <1>1, <3>1, <3>2, <3>3 DEF Ahead, x, all
  <2> QED BY <2>2, <2>3
<1>7. CASE Rejected(c)
  <2>1. pc'[c] = "done" /\ result'[c] # "ok"
    BY <1>1, <1>7 DEF Rejected, Return, TypeOK
  <2> QED BY <2>1 DEF Ahead
<1> QED BY <1>6, <1>7 DEF Set

LEMMA AdvancingStep ==
  ASSUME EachNamedOnce
  PROVE  Inv /\ AtRest /\ Advancing /\ [Next]_vars => Advancing'
<1> SUFFICES ASSUME Inv, AtRest, Advancing, [Next]_vars, Apart', ~ disturbed', NEW d \in DOMAIN cfg'
             PROVE  Ahead(d)'
  BY DEF Advancing
<1>1. /\ cfg' = cfg /\ Apart /\ d \in DOMAIN cfg /\ d \in Callers
      /\ TypeOK /\ cfg[d] \in Config /\ EachOnce(cfg[d])
  BY ConfigKept, ConfigsAre DEF Apart, Inv
<1>2. ASSUME disturbed' = disturbed PROVE Ahead(d)
  BY <1>1, <1>2 DEF Advancing
<1>3. ASSUME disturbed' = disturbed, device' = device, Unmoved(d) PROVE Ahead(d)'
  BY <1>1, <1>2, <1>3, AheadStays
<1>4. ASSUME NEW c \in DOMAIN cfg, Set(c) PROVE Ahead(d)'
  <2>1. disturbed' = disturbed /\ c \in Callers
    BY <1>1, <1>4, ConfigsAre DEF Set, Accepted, Rejected
  <2>2. CASE d = c
    BY <1>1, <1>2, <1>4, <2>1, <2>2, RoundAhead
  <2>3. CASE d # c
    <3>1. Unmoved(d)
      BY <1>1, <1>4, <2>1, <2>3 DEF Unmoved, Set, Accepted, Rejected, Return, TypeOK
    <3>2. \A n \in 0 .. Len(AllMessages(cfg[d])) :
            Reached(cfg[d], device, n) => Reached(cfg[d], device', n)
      BY <1>1, <1>4, <2>3, RoundKeeps
    <3> QED BY <1>1, <1>2, <2>1, <3>1, <3>2, AheadStays
  <2> QED BY <2>2, <2>3
<1>5. ASSUME NEW c \in DOMAIN cfg, Start(c) PROVE Ahead(d)'
  <2>1. /\ c \in Callers /\ disturbed' = disturbed /\ device' = device
        /\ pc[c] = "idle" /\ result' = result
        /\ pc' = [pc EXCEPT ![c] = "batch"]
        /\ todo' = [todo EXCEPT ![c] = BuildBatches(cfg[c])]
    BY <1>1, <1>5, ConfigsAre DEF Start
  <2>2. CASE d = c
    <3> DEFINE all == BuildBatches(cfg[d])
    <3>1. todo'[d] = all /\ pc'[d] = "batch"
      BY <1>1, <2>1, <2>2 DEF TypeOK
    <3>2. all \in Seq(Config) /\ all # <<>>
      BY <1>1, Batched
    <3>3. result'[d] # "ok"
      BY <1>2, <2>1, <2>2 DEF Ahead
    <3> HIDE DEF all
    <3>4. 1 \in 1 .. Len(all) /\ all = SubSeq(all, 1, Len(all))
      BY <3>2
    <3> QED BY <1>1, <3>1, <3>3, <3>4 DEF Ahead, all
  <2>3. CASE d # c
    <3>1. Unmoved(d)
      BY <1>1, <2>1, <2>3 DEF Unmoved, TypeOK
    <3> QED BY <1>3, <2>1, <3>1
  <2> QED BY <2>2, <2>3
<1>6. ASSUME NEW c \in DOMAIN cfg, NEW res, res # "ok", Return(c, res),
             disturbed' = disturbed, device' = device
      PROVE  Ahead(d)'
  <2>1. c \in Callers
    BY <1>1, ConfigsAre
  <2>2. CASE d = c
    <3>1. pc'[d] = "done" /\ result'[d] # "ok"
      BY <1>1, <1>6, <2>2 DEF Return, TypeOK
    <3> QED BY <3>1 DEF Ahead
  <2>3. CASE d # c
    <3>1. Unmoved(d)
      BY <1>1, <1>6, <2>3 DEF Unmoved, Return, TypeOK
    <3> QED BY <1>3, <1>6, <3>1
  <2> QED BY <2>2, <2>3
<1>7. ASSUME NEW c \in DOMAIN cfg, Refuse(c) PROVE Ahead(d)'
  <2>1. PICK res \in Refusal(c) : Return(c, res)
    BY <1>7 DEF Refuse
  <2>2. res # "ok"
    BY <2>1, RefusalIs
  <2>3. disturbed' = disturbed /\ device' = device
    BY <1>7 DEF Refuse
  <2> QED BY <1>6, <2>1, <2>2, <2>3
<1>8. ASSUME NEW c \in DOMAIN cfg, BatchCancelled(c) \/ EncodeFails(c) \/ DeviceGone(c)
      PROVE  Ahead(d)'
  <2>1. disturbed' = disturbed /\ device' = device
    BY <1>8 DEF BatchCancelled, EncodeFails, DeviceGone
  <2>2. Return(c, "ctx") \/ Return(c, "encode") \/ Return(c, "notexist")
    BY <1>8 DEF BatchCancelled, EncodeFails, DeviceGone
  <2> QED BY <1>6, <2>1, <2>2
<1>9. ASSUME NEW c \in DOMAIN cfg, Retry(c) PROVE Ahead(d)'
  <2>1. c \in Callers
    BY <1>1, ConfigsAre
  <2>2. Unmoved(d)
    BY <1>1, <1>9, <2>1, RetryIs DEF Unmoved, TypeOK
  <2>3. disturbed' = disturbed /\ device' = device
    BY <1>9, RetryIs
  <2> QED BY <1>3, <2>2, <2>3
<1>10. CASE UNCHANGED <<pc, todo, result, device, disturbed>>
  <2>1. Unmoved(d)
    BY <1>10 DEF Unmoved
  <2> QED BY <1>3, <1>10, <2>1
<1>11. ASSUME NEW c \in DOMAIN cfg, CtxEnds(c) PROVE Ahead(d)'
  BY <1>10, <1>11 DEF CtxEnds
<1>12. CASE LinkCreated \/ UNCHANGED vars
  BY <1>10, <1>12 DEF LinkCreated, vars, callVars
<1>13. ASSUME UNCHANGED callVars, disturbed' = (disturbed \/ UnderWay) PROVE Ahead(d)'
  <2>1. ~ UnderWay
    BY <1>13
  <2>2. pc'[d] = "idle" /\ result'[d] = "none"
    BY <1>1, <1>13, <2>1 DEF callVars, AtRest
  <2> QED BY <2>2 DEF Ahead
<1>14. CASE LinkRemoved
  BY <1>13, <1>14 DEF LinkRemoved
<1>15. ASSUME NEW k \in Keys, PeerRemoved(k) PROVE Ahead(d)'
  BY <1>13, <1>15 DEF PeerRemoved
<1> QED BY <1>4, <1>5, <1>7, <1>8, <1>9, <1>11, <1>12, <1>14, <1>15 DEF Next

LEMMA InitCallInv == Init => CallInv
<1> SUFFICES ASSUME Init PROVE CallInv
  OBVIOUS
<1>1. /\ device = origin
      /\ \A c \in DOMAIN cfg : c \in Callers
  BY CallersAre DEF Init
<1>2. \A c \in DOMAIN cfg : pc[c] = "idle" /\ result[c] = "none"
  BY <1>1 DEF Init
<1>3. AtRest
  BY <1>1, <1>2 DEF AtRest
<1>4. SameInTheEnd
  BY <1>1 DEF SameInTheEnd
<1>5. Advancing
  BY <1>2 DEF Advancing, Ahead
<1> QED BY <1>3, <1>4, <1>5 DEF CallInv

LEMMA CallInvStep ==
  ASSUME EachNamedOnce
  PROVE  Inv /\ CallInv /\ [Next]_vars => CallInv'
BY AtRestStep, SameStep, AdvancingStep DEF CallInv

LEMMA SuccessIs ==
  ASSUME EachNamedOnce
  PROVE  Inv /\ CallInv => SuccessMeansConfigured
<1> SUFFICES ASSUME Inv, CallInv, Apart, ~ disturbed, \A c \in DOMAIN cfg : result[c] = "ok"
             PROVE  device = Together(cfg, origin)
  BY DEF SuccessMeansConfigured, Together, Apart, FoldLeft, MapThenFoldSet
<1>1. /\ TypeOK /\ device \in DeviceState /\ IsFiniteSet(DOMAIN cfg)
  BY ConfigsAre DEF Inv, TypeOK
<1>2. ASSUME NEW c \in DOMAIN cfg PROVE Configured(device, cfg[c]) = device
  <2>1. cfg[c] \in Config /\ EachOnce(cfg[c])
    BY <1>1, ConfigsAre
  <2>2. Finished(cfg[c], AllMessages(cfg[c]), device)
    BY DEF CallInv, Advancing, Ahead, Reached, Finished
  <2> QED BY <1>1, <2>1, <2>2, AllTell, FinishedIs
<1>3. Together(cfg, device) = device
  BY <1>1, <1>2, TogetherSame
<1> QED BY <1>3 DEF CallInv, SameInTheEnd

-----------------------------------------------------------------------------
(* The theorems.                                                           *)

\* Every variable keeps its type; in particular the kernel holds a device
\* with a function from keys to peers, whatever requests half of which fail
\* are interleaved, and a call between two batches has one left to send.
THEOREM TypeCorrect == Spec => []TypeOK
BY Invariant, PTL DEF Inv

\* A configuration with AmneziaWG fields leaves nothing behind on a WireGuard
\* link: ConfigureDevice refuses it before the first batch.
THEOREM RefusedWhole == Spec => []AWGRefusedWhole
<1>1. Inv => AWGRefusedWhole
  <2> SUFFICES ASSUME Inv, link = "wireguard",
                      \A c \in DOMAIN cfg : ~ Understood(ConfigAttrs(cfg[c]), "wireguard")
               PROVE  device = origin
    BY DEF AWGRefusedWhole
  <2>1. \A c \in DOMAIN cfg : HasAWGFields(cfg[c])
    BY CallersAre, FieldsAreRefused DEF Inv, TypeOK
  <2> QED BY <2>1 DEF Inv, Untouched
<1> QED BY Invariant, <1>1, PTL

\* The device changes in a round of the loop, or by somebody else, who
\* creates no peer.
LEMMA DeviceStep ==
  ASSUME Inv, [Next]_vars
  PROVE  \/ \E c \in DOMAIN cfg : Set(c)
         \/ device' = device
         \/ DOMAIN device'.peers \subseteq DOMAIN device.peers /\ UNCHANGED callVars
<1>1. ASSUME NEW c \in DOMAIN cfg,
             \/ Refuse(c) \/ Start(c) \/ BatchCancelled(c) \/ EncodeFails(c)
             \/ DeviceGone(c) \/ Retry(c) \/ CtxEnds(c)
      PROVE  device' = device
  BY <1>1 DEF Refuse, Start, BatchCancelled, EncodeFails, DeviceGone, Retry, CtxEnds
<1>2. CASE LinkRemoved
  <2>1. DOMAIN NewDevice.peers = {}
    BY DEF NewDevice, NoPeers
  <2> QED BY <1>2, <2>1 DEF LinkRemoved
<1>3. CASE LinkCreated \/ UNCHANGED vars
  BY <1>3 DEF LinkCreated, vars
<1>4. ASSUME NEW k \in Keys, PeerRemoved(k)
      PROVE  DOMAIN device'.peers \subseteq DOMAIN device.peers /\ UNCHANGED callVars
  <2>1. device'.peers = WithoutPeer(device.peers, k)
    BY <1>4 DEF PeerRemoved, Inv, TypeOK, DeviceState
  <2>2. DOMAIN WithoutPeer(device.peers, k) = DOMAIN device.peers \ {k}
    BY DEF WithoutPeer
  <2> QED BY <1>4, <2>1, <2>2 DEF PeerRemoved
<1> QED BY <1>1, <1>2, <1>3, <1>4 DEF Next

\* A peer appears only when some caller's configuration names its key in an
\* entry that is neither UpdateOnly nor Remove.
THEOREM NeverCreated == Spec => UpdateOnlyNeverCreates
<1> DEFINE Wanted(k) == \E c \in DOMAIN cfg : \E i \in DOMAIN cfg[c].Peers :
                          /\ cfg[c].Peers[i].PublicKey = k
                          /\ ~ cfg[c].Peers[i].UpdateOnly
                          /\ ~ cfg[c].Peers[i].Remove
           Step == \A k \in DOMAIN device'.peers \ DOMAIN device.peers : Wanted(k)
<1>1. Inv /\ [Next]_vars => Step
  <2> SUFFICES ASSUME Inv, [Next]_vars, NEW k \in DOMAIN device'.peers \ DOMAIN device.peers
               PROVE  Wanted(k)
    OBVIOUS
  <2>1. PICK c \in DOMAIN cfg : Set(c)
    BY DeviceStep
  <2>2. k \in Created(cfg[c])
    BY <2>1, RoundTouches
  <2> QED BY <2>2 DEF Created
<1>2. Inv /\ [Next]_vars => [Step]_vars
  BY <1>1
<1> QED BY Invariant, <1>2, PTL DEF Spec, UpdateOnlyNeverCreates

\* A batch that is not a call's first removes only peers the call was asked to
\* remove, wherever the configuration was split.
THEOREM LateBatches == Spec => LateBatchesOnlyAdd
<1> DEFINE Asked(c, k) == \E i \in DOMAIN cfg[c].Peers :
                            cfg[c].Peers[i].PublicKey = k /\ cfg[c].Peers[i].Remove
           Late(c) == pc[c] = "batch" /\ device' # device /\ todo'[c] # todo[c]
                        /\ Len(todo[c]) < Len(BuildBatches(cfg[c]))
           Step == \A c \in DOMAIN cfg : Late(c) =>
                     \A k \in DOMAIN device.peers \ DOMAIN device'.peers : Asked(c, k)
<1>1. Inv /\ [Next]_vars => Step
  <2> SUFFICES ASSUME Inv, [Next]_vars, NEW c \in DOMAIN cfg, Late(c),
                      NEW k \in DOMAIN device.peers \ DOMAIN device'.peers
               PROVE  Asked(c, k)
    OBVIOUS
  <2>1. PICK d \in DOMAIN cfg : Set(d)
    BY DeviceStep DEF callVars
  <2>2. d = c
    <3>1. c \in Callers /\ d \in Callers /\ DOMAIN todo = Callers
      BY CallersAre DEF Inv, TypeOK
    <3> QED BY <2>1, <3>1 DEF Set, Accepted, Rejected, Return
  <2>3. k \in Removed(cfg[c])
    BY <2>1, <2>2, RoundTouches
  <2> QED BY <2>3 DEF Removed
<1>2. Inv /\ [Next]_vars => [Step]_vars
  BY <1>1
<1> QED BY Invariant, <1>2, PTL DEF Spec, LateBatchesOnlyAdd

\* ConfigureDevice returned nil to every caller: the device is what their
\* configurations, each applied whole, make of what was there before, however
\* they were split, however the batches interleaved and however many attempts
\* failed half-way.
THEOREM NilMeansConfigured ==
  ASSUME EachNamedOnce
  PROVE  Spec => []SuccessMeansConfigured
<1>1. Spec => []Inv
  BY Invariant
<1>2. Inv /\ CallInv /\ [Next]_vars => CallInv'
  BY CallInvStep
<1>3. Init => CallInv
  BY InitCallInv
<1>4. Inv /\ CallInv => SuccessMeansConfigured
  BY SuccessIs
<1> QED BY <1>1, <1>2, <1>3, <1>4, PTL DEF Spec
===============================================================================
