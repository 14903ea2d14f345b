-------------------------- MODULE DeviceTransferProofs --------------------------
(***************************************************************************)
(* Theorems about the two places where a device travels piece by piece:    *)
(* BSDClient, where it is words in memory, and UAPI, where it is lines on  *)
(* a socket.  Both rest on the same facts about FlattenSeq, about the      *)
(* order in which SetToSeq puts a set, and about Configured.               *)
(***************************************************************************)
EXTENDS BSDClient, UAPI, FiniteSetTheorems, WellFoundedInduction, TLAPS

-----------------------------------------------------------------------------
(* Sets as sequences.                                                      *)

\* An order of a finite set leaves none of its members out.
LEMMA SetToSeqsAre ==
  ASSUME NEW S, IsFiniteSet(S), NEW s \in SetToSeqs(S)
  PROVE  /\ s \in Seq(S) /\ Len(s) = Cardinality(S)
         /\ \A x \in S : \E i \in DOMAIN s : s[i] = x
<1> DEFINE C == Cardinality(S)
<1>1. C \in Nat
  BY FS_CardinalityType
<1>2. s \in [1 .. C -> S] /\ \A i, j \in 1 .. C : i # j => s[i] # s[j]
  BY DEF SetToSeqs
<1>3. s \in Injection(1 .. C, S)
  BY <1>2 DEF Injection, IsInjective
<1>4. Cardinality(1 .. C) = C
  BY <1>1, FS_Interval
<1>5. s \in Surjection(1 .. C, S)
  BY <1>3, <1>4, FS_Injection
<1> QED BY <1>1, <1>2, <1>5 DEF Surjection

LEMMA SetToSeqIs ==
  ASSUME NEW S, IsFiniteSet(S)
  PROVE  SetToSeq(S) \in SetToSeqs(S)
<1> DEFINE C == Cardinality(S)
<1>1. C \in Nat /\ ExistsBijection(1 .. C, S)
  BY FS_CardinalityType
<1>2. \E f \in [1 .. C -> S] : IsInjective(f)
  BY <1>1 DEF ExistsBijection, Bijection, Injection
<1>3. SetToSeq(S) \in [1 .. C -> S] /\ IsInjective(SetToSeq(S))
  BY <1>2 DEF SetToSeq
<1> QED BY <1>3 DEF SetToSeqs, IsInjective

-----------------------------------------------------------------------------
(* FlattenSeq.                                                             *)

\* A set of natural numbers has a least member.
LEMMA LeastMember ==
  ASSUME NEW T \in SUBSET Nat, T # {}
  PROVE  \E n \in T : \A m \in T : n <= m
<1>1. PICK n \in T : \A m \in T : ~ (<<m, n>> \in OpToRel(<, Nat))
  BY NatLessThanWellFounded, WFMin
<1>2. \A m \in T : ~ (m < n)
  BY <1>1 DEF OpToRel
<1> QED BY <1>2

\* The largest member of a set.
LEMMA MaxIs ==
  ASSUME NEW S \in SUBSET Int, NEW m \in S, \A y \in S : m >= y
  PROVE  Max(S) = m
<1>1. \E x \in S : \A y \in S : x >= y
  OBVIOUS
<1>2. Max(S) \in S /\ \A y \in S : Max(S) >= y
  BY <1>1 DEF Max
<1>3. Max(S) >= m /\ m >= Max(S) /\ m \in Int /\ Max(S) \in Int
  BY <1>2
<1> QED BY <1>3

\* The recursive function that FlattenSeq(ss) evaluates at Len(ss).
Joined(ss, n, f) ==
  f = [i \in 1 .. n |-> IF i = 1 THEN ss[i] ELSE f[i - 1] \o ss[i]]

LEMMA JoinedExists ==
  ASSUME NEW ss
  PROVE  \A n \in Nat : \E f : Joined(ss, n, f)
<1> DEFINE T == {n \in Nat : ~ \E f : Joined(ss, n, f)}
<1> SUFFICES ASSUME T # {} PROVE FALSE
  OBVIOUS
<1>1. PICK n \in T : \A m \in T : n <= m
  BY LeastMember
<1>2. n # 0
  <2>1. Joined(ss, 0, [i \in 1 .. 0 |-> ss[i]])
    BY DEF Joined
  <2> QED BY <2>1
<1>3. n \in Nat /\ n - 1 \in Nat /\ n - 1 \notin T
  BY <1>1, <1>2
<1>4. PICK f : Joined(ss, n - 1, f)
  BY <1>3
<1> DEFINE g == [i \in 1 .. n |->
                   IF i = n THEN IF i = 1 THEN ss[i] ELSE f[i - 1] \o ss[i] ELSE f[i]]
<1>5. ASSUME NEW i \in 1 .. n
      PROVE  g[i] = IF i = 1 THEN ss[i] ELSE g[i - 1] \o ss[i]
  <2>1. i # 1 => i - 1 \in 1 .. n /\ i - 1 # n
    BY <1>3
  <2>2. i # 1 => g[i - 1] = f[i - 1]
    BY <2>1
  <2>3. CASE i = n
    BY <2>2, <2>3
  <2>4. CASE i # n
    <3>1. i \in 1 .. (n - 1)
      BY <1>3, <2>4
    <3>2. f[i] = IF i = 1 THEN ss[i] ELSE f[i - 1] \o ss[i]
      BY <1>4, <3>1 DEF Joined
    <3> QED BY <2>2, <2>4, <3>2
  <2> QED BY <2>3, <2>4
<1>6. Joined(ss, n, g)
  BY <1>5 DEF Joined
<1> QED BY <1>1, <1>6

\* What holds of the first, and of each that follows one of which it holds.
LEMMA OneByOne ==
  ASSUME NEW N \in Nat, NEW G,
         0 \in G, \A n \in 1 .. N : n - 1 \in G => n \in G
  PROVE  0 .. N \subseteq G
<1> DEFINE T == {n \in 0 .. N : n \notin G}
<1> SUFFICES ASSUME T # {} PROVE FALSE
  OBVIOUS
<1>1. T \in SUBSET Nat
  OBVIOUS
<1>2. PICK n \in T : \A m \in T : n <= m
  <2> HIDE DEF T
  <2> QED BY <1>1, LeastMember
<1>3. n \in 1 .. N /\ n - 1 \in 0 .. N /\ ~ (n <= n - 1)
  BY <1>2
<1> QED BY <1>2, <1>3

\* c[i] is the place where the i-th of the sequences ss ends in whole, which
\* has them one behind the other, up to the n-th.
Cuts(ss, n, whole, c) ==
  /\ c[n] = Len(whole)
  /\ \A i \in 1 .. n :
       /\ c[i] = c[i - 1] + Len(ss[i]) /\ c[i] <= c[n]
       /\ \A j \in 1 .. Len(ss[i]) : whole[c[i - 1] + j] = ss[i][j]

\* Where the elements of a concatenation are.
LEMMA Concatenation ==
  ASSUME NEW X, NEW s \in Seq(X), NEW t \in Seq(X)
  PROVE  /\ s \o t \in Seq(X) /\ Len(s \o t) = Len(s) + Len(t)
         /\ \A i \in 1 .. Len(s) : (s \o t)[i] = s[i]
         /\ \A j \in 1 .. Len(t) : (s \o t)[Len(s) + j] = t[j]
OBVIOUS

\* One more sequence.
LEMMA CutsStep ==
  ASSUME NEW X, NEW ss \in Seq(Seq(X)), NEW n \in 1 .. Len(ss),
         NEW c \in [0 .. Len(ss) -> Nat], NEW s \in Seq(X),
         Cuts(ss, n - 1, s, c), c[n] = Len(s \o ss[n])
  PROVE  Cuts(ss, n, s \o ss[n], c)
<1>1. /\ n \in Nat /\ n - 1 \in 0 .. Len(ss) /\ n \in 0 .. Len(ss) /\ Len(ss) \in Nat
      /\ n - 1 \in Nat
  OBVIOUS
<1>0. \A i \in 1 .. Len(ss) : ss[i] \in Seq(X) /\ Len(ss[i]) \in Nat
  OBVIOUS
<1>2. ss[n] \in Seq(X) /\ Len(ss[n]) \in Nat /\ c[n - 1] = Len(s) /\ c[n - 1] \in Nat
  BY <1>1 DEF Cuts
<1>3. c[n] = c[n - 1] + Len(ss[n])
  BY <1>2
<1>4. ASSUME NEW i \in 1 .. n
      PROVE  /\ c[i] = c[i - 1] + Len(ss[i]) /\ c[i] <= c[n]
             /\ \A j \in 1 .. Len(ss[i]) : (s \o ss[n])[c[i - 1] + j] = ss[i][j]
  <2>1. CASE i = n
    <3>1. ASSUME NEW j \in 1 .. Len(ss[n])
          PROVE  (s \o ss[n])[c[n - 1] + j] = ss[n][j]
      BY <1>2, Concatenation
    <3>2. c[n] \in Nat
      BY <1>1
    <3>3. c[n] <= c[n]
      BY <3>2
    <3> QED BY <1>3, <2>1, <3>1, <3>3
  <2>2. CASE i # n
    <3>1. /\ i \in 1 .. (n - 1) /\ i \in 0 .. Len(ss) /\ i - 1 \in 0 .. Len(ss)
          /\ i \in 1 .. Len(ss)
      BY <1>1, <2>2
    <3>2. /\ c[i] = c[i - 1] + Len(ss[i]) /\ c[i] <= c[n - 1]
          /\ \A j \in 1 .. Len(ss[i]) : s[c[i - 1] + j] = ss[i][j]
      BY <3>1 DEF Cuts
    <3>3. ss[i] \in Seq(X) /\ Len(ss[i]) \in Nat /\ c[i] \in Nat /\ c[i - 1] \in Nat /\ c[n] \in Nat
      BY <1>0, <1>1, <3>1
    <3>4. ASSUME NEW j \in 1 .. Len(ss[i])
          PROVE  (s \o ss[n])[c[i - 1] + j] = s[c[i - 1] + j]
      <4>1. c[i - 1] + j \in 1 .. Len(s)
        <5>1. j \in Nat /\ 1 <= j /\ j <= Len(ss[i])
          BY <3>3
        <5>2. c[i - 1] + j <= c[n - 1]
          <6>1. c[i] = c[i - 1] + Len(ss[i]) /\ c[i] <= c[n - 1]
            BY <3>2
          <6>2. c[n - 1] \in Nat /\ c[i] \in Nat /\ c[i - 1] \in Nat /\ Len(ss[i]) \in Nat
            BY <1>2, <3>3
          <6> DEFINE a == c[i - 1]
                     b == c[i]
                     e == c[n - 1]
                     l == Len(ss[i])
          <6>3. /\ a \in Nat /\ b \in Nat /\ e \in Nat /\ l \in Nat
                /\ b = a + l /\ b <= e /\ j \in Nat /\ j <= l
            BY <5>1, <6>1, <6>2
          <6>4. a + j <= e
            <7> HIDE DEF a, b, e, l
            <7> QED BY ONLY <6>3
          <6> QED BY <6>4
        <5>3. c[i - 1] + j \in Nat /\ 1 <= c[i - 1] + j
          BY <3>3, <5>1
        <5> QED BY <1>2, <5>2, <5>3
      <4> QED BY <1>2, <4>1, Concatenation
    <3>5. c[i] <= c[n]
      BY <1>2, <1>3, <3>2, <3>3
    <3> QED BY <3>2, <3>4, <3>5
  <2> QED BY <2>1, <2>2
<1>5. c[n] = Len(s \o ss[n])
  OBVIOUS
<1> QED BY <1>4, <1>5 DEF Cuts

\* Where the sequences are that FlattenSeq joins.
LEMMA Flattened ==
  ASSUME NEW X, NEW ss \in Seq(Seq(X))
  PROVE  /\ FlattenSeq(ss) \in Seq(X)
         /\ \E c \in [0 .. Len(ss) -> Nat] : c[0] = 0 /\ Cuts(ss, Len(ss), FlattenSeq(ss), c)
<1> DEFINE N == Len(ss)
           f == CHOOSE g : Joined(ss, N, g)
           h == [i \in 0 .. N |-> IF i = 0 THEN <<>> ELSE f[i]]
           c == [i \in 0 .. N |-> Len(h[i])]
<1>1. N \in Nat /\ 0 \in 0 .. N /\ N \in 0 .. N /\ \A i \in 1 .. N : ss[i] \in Seq(X)
  OBVIOUS
<1>2. FlattenSeq(ss) = h[N]
  <2>1. CASE N = 0
    <3>1. ss = <<>> /\ FlattenSeq(ss) = ss
      BY <2>1 DEF FlattenSeq
    <3> QED BY <1>1, <2>1, <3>1
  <2>2. CASE N # 0
    <3>1. FlattenSeq(ss) = f[N]
      BY <1>1, <2>2 DEF FlattenSeq, Joined
    <3> QED BY <1>1, <2>2, <3>1
  <2> QED BY <2>1, <2>2
<1>3. Joined(ss, N, f)
  BY <1>1, JoinedExists
<1> HIDE DEF f
<1>4. ASSUME NEW i \in 1 .. N
      PROVE  h[i] = h[i - 1] \o ss[i] /\ i - 1 \in 0 .. N /\ i \in 0 .. N
  <2>1. i - 1 \in 0 .. N /\ i \in 0 .. N /\ i # 0 /\ (i = 1 <=> i - 1 = 0)
    BY <1>1
  <2>2. f[i] = IF i = 1 THEN ss[i] ELSE f[i - 1] \o ss[i]
    BY <1>3 DEF Joined
  <2>3. <<>> \o ss[i] = ss[i]
    BY <1>1
  <2> QED BY <2>1, <2>2, <2>3
<1>5. h[0] = <<>>
  BY <1>1
<1> HIDE DEF h
<1>6. \A i \in 0 .. N : h[i] \in Seq(X)
  <2> DEFINE G == {i \in 0 .. N : h[i] \in Seq(X)}
  <2>1. 0 \in G
    <3>1. <<>> \in Seq(X)
      OBVIOUS
    <3> QED BY <1>1, <1>5, <3>1
  <2>2. ASSUME NEW i \in 1 .. N, i - 1 \in G PROVE i \in G
    <3>1. h[i] = h[i - 1] \o ss[i] /\ i \in 0 .. N
      BY <1>4
    <3>2. h[i - 1] \in Seq(X) /\ ss[i] \in Seq(X)
      BY <1>1, <2>2
    <3>3. h[i - 1] \o ss[i] \in Seq(X)
      BY <3>2, Concatenation
    <3> QED BY <3>1, <3>3
  <2> HIDE DEF G
  <2>3. 0 .. N \subseteq G
    BY <1>1, <2>1, <2>2, OneByOne
  <2> QED BY <2>3 DEF G
<1>7. c \in [0 .. N -> Nat] /\ c[0] = 0 /\ \A i \in 0 .. N : c[i] = Len(h[i])
  BY <1>1, <1>5, <1>6
<1> HIDE DEF c
<1>8. \A i \in 0 .. N : Cuts(ss, i, h[i], c)
  <2> DEFINE G == {i \in 0 .. N : Cuts(ss, i, h[i], c)}
  <2>1. 0 \in G
    BY <1>1, <1>7 DEF Cuts
  <2>2. ASSUME NEW i \in 1 .. N, i - 1 \in G PROVE i \in G
    <3>1. h[i] = h[i - 1] \o ss[i] /\ i \in 0 .. N /\ h[i - 1] \in Seq(X)
      BY <1>4, <1>6
    <3>2. c[i] = Len(h[i - 1] \o ss[i]) /\ Cuts(ss, i - 1, h[i - 1], c)
      BY <1>7, <2>2, <3>1
    <3>3. Cuts(ss, i, h[i - 1] \o ss[i], c)
      BY <1>7, <3>1, <3>2, CutsStep
    <3> QED BY <3>1, <3>3
  <2> HIDE DEF G
  <2>3. 0 .. N \subseteq G
    BY <1>1, <2>1, <2>2, OneByOne
  <2> QED BY <2>3 DEF G
<1> QED BY <1>1, <1>2, <1>6, <1>7, <1>8

-----------------------------------------------------------------------------
(* Walking through the memory.                                             *)

\* The recursive function that Walk's FoldLeft evaluates at the set of turns.
Turned(block, n, f) ==
  f = [t \in SUBSET (1 .. n) |->
         IF t = {} THEN FirstPeer ELSE Turn(block, f[t \ {Max(t)}])]

\* It exists, whatever the number of turns.
LEMMA TurnedExists ==
  ASSUME NEW block
  PROVE  \A n \in Nat : \E f : Turned(block, n, f)
<1> DEFINE T == {n \in Nat : ~ \E f : Turned(block, n, f)}
<1> SUFFICES ASSUME T # {} PROVE FALSE
  OBVIOUS
<1>1. PICK n \in T : \A m \in T : n <= m
  BY LeastMember
<1>2. n # 0
  <2> SUFFICES \E f : Turned(block, 0, f)
    OBVIOUS
  <2>1. 1 .. 0 = {}
    OBVIOUS
  <2>2. Turned(block, 0, [t \in SUBSET {} |-> FirstPeer])
    BY <2>1 DEF Turned
  <2> QED BY <2>2
<1>3. n \in Nat /\ n - 1 \in Nat /\ n - 1 \notin T
  BY <1>1, <1>2
<1>4. PICK f : Turned(block, n - 1, f)
  BY <1>3
<1> DEFINE g == [t \in SUBSET (1 .. n) |->
                   IF n \in t THEN Turn(block, f[t \ {n}]) ELSE f[t]]
<1>5. ASSUME NEW t \in SUBSET (1 .. n)
      PROVE  g[t] = IF t = {} THEN FirstPeer ELSE Turn(block, g[t \ {Max(t)}])
  <2>1. CASE n \in t
    <3>1. Max(t) = n
      BY <1>3, <2>1, MaxIs
    <3>2. t \ {n} \in SUBSET (1 .. n) /\ n \notin t \ {n}
      BY <1>3
    <3>3. g[t \ {n}] = f[t \ {n}]
      BY <3>2
    <3> QED BY <2>1, <3>1, <3>3
  <2>2. CASE n \notin t
    <3>1. t \in SUBSET (1 .. (n - 1))
      BY <1>3, <2>2
    <3>2. f[t] = IF t = {} THEN FirstPeer ELSE Turn(block, f[t \ {Max(t)}])
      BY <1>4, <3>1 DEF Turned
    <3>3. g[t] = f[t] /\ g[t \ {Max(t)}] = f[t \ {Max(t)}]
      BY <2>2
    <3> QED BY <3>2, <3>3
  <2> QED BY <2>1, <2>2
<1>6. Turned(block, n, g)
  BY <1>5 DEF Turned
<1> QED BY <1>1, <1>6

\* r[i] is what has been read after i turns.
WalkTurns(block, n, r) ==
  /\ r[0] = FirstPeer
  /\ \A i \in 1 .. n : r[i] = Turn(block, r[i - 1])
  /\ Walk(block) = [fields |-> At(block, 1).val, peers |-> r[n].peers]

LEMMA TurnByTurn ==
  ASSUME NEW block, NEW N \in Nat, At(block, 1).count = N
  PROVE  \E r : WalkTurns(block, N, r)
<1> DEFINE h == CHOOSE f : Turned(block, N, f)
<1>1. Turned(block, N, h)
  BY TurnedExists
<1>2. Walk(block) = [fields |-> At(block, 1).val, peers |-> h[1 .. N].peers]
  BY DEF Walk, FoldLeft, MapThenFoldSet, Turned
<1> HIDE DEF h
<1> DEFINE r == [i \in 0 .. N |-> h[1 .. i]]
<1>3. r[0] = FirstPeer
  BY <1>1 DEF Turned
<1>4. ASSUME NEW i \in 1 .. N PROVE r[i] = Turn(block, r[i - 1])
  <2>1. Max(1 .. i) = i
    <3>1. 1 .. i \in SUBSET Int /\ i \in 1 .. i /\ \A y \in 1 .. i : i >= y
      OBVIOUS
    <3> QED BY <3>1, MaxIs
  <2>2. /\ (1 .. i) \ {i} = 1 .. (i - 1)
        /\ 1 .. i \in SUBSET (1 .. N)
        /\ 1 .. i # {}
    <3>1. i \in Nat /\ 1 <= i /\ i <= N
      OBVIOUS
    <3>2. \A j : j \in (1 .. i) \ {i} <=> j \in 1 .. (i - 1)
      BY <3>1
    <3>3. (1 .. i) \ {i} = 1 .. (i - 1)
      BY <3>2
    <3>4. \A j \in 1 .. i : j \in 1 .. N
      BY <3>1
    <3>5. i \in 1 .. i
      BY <3>1
    <3> QED BY <3>3, <3>4, <3>5
  <2>3. h[1 .. i] = Turn(block, h[1 .. (i - 1)])
    BY <1>1, <2>1, <2>2 DEF Turned
  <2>4. r[i] = h[1 .. i] /\ r[i - 1] = h[1 .. (i - 1)]
    OBVIOUS
  <2> QED BY <2>3, <2>4
<1>5. r[N] = h[1 .. N]
  OBVIOUS
<1> HIDE DEF r
<1>6. WalkTurns(block, N, r)
  BY <1>2, <1>3, <1>4, <1>5 DEF WalkTurns
<1> QED BY <1>6

\* A peer's structures, and those of all peers in the order of Pack.
IPsOf(d, k) == SetToSeq(d.peers[k].ips)
PeersOf(d) == SetToSeq(DOMAIN d.peers)
BlockOf(d, k) == PackPeer(k, d.peers[k].opts, IPsOf(d, k))
Blocks(d) == [i \in DOMAIN PeersOf(d) |-> BlockOf(d, PeersOf(d)[i])]

\* A device has finitely many peers with finitely many allowed IPs.
LEMMA PeersAre ==
  ASSUME NEW d \in DeviceState
  PROVE  /\ DOMAIN d.peers \subseteq Keys /\ IsFiniteSet(DOMAIN d.peers)
         /\ \A k \in DOMAIN d.peers :
              /\ d.peers[k].opts \in Opts \union {Nil}
              /\ d.peers[k].ips \subseteq IPs /\ IsFiniteSet(d.peers[k].ips)
         /\ d.dev \in Values \union {Nil}
<1>1. PICK ks \in SUBSET Keys : d.peers \in [ks -> PeerState]
  BY DEF DeviceState, PeerStates
<1>2. DOMAIN d.peers = ks /\ \A k \in ks : d.peers[k] \in PeerState
  BY <1>1
<1>3. IsFiniteSet(ks)
  BY FiniteAssumption, FS_Subset
<1>4. \A s \in SUBSET IPs : IsFiniteSet(s)
  BY FiniteAssumption, FS_Subset
<1>5. \A k \in ks : d.peers[k].opts \in Opts \union {Nil} /\ d.peers[k].ips \in SUBSET IPs
  BY <1>2 DEF PeerState
<1>6. d.dev \in Values \union {Nil}
  BY DEF DeviceState
<1> QED BY <1>2, <1>3, <1>4, <1>5, <1>6

\* What may stand in the memory.
Vals == Values \union {Nil} \union [key : Keys, fields : Opts \union {Nil}] \union IPs
Words == [type : {"zero", "interface", "peer", "ip"}, val : Vals, count : Nat]

LEMMA BlockIs ==
  ASSUME NEW d \in DeviceState, NEW k \in DOMAIN d.peers
  PROVE  /\ IPsOf(d, k) \in Seq(IPs)
         /\ BlockOf(d, k) \in Seq(Words)
         /\ Len(BlockOf(d, k)) = 1 + Len(IPsOf(d, k))
         /\ BlockOf(d, k)[1] = Word("peer", [key |-> k, fields |-> d.peers[k].opts],
                                    Len(IPsOf(d, k)))
         /\ \A j \in 1 .. Len(IPsOf(d, k)) :
              BlockOf(d, k)[1 + j] = Word("ip", IPsOf(d, k)[j], 0)
<1> DEFINE s == IPsOf(d, k)
           w == Word("peer", [key |-> k, fields |-> d.peers[k].opts], Len(s))
           t == [i \in DOMAIN s |-> Word("ip", s[i], 0)]
<1>1. /\ k \in Keys /\ d.peers[k].opts \in Opts \union {Nil}
      /\ d.peers[k].ips \subseteq IPs /\ IsFiniteSet(d.peers[k].ips)
  BY PeersAre
<1>2. s \in Seq(IPs)
  <2>1. s \in Seq(d.peers[k].ips)
    BY <1>1, SetToSeqIs, SetToSeqsAre DEF IPsOf
  <2> QED BY <1>1, <2>1
<1>3. BlockOf(d, k) = <<w>> \o t
  BY DEF BlockOf, PackPeer
<1>4. Len(s) \in Nat /\ DOMAIN s = 1 .. Len(s) /\ \A i \in 1 .. Len(s) : s[i] \in IPs
  BY <1>2
<1> HIDE DEF s
<1>5. w \in Words
  BY <1>1, <1>4 DEF Words, Word, Vals
<1>6. \A i \in 1 .. Len(s) : Word("ip", s[i], 0) \in Words
  BY <1>4 DEF Words, Word, Vals
<1> HIDE DEF w
<1>7. t \in Seq(Words) /\ Len(t) = Len(s) /\ \A i \in 1 .. Len(s) : t[i] = Word("ip", s[i], 0)
  BY <1>4, <1>6
<1> HIDE DEF t
<1>8. <<w>> \in Seq(Words) /\ Len(<<w>>) = 1 /\ <<w>>[1] = w
  BY <1>5
<1>9. /\ <<w>> \o t \in Seq(Words) /\ Len(<<w>> \o t) = 1 + Len(t)
      /\ (<<w>> \o t)[1] = w
      /\ \A j \in 1 .. Len(t) : (<<w>> \o t)[1 + j] = t[j]
  <2>1. 1 \in 1 .. Len(<<w>>)
    BY <1>8
  <2> QED BY <1>7, <1>8, <2>1, Concatenation
<1> QED BY <1>2, <1>3, <1>7, <1>9 DEF s, w

LEMMA BlocksAre ==
  ASSUME NEW d \in DeviceState
  PROVE  /\ PeersOf(d) \in Seq(DOMAIN d.peers)
         /\ Len(PeersOf(d)) = Cardinality(DOMAIN d.peers)
         /\ \A k \in DOMAIN d.peers : \E i \in 1 .. Len(PeersOf(d)) : PeersOf(d)[i] = k
         /\ Blocks(d) \in Seq(Seq(Words)) /\ Len(Blocks(d)) = Len(PeersOf(d))
         /\ \A i \in 1 .. Len(PeersOf(d)) :
              PeersOf(d)[i] \in DOMAIN d.peers /\ Blocks(d)[i] = BlockOf(d, PeersOf(d)[i])
<1> DEFINE ks == PeersOf(d)
<1>1. /\ ks \in Seq(DOMAIN d.peers) /\ Len(ks) = Cardinality(DOMAIN d.peers)
      /\ \A k \in DOMAIN d.peers : \E i \in DOMAIN ks : ks[i] = k
  BY PeersAre, SetToSeqIs, SetToSeqsAre DEF PeersOf
<1> HIDE DEF ks
<1>2. Len(ks) \in Nat /\ DOMAIN ks = 1 .. Len(ks) /\ \A i \in 1 .. Len(ks) : ks[i] \in DOMAIN d.peers
  BY <1>1
<1>3. \A i \in 1 .. Len(ks) : BlockOf(d, ks[i]) \in Seq(Words)
  BY <1>2, BlockIs
<1>4. Blocks(d) = [i \in 1 .. Len(ks) |-> BlockOf(d, ks[i])]
  BY <1>2 DEF Blocks, ks
<1>5. Blocks(d) \in Seq(Seq(Words)) /\ Len(Blocks(d)) = Len(ks)
  <2> DEFINE S == Seq(Words)
  <2>1. \A i \in 1 .. Len(ks) : BlockOf(d, ks[i]) \in S
    BY <1>3
  <2> HIDE DEF S
  <2>2. Blocks(d) \in Seq(S) /\ Len(Blocks(d)) = Len(ks)
    BY <1>2, <1>4, <2>1
  <2> QED BY <2>2 DEF S
<1> QED BY <1>1, <1>2, <1>4, <1>5 DEF ks

\* What one turn reads of a peer, and i turns of a device.
PeerRead(d, k) ==
  [val |-> [key |-> k, fields |-> d.peers[k].opts], ips |-> IPsOf(d, k)]
ReadSoFar(d, i) == [j \in 1 .. i |-> PeerRead(d, PeersOf(d)[j])]

\* The place of a peer in the memory: behind the interface and the peers before it.
LEMMA PackIs ==
  ASSUME NEW d \in DeviceState
  PROVE  /\ Pack(d) \in Seq(Words)
         /\ Pack(d) = <<Word("interface", d.dev, Len(PeersOf(d)))>> \o FlattenSeq(Blocks(d))
         /\ FlattenSeq(Blocks(d)) \in Seq(Words)
<1> DEFINE w == Word("interface", d.dev, Len(PeersOf(d)))
<1>1. FlattenSeq(Blocks(d)) \in Seq(Words)
  BY BlocksAre, Flattened
<1>2. Pack(d) = <<w>> \o FlattenSeq(Blocks(d))
  BY DEF Pack, Blocks, BlockOf, PeersOf, IPsOf
<1>3. w \in Words
  <2>1. Len(PeersOf(d)) \in Nat /\ d.dev \in Values \union {Nil}
    BY BlocksAre, PeersAre
  <2> QED BY <2>1 DEF Words, Word, Vals
<1> HIDE DEF w
<1>4. <<w>> \in Seq(Words)
  BY <1>3
<1>5. Pack(d) \in Seq(Words)
  BY <1>1, <1>2, <1>4, Concatenation
<1> QED BY <1>1, <1>2, <1>5 DEF w

\* The words of the memory: the interface's, and those of FlattenSeq behind it.
LEMMA InMemory ==
  ASSUME NEW w \in Words, NEW s \in Seq(Words), NEW rest \in Seq(Words)
  PROVE  /\ At((<<w>> \o s) \o rest, 1) = w
         /\ \A p \in 1 .. Len(s) : At((<<w>> \o s) \o rest, 1 + p) = s[p]
<1>1. <<w>> \in Seq(Words) /\ Len(<<w>>) = 1 /\ <<w>>[1] = w /\ 1 \in 1 .. Len(<<w>>)
  OBVIOUS
<1> DEFINE t == <<w>> \o s
           u == t \o rest
<1>2. /\ t \in Seq(Words) /\ Len(t) = 1 + Len(s) /\ t[1] = w
      /\ \A p \in 1 .. Len(s) : t[1 + p] = s[p]
  BY <1>1, Concatenation
<1> HIDE DEF t
<1>3. u \in Seq(Words) /\ Len(u) = Len(t) + Len(rest) /\ \A i \in 1 .. Len(t) : u[i] = t[i]
  <2>1. t \in Seq(Words)
    BY <1>2
  <2> QED BY <2>1, Concatenation
<1> HIDE DEF u
<1>4. Len(s) \in Nat /\ Len(rest) \in Nat /\ DOMAIN u = 1 .. Len(u)
  BY <1>3
<1>5. 1 \in 1 .. Len(t) /\ 1 \in 1 .. Len(u)
  BY <1>2, <1>3, <1>4
<1>6. ASSUME NEW p \in 1 .. Len(s) PROVE 1 + p \in 1 .. Len(t) /\ 1 + p \in 1 .. Len(u)
  BY <1>2, <1>3, <1>4
<1>7. At(u, 1) = w /\ \A p \in 1 .. Len(s) : At(u, 1 + p) = s[p]
  BY <1>2, <1>3, <1>4, <1>5, <1>6 DEF At
<1> QED BY <1>7 DEF u, t

\* A turn at a peer's place reads the peer and goes to the place of the next.
LEMMA TurnReads ==
  ASSUME NEW d \in DeviceState, NEW block, NEW i \in 1 .. Len(PeersOf(d)), NEW at \in Nat,
         \A j \in 1 .. Len(BlockOf(d, PeersOf(d)[i])) :
           At(block, at + j) = BlockOf(d, PeersOf(d)[i])[j]
  PROVE  Turn(block, [at |-> at + 1, peers |-> ReadSoFar(d, i - 1)])
           = [at |-> at + Len(BlockOf(d, PeersOf(d)[i])) + 1, peers |-> ReadSoFar(d, i)]
<1> DEFINE k == PeersOf(d)[i]
           s == IPsOf(d, k)
           b == BlockOf(d, k)
<1>1. k \in DOMAIN d.peers
  BY BlocksAre
<1> HIDE DEF k
<1>2. /\ s \in Seq(IPs) /\ Len(b) = 1 + Len(s)
      /\ b[1] = Word("peer", [key |-> k, fields |-> d.peers[k].opts], Len(s))
      /\ \A j \in 1 .. Len(s) : b[1 + j] = Word("ip", s[j], 0)
  BY <1>1, BlockIs
<1>3. \A j \in 1 .. Len(b) : At(block, at + j) = b[j]
  BY DEF k
<1> HIDE DEF s, b
<1>4. Len(s) \in Nat /\ 1 \in 1 .. Len(b) /\ \A j \in 1 .. Len(s) : 1 + j \in 1 .. Len(b)
  BY <1>2
<1>5. At(block, at + 1) = Word("peer", [key |-> k, fields |-> d.peers[k].opts], Len(s))
  BY <1>2, <1>3, <1>4
<1>6. \A j \in 1 .. Len(s) : At(block, (at + 1) + j).val = s[j]
  <2> SUFFICES ASSUME NEW j \in 1 .. Len(s) PROVE At(block, (at + 1) + j).val = s[j]
    OBVIOUS
  <2>1. (at + 1) + j = at + (1 + j)
    OBVIOUS
  <2>2. At(block, at + (1 + j)) = Word("ip", s[j], 0)
    BY <1>2, <1>3, <1>4
  <2> QED BY <2>1, <2>2 DEF Word
<1>7. /\ At(block, at + 1).count = Len(s)
      /\ At(block, at + 1).val = [key |-> k, fields |-> d.peers[k].opts]
  BY <1>5 DEF Word
<1>8. AllowedIPs(block, at + 1) = s
  <2>1. AllowedIPs(block, at + 1) = [j \in 1 .. Len(s) |-> s[j]]
    BY <1>6, <1>7 DEF AllowedIPs
  <2>2. s = [j \in 1 .. Len(s) |-> s[j]]
    BY <1>2
  <2> QED BY <2>1, <2>2
<1>9. NextPeer(block, at + 1) = at + Len(b) + 1
  BY <1>2, <1>4, <1>7 DEF NextPeer
<1>10. Append(ReadSoFar(d, i - 1), PeerRead(d, k)) = ReadSoFar(d, i)
  <2> DEFINE q == ReadSoFar(d, i - 1)
             x == PeerRead(d, k)
  <2>1. i \in Nat /\ i - 1 \in Nat /\ i = (i - 1) + 1
    BY BlocksAre
  <2>2. q = [j \in 1 .. (i - 1) |-> q[j]]
    BY DEF ReadSoFar
  <2>3. x = PeerRead(d, PeersOf(d)[i])
    BY DEF k
  <2>4. \A j \in 1 .. (i - 1) : q[j] = PeerRead(d, PeersOf(d)[j])
    BY DEF ReadSoFar
  <2> HIDE DEF q, x
  <2>5. Append(q, x) = [j \in 1 .. i |-> IF j = i THEN x ELSE q[j]]
    <3> DEFINE T == {q[j] : j \in 1 .. (i - 1)} \union {x}
    <3>1. q \in [1 .. (i - 1) -> T] /\ x \in T
      BY <2>2
    <3> HIDE DEF T
    <3>2. q \in Seq(T) /\ Len(q) = i - 1
      BY <2>1, <3>1
    <3> DEFINE A == Append(q, x)
    <3>3. A \in Seq(T) /\ Len(A) = i
      BY <2>1, <3>1, <3>2
    <3>4. A[i] = x /\ \A j \in 1 .. (i - 1) : A[j] = q[j]
      BY <2>1, <3>1, <3>2
    <3> HIDE DEF A
    <3>5. \A j \in 1 .. i : A[j] = IF j = i THEN x ELSE q[j]
      BY <2>1, <3>4
    <3>6. A = [j \in 1 .. i |-> A[j]]
      BY <3>3
    <3>7. A = [j \in 1 .. i |-> IF j = i THEN x ELSE q[j]]
      BY <3>5, <3>6
    <3> QED BY <3>7 DEF A
  <2>6. \A j \in 1 .. i : j # i => j \in 1 .. (i - 1)
    BY <2>1
  <2>7. Append(q, x) = ReadSoFar(d, i)
    BY <2>3, <2>4, <2>5, <2>6 DEF ReadSoFar
  <2> QED BY <2>7 DEF q, x
<1> QED
  <2>1. PeerRead(d, k) = [val |-> At(block, at + 1).val, ips |-> AllowedIPs(block, at + 1)]
    BY <1>7, <1>8 DEF PeerRead, s
  <2> QED BY <1>9, <1>10, <2>1 DEF Turn, k, b

\* The walk through a device's memory reads the device, whatever is behind it.
LEMMA WalkReads ==
  ASSUME NEW d \in DeviceState, NEW rest \in Seq(Words)
  PROVE  Walk(Pack(d) \o rest) = [fields |-> d.dev, peers |-> ReadSoFar(d, Len(PeersOf(d)))]
<1> DEFINE K == Len(PeersOf(d))
           F == FlattenSeq(Blocks(d))
           block == Pack(d) \o rest
           w == Word("interface", d.dev, K)
<1>1. K \in Nat /\ Blocks(d) \in Seq(Seq(Words)) /\ Len(Blocks(d)) = K
  BY BlocksAre
<1>2. PICK c \in [0 .. K -> Nat] : c[0] = 0 /\ Cuts(Blocks(d), K, F, c)
  BY <1>1, Flattened
<1>3. F \in Seq(Words) /\ block = (<<w>> \o F) \o rest
  BY PackIs
<1>4. w \in Words
  <2>1. d.dev \in Values \union {Nil}
    BY PeersAre
  <2> QED BY <1>1, <2>1 DEF Words, Word, Vals
<1> HIDE DEF w
<1>5. At(block, 1) = w /\ \A p \in 1 .. Len(F) : At(block, 1 + p) = F[p]
  BY <1>3, <1>4, InMemory
<1> HIDE DEF F, block
<1>6. At(block, 1).count = K /\ At(block, 1).val = d.dev
  BY <1>5 DEF w, Word
<1> HIDE DEF K
<1>7. PICK r : WalkTurns(block, K, r)
  BY <1>1, <1>6, TurnByTurn
<1>8. ASSUME NEW i \in 1 .. K
      PROVE  /\ i - 1 \in 0 .. K /\ i \in 0 .. K
             /\ c[i] = c[i - 1] + Len(BlockOf(d, PeersOf(d)[i]))
             /\ \A j \in 1 .. Len(BlockOf(d, PeersOf(d)[i])) :
                  At(block, (c[i - 1] + 1) + j) = BlockOf(d, PeersOf(d)[i])[j]
  <2> DEFINE b == BlockOf(d, PeersOf(d)[i])
  <2>1. Blocks(d)[i] = b /\ Len(b) \in Nat
    <3>1. PeersOf(d)[i] \in DOMAIN d.peers /\ Blocks(d)[i] = b
      BY BlocksAre DEF K
    <3>2. b \in Seq(Words)
      BY <3>1, BlockIs
    <3> QED BY <3>1, <3>2
  <2> HIDE DEF b
  <2>2. i - 1 \in 0 .. K /\ i \in 0 .. K
    BY <1>1
  <2>3. c[i] \in Nat /\ c[i - 1] \in Nat
    BY <1>2, <2>2
  <2>4. /\ c[K] = Len(F) /\ c[i] = c[i - 1] + Len(b) /\ c[i] <= c[K]
        /\ \A j \in 1 .. Len(b) : F[c[i - 1] + j] = b[j]
    BY <1>2, <2>1 DEF Cuts
  <2>5. ASSUME NEW j \in 1 .. Len(b)
        PROVE  At(block, (c[i - 1] + 1) + j) = b[j]
    <3>1. Len(F) \in Nat
      BY <1>3
    <3>2. c[i] = c[i - 1] + Len(b) /\ c[i] <= Len(F)
      BY <2>4
    <3>3. j \in Nat /\ 1 <= j /\ j <= Len(b)
      BY <2>1
    <3>4. c[i - 1] + j \in 1 .. Len(F)
      BY <2>1, <2>3, <3>1, <3>2, <3>3
    <3>5. (c[i - 1] + 1) + j = 1 + (c[i - 1] + j)
      BY <2>3, <3>3
    <3> QED BY <1>5, <2>4, <3>4, <3>5
  <2> QED BY <2>2, <2>4, <2>5 DEF b
<1> DEFINE G == {i \in 0 .. K : r[i] = [at |-> (c[i] + 1) + 1, peers |-> ReadSoFar(d, i)]}
<1>9. 0 \in G
  <2>1. ReadSoFar(d, 0) = <<>>
    BY DEF ReadSoFar
  <2>2. (c[0] + 1) + 1 = 2 /\ 0 \in 0 .. K
    BY <1>1, <1>2
  <2>3. r[0] = [at |-> 2, peers |-> <<>>]
    BY <1>7 DEF WalkTurns, FirstPeer
  <2> QED BY <2>1, <2>2, <2>3
<1>10. ASSUME NEW i \in 1 .. K, i - 1 \in G PROVE i \in G
  <2> DEFINE b == BlockOf(d, PeersOf(d)[i])
             at == c[i - 1] + 1
  <2>1. r[i - 1] = [at |-> at + 1, peers |-> ReadSoFar(d, i - 1)]
    BY <1>10
  <2>2. at \in Nat
    BY <1>2, <1>8
  <2>3. \A j \in 1 .. Len(b) : At(block, at + j) = b[j]
    BY <1>8
  <2>4. i \in 1 .. Len(PeersOf(d))
    BY DEF K
  <2> HIDE DEF at
  <2>5. Turn(block, r[i - 1]) = [at |-> at + Len(b) + 1, peers |-> ReadSoFar(d, i)]
    BY <2>1, <2>2, <2>3, <2>4, TurnReads
  <2>6. at + Len(b) + 1 = (c[i] + 1) + 1
    <3>1. Len(b) \in Nat
      <4>1. b \in Seq(Words)
        BY <2>4, BlocksAre, BlockIs
      <4> QED BY <4>1
    <3>2. c[i] = c[i - 1] + Len(b) /\ c[i - 1] \in Nat /\ c[i] \in Nat
      BY <1>2, <1>8
    <3> QED BY <3>1, <3>2 DEF at
  <2>7. r[i] = Turn(block, r[i - 1])
    BY <1>7 DEF WalkTurns
  <2> QED BY <1>8, <2>5, <2>6, <2>7
<1> HIDE DEF G
<1>11. 0 .. K \subseteq G
  BY <1>1, <1>9, <1>10, OneByOne
<1>12. r[K].peers = ReadSoFar(d, K)
  <2>1. K \in G
    BY <1>1, <1>11
  <2>2. r[K] = [at |-> (c[K] + 1) + 1, peers |-> ReadSoFar(d, K)]
    BY <2>1 DEF G
  <2> QED BY <2>2
<1>13. Walk(block) = [fields |-> d.dev, peers |-> r[K].peers]
  BY <1>6, <1>7 DEF WalkTurns
<1> QED BY <1>12, <1>13 DEF block, K

\* What is read is the device.
LEMMA WalkTells ==
  ASSUME NEW d \in DeviceState, NEW rest \in Seq(Words)
  PROVE  Tells(Walk(Pack(d) \o rest), d)
<1> DEFINE K == Len(PeersOf(d))
           walk == [fields |-> d.dev, peers |-> ReadSoFar(d, K)]
<1>1. Walk(Pack(d) \o rest) = walk
  BY WalkReads
<1>2. /\ K \in Nat /\ K = Cardinality(DOMAIN d.peers)
      /\ \A k \in DOMAIN d.peers : \E i \in 1 .. K : PeersOf(d)[i] = k
  BY BlocksAre
<1>3. Len(walk.peers) = K /\ DOMAIN walk.peers = 1 .. K
  BY <1>2 DEF ReadSoFar
<1>4. ASSUME NEW k \in DOMAIN d.peers
      PROVE  \E i \in DOMAIN walk.peers :
               /\ walk.peers[i].val = [key |-> k, fields |-> d.peers[k].opts]
               /\ ToSet(walk.peers[i].ips) = d.peers[k].ips
               /\ Len(walk.peers[i].ips) = Cardinality(d.peers[k].ips)
  <2>1. PICK i \in 1 .. K : PeersOf(d)[i] = k
    BY <1>2
  <2>2. walk.peers[i] = PeerRead(d, k)
    BY <2>1 DEF ReadSoFar
  <2>3. IsFiniteSet(d.peers[k].ips)
    BY PeersAre
  <2> DEFINE S == d.peers[k].ips
             s == IPsOf(d, k)
  <2>4. /\ s \in Seq(S) /\ Len(s) = Cardinality(S)
        /\ \A x \in S : \E j \in DOMAIN s : s[j] = x
    BY <2>3, SetToSeqIs, SetToSeqsAre DEF IPsOf
  <2> HIDE DEF S, s
  <2>5. ToSet(s) = S
    BY <2>4 DEF ToSet
  <2> USE DEF S, s
  <2> QED BY <1>3, <2>2, <2>4, <2>5 DEF PeerRead
<1> QED BY <1>1, <1>2, <1>3, <1>4 DEF Tells

-----------------------------------------------------------------------------
(* What is set.                                                            *)

\* A configured device is a device.
LEMMA ConfiguredTyped ==
  ASSUME NEW d \in DeviceState, NEW x \in Config
  PROVE  Configured(d, x) \in DeviceState
<1> DEFINE base      == IF x.ReplacePeers THEN {} ELSE DOMAIN d.peers
           Old(k)    == IF k \in base THEN d.peers[k] ELSE NewPeer
           entries   == DOMAIN x.Peers
           effective == {i \in entries : /\ ~ x.Peers[i].Remove
                                         /\ x.Peers[i].UpdateOnly => x.Peers[i].PublicKey \in base}
           Of(k)     == {i \in effective : x.Peers[i].PublicKey = k}
           removed   == {x.Peers[i].PublicKey : i \in {j \in entries : x.Peers[j].Remove}}
           Claims(a) == {i \in effective : a \in ToSet(x.Peers[i].AllowedIPs)}
           opts(k)   == IF \E i \in Of(k) : x.Peers[i].opts # Nil
                        THEN (CHOOSE p \in {x.Peers[i] : i \in Of(k)} : TRUE).opts
                        ELSE Old(k).opts
           adv(k)    == IF \E i \in Of(k) : x.Peers[i].AdvancedSecurity
                                            \/ x.Peers[i].DisableAdvancedSecurity
                        THEN \E i \in Of(k) : x.Peers[i].AdvancedSecurity
                        ELSE Old(k).adv
           ips(k)    == {a \in IPs :
                           IF Claims(a) # {} THEN x.Peers[Max(Claims(a))].PublicKey = k
                           ELSE /\ a \in Old(k).ips
                                /\ ~ \E i \in Of(k) : x.Peers[i].ReplaceAllowedIPs}
           keys      == (base \ removed) \union {x.Peers[i].PublicKey : i \in effective}
           peers     == [k \in keys |-> [opts |-> opts(k), adv |-> adv(k), ips |-> ips(k)]]
<1>1. Configured(d, x) = [dev   |-> IF x.dev = Nil THEN d.dev ELSE x.dev,
                          awg   |-> IF x.awg = Nil THEN d.awg ELSE x.awg,
                          peers |-> peers]
  BY DEF Configured
<1>2. /\ DOMAIN d.peers \subseteq Keys /\ \A k \in DOMAIN d.peers : d.peers[k] \in PeerState
      /\ d.dev \in Values \union {Nil} /\ d.awg \in Values \union {Nil}
  BY DEF DeviceState, PeerStates
<1>3. /\ x.dev \in Values \union {Nil} /\ x.awg \in Values \union {Nil}
      /\ \A i \in entries : x.Peers[i] \in PeerConfig
  BY DEF Config
<1>4. \A i \in entries : x.Peers[i].PublicKey \in Keys /\ x.Peers[i].opts \in Opts \union {Nil}
                         /\ x.Peers[i].AdvancedSecurity \in BOOLEAN
  BY <1>3 DEF PeerConfig
<1>5. keys \subseteq Keys
  BY <1>2, <1>4
<1>6. \A k : Old(k) \in PeerState
  BY <1>2 DEF NewPeer, PeerState
<1> HIDE DEF base, Old
<1>7. ASSUME NEW k PROVE opts(k) \in Opts \union {Nil}
  <2>1. CASE \E i \in Of(k) : x.Peers[i].opts # Nil
    <3> DEFINE p == CHOOSE q \in {x.Peers[i] : i \in Of(k)} : TRUE
    <3>1. p \in {x.Peers[i] : i \in Of(k)}
      BY <2>1
    <3> HIDE DEF p
    <3>2. p.opts \in Opts \union {Nil}
      BY <1>4, <3>1
    <3> QED BY <2>1, <3>2 DEF p
  <2>2. CASE ~ \E i \in Of(k) : x.Peers[i].opts # Nil
    BY <1>6, <2>2 DEF PeerState
  <2> QED BY <2>1, <2>2
<1>8. ASSUME NEW k PROVE adv(k) \in BOOLEAN
  BY <1>6 DEF PeerState
<1>9. ASSUME NEW k PROVE ips(k) \in SUBSET IPs
  OBVIOUS
<1> HIDE DEF opts, adv, ips, keys
<1>10. \A k : [opts |-> opts(k), adv |-> adv(k), ips |-> ips(k)] \in PeerState
  BY <1>7, <1>8, <1>9 DEF PeerState
<1>11. peers \in [keys -> PeerState]
  BY <1>10
<1> HIDE DEF peers
<1>12. peers \in PeerStates
  BY <1>5, <1>11 DEF PeerStates
<1> QED BY <1>1, <1>2, <1>3, <1>12 DEF DeviceState

\* The list that FreeBSD's kernel gets is a configuration, also when cut.
LEMMA UnparseTyped ==
  ASSUME NEW x \in Config, NEW n \in 0 .. Len(x.Peers)
  PROVE  /\ Unparse(x) \in Config
         /\ [Unparse(x) EXCEPT !.Peers = SubSeq(@, 1, n)] \in Config
<1> DEFINE P(p) == [p EXCEPT !.UpdateOnly = FALSE,
                             !.AdvancedSecurity = FALSE, !.DisableAdvancedSecurity = FALSE]
           ps == [i \in DOMAIN x.Peers |-> P(x.Peers[i])]
<1>1. x.Peers \in Seq(PeerConfig)
  BY DEF Config
<1>2. \A p \in PeerConfig : P(p) \in PeerConfig
  BY DEF PeerConfig
<1> DEFINE S == PeerConfig
<1> HIDE DEF P, S
<1>3. ps \in Seq(S) /\ Len(ps) = Len(x.Peers)
  BY <1>1, <1>2 DEF S
<1> HIDE DEF ps
<1>4. SubSeq(ps, 1, n) \in Seq(S)
  <2>1. n \in Nat /\ n <= Len(ps) /\ Len(ps) \in Nat
    BY <1>1, <1>3
  <2> QED BY <1>3, <2>1
<1>5. Unparse(x) = [x EXCEPT !.awg = Nil, !.Peers = ps]
  BY DEF Unparse, ps, P
<1>6. Unparse(x) \in Config /\ Unparse(x).Peers = ps
  BY <1>3, <1>5 DEF Config, S
<1>7. [Unparse(x) EXCEPT !.Peers = SubSeq(ps, 1, n)] \in Config
  BY <1>4, <1>6 DEF Config, S
<1> QED BY <1>6, <1>7

-----------------------------------------------------------------------------
(* The inductive invariant.                                                *)

\* What Walk returns of the memory that the kernel has written.
Told(d) == [fields |-> d.dev, peers |-> ReadSoFar(d, Len(PeersOf(d)))]
Reads == {Told(d) : d \in DeviceState}

\* The memory, and what has been read.
Memory == mem \in Seq(Words) /\ ds \in Seq(Names \X Reads)

\* What a call is doing: a list is fetched for Devices, and only FreeBSD
\* looks for peers and sets.
Phases ==
  /\ pc \in {"fetch", "next"} => op = "devices"
  /\ pc \in {"checks", "set"} => op = "configure" /\ platform = "freebsd"
  /\ (pc = "ioctl" /\ op = "configure" /\ platform = "freebsd") => checks # 0
  /\ pc = "set" => checks = 0
  /\ pc \in {"start", "fetch"} => ds = <<>>
  /\ (op = "device" /\ pc # "done") => ds = <<>>
  /\ op = "configure" => ds = <<>>

\* A device is among what its name has been, and what has been there all the
\* while is there.
Remembered ==
  /\ \A n \in Names : IsDevice(n) => wg[n] \in was[n]
  /\ \A n \in stayed : IsDevice(n)

\* Every update-only peer that was checked off found no device.
Counted ==
  (op = "configure" /\ platform = "freebsd" /\ pc \in {"checks", "ioctl", "set"}) =>
    checks = Cardinality(UpdateOnlyPeers(cfg)) \/ name \notin stayed

\* A device that has been there all the while is still to come, or has been read.
Covered ==
  (op = "devices" /\ pc \in {"next", "ioctl"}) =>
    \A n \in stayed :
      (\E i \in DOMAIN ifgrs : ifgrs[i] = n) \/ (\E i \in DOMAIN ds : ds[i][1] = n)

Inv ==
  /\ TypeOK /\ Memory /\ Phases /\ Remembered /\ Counted /\ Covered
  /\ ReadsWhole /\ SetAsAsked

-----------------------------------------------------------------------------
(* Types.                                                                  *)

\* The head of a sequence and its tail are all that is in it.
LEMMA HeadOrTail ==
  ASSUME NEW S, NEW s \in Seq(S), s # <<>>
  PROVE  /\ Head(s) \in S /\ Tail(s) \in Seq(S) /\ 1 \in DOMAIN s /\ Head(s) = s[1]
         /\ \A i \in DOMAIN s : s[i] = Head(s) \/ \E j \in DOMAIN Tail(s) : Tail(s)[j] = s[i]
<1>1. /\ Head(s) = s[1] /\ Head(s) \in S /\ Tail(s) \in Seq(S)
      /\ Len(Tail(s)) = Len(s) - 1 /\ Len(s) \in Nat /\ DOMAIN s = 1 .. Len(s)
      /\ DOMAIN Tail(s) = 1 .. Len(Tail(s))
      /\ \A j \in 1 .. (Len(s) - 1) : Tail(s)[j] = s[j + 1]
      /\ Len(s) # 0
  OBVIOUS
<1>2. ASSUME NEW i \in DOMAIN s, i # 1
      PROVE  (i - 1) \in DOMAIN Tail(s) /\ Tail(s)[i - 1] = s[i]
  BY <1>1, <1>2
<1>3. 1 \in DOMAIN s
  BY <1>1
<1>4. ASSUME NEW i \in DOMAIN s
      PROVE  s[i] = Head(s) \/ \E j \in DOMAIN Tail(s) : Tail(s)[j] = s[i]
  <2>1. CASE i = 1
    BY <1>1, <2>1
  <2>2. CASE i # 1
    BY <1>2, <2>2
  <2> QED BY <2>1, <2>2
<1> QED BY <1>1, <1>3, <1>4

\* A device's memory.
LEMMA FittingMemory ==
  ASSUME NEW d \in DeviceState, NEW m \in Seq(Words)
  PROVE  /\ Len(Pack(d)) \in Nat
         /\ SubSeq(m, Len(Pack(d)) + 1, Len(m)) \in Seq(Words)
         /\ Pack(d) \o SubSeq(m, Len(Pack(d)) + 1, Len(m)) \in Seq(Words)
         /\ Walk(Pack(d) \o SubSeq(m, Len(Pack(d)) + 1, Len(m))) = Told(d)
         /\ Tells(Told(d), d)
         /\ Zeros(Len(Pack(d))) \in Seq(Words)
<1> DEFINE n == Len(Pack(d))
           rest == SubSeq(m, n + 1, Len(m))
<1>1. Pack(d) \in Seq(Words) /\ n \in Nat
  <2>1. Pack(d) \in Seq(Words)
    BY PackIs
  <2> QED BY <2>1
<1>2. rest \in Seq(Words)
  BY <1>1
<1> HIDE DEF rest, n
<1>3. Pack(d) \o rest \in Seq(Words)
  BY <1>1, <1>2, Concatenation
<1>4. Walk(Pack(d) \o rest) = Told(d) /\ Tells(Told(d), d)
  BY <1>2, WalkReads, WalkTells DEF Told
<1>5. Zeros(n) \in Seq(Words)
  <2>1. Zero \in Words
    BY DEF Zero, Word, Words, Vals
  <2>2. Zeros(n) \in [1 .. n -> Words]
    BY <2>1 DEF Zeros
  <2> QED BY <1>1, <2>2
<1> QED BY <1>1, <1>2, <1>3, <1>4, <1>5 DEF rest, n

LEMMA InitInv == Init => Inv
<1> SUFFICES ASSUME Init PROVE Inv
  OBVIOUS
<1>1. TypeOK
  <2>1. wg \in [Names -> DeviceState \union {None, Other}]
    BY KindsAssumption DEF Init
  <2>2. was \in [Names -> SUBSET DeviceState]
    BY <2>1 DEF Init
  <2>3. ifgrs \in Seq(Names \union {NoName}) /\ DOMAIN ds = {}
    BY DEF Init
  <2> QED BY <2>1, <2>2, <2>3, BoundsAssumption DEF Init, TypeOK, IsDevice
<1>2. Memory
  BY DEF Init, Memory
<1>3. Remembered
  BY DEF Init, Remembered, IsDevice
<1>4. ReadsWhole /\ SetAsAsked /\ Covered /\ Counted /\ Phases
  BY DEF Init, ReadsWhole, SetAsAsked, Covered, Counted, Phases
<1> QED BY <1>1, <1>2, <1>3, <1>4 DEF Inv

-----------------------------------------------------------------------------
(* The steps that read no device and change none.                          *)

Pcs == {"start", "fetch", "next", "ioctl", "checks", "set", "done"}
Results == {"none", "ok", "ctx", "notexist", "updateonly", "readonly", "error", "crash"}
Lists == Seq(Names \union {NoName})

\* A step that changes no interface.
LEMMA CallStep ==
  ASSUME Inv, UNCHANGED <<platform, op, name, cfg, ctxDone, before, envVars>>,
         pc' \in Pcs, result' \in Results, (result' = "none") = (pc' # "done"),
         op = "configure" => result' # "ok",
         ifgrs' \in Lists, pc' = "ioctl" /\ op = "devices" => ifgrs' # <<>>,
         mem' \in Seq(Words), ds' \in Seq(Names \X Reads), ReadsWhole',
         checks' \in Nat, Phases', Counted', Covered'
  PROVE  Inv'
<1>1. TypeOK'
  <2>1. /\ platform' \in Platforms /\ op' \in Ops /\ name' \in Names
        /\ cfg' \in (IF op' = "configure" THEN Configs ELSE {Nil}) /\ ctxDone' \in BOOLEAN
        /\ before' \in DeviceState \union {None}
    BY DEF Inv, TypeOK
  <2>0. \A i \in DOMAIN ds' : ds'[i][1] \in Names
    OBVIOUS
  <2>2. /\ wg' \in [Names -> DeviceState \union {None, Other}] /\ changes' \in 0 .. MaxChanges
        /\ stayed' \subseteq Names /\ was' \in [Names -> SUBSET DeviceState]
    BY DEF Inv, TypeOK, envVars
  <2>3. pc' = "ioctl" /\ op' = "devices" => ifgrs' # <<>>
    OBVIOUS
  <2> QED BY <2>0, <2>1, <2>2, <2>3 DEF TypeOK, Pcs, Results, Lists
<1>2. Memory'
  BY DEF Memory
<1>3. Remembered'
  BY DEF Inv, Remembered, IsDevice, envVars
<1>4. SetAsAsked'
  BY DEF SetAsAsked
<1> QED BY <1>1, <1>2, <1>3, <1>4 DEF Inv

\* Nor reads one.
LEMMA QuietStep ==
  ASSUME Inv, UNCHANGED <<platform, op, name, cfg, ctxDone, before, ds, envVars>>,
         pc' \in Pcs, result' \in Results, (result' = "none") = (pc' # "done"),
         op = "configure" => result' # "ok",
         ifgrs' \in Lists, pc' = "ioctl" /\ op = "devices" => ifgrs' # <<>>,
         mem' \in Seq(Words), checks' \in Nat, Phases', Counted', Covered'
  PROVE  Inv'
<1>1. ds' \in Seq(Names \X Reads) /\ ReadsWhole'
  BY DEF Inv, Memory, ReadsWhole, envVars
<1> QED BY <1>1, CallStep

\* The call ends in an error; or it lists what it has read.
LEMMA EndStep ==
  ASSUME Inv, NEW res \in Results \ {"none"}, Return(res), op = "configure" => res # "ok",
         UNCHANGED <<platform, op, name, cfg, ctxDone, before, ifgrs, mem, checks, ds, envVars>>
  PROVE  Inv'
<1>1. pc' = "done" /\ result' = res
  BY DEF Return
<1>2. Phases' /\ Counted' /\ Covered'
  BY <1>1 DEF Phases, Counted, Covered, Inv
<1> QED BY <1>1, <1>2, QuietStep DEF Pcs, Results, Lists, Inv, TypeOK, Memory

LEMMA ListStep ==
  ASSUME Inv, Cancelled \/ CountMembers \/ FetchMembers \/ NextMember \/ OneDevice
  PROVE  Inv'
<1>1. CASE Cancelled
  <2>1. "ctx" \in Results \ {"none"} /\ "ctx" # "ok"
    BY DEF Results
  <2> QED BY <1>1, <2>1, EndStep DEF Cancelled
<1>2. CASE CountMembers
  <2>1. CASE Members = {}
    <3>1. "error" \in Results \ {"none"} /\ "error" # "ok"
      BY DEF Results
    <3> QED BY <1>2, <2>1, <3>1, EndStep DEF CountMembers
  <2>2. CASE Members # {}
    <3>1. /\ pc = "start" /\ op = "devices" /\ pc' = "fetch"
          /\ ifgrs' = [i \in 1 .. Cardinality(Members) |-> NoName]
          /\ UNCHANGED <<platform, op, name, cfg, ctxDone, ds, mem, checks, before, envVars, result>>
      BY <1>2, <2>2 DEF CountMembers
    <3>2. ifgrs' \in Lists
      <4>1. IsFiniteSet(Members)
        BY NamesAssumption, FS_Subset DEF Members
      <4>2. Cardinality(Members) \in Nat
        BY <4>1, FS_CardinalityType
      <4> DEFINE N == Cardinality(Members)
      <4> HIDE DEF N
      <4>3. [i \in 1 .. N |-> NoName] \in Seq(Names \union {NoName})
        BY <4>2 DEF N
      <4> QED BY <3>1, <4>3 DEF N, Lists
    <3>3. Phases' /\ Counted' /\ Covered'
      BY <3>1 DEF Phases, Counted, Covered, Inv
    <3>4. result' = "none"
      BY <3>1 DEF Inv, TypeOK
    <3> QED BY <3>1, <3>2, <3>3, <3>4, QuietStep DEF Pcs, Results, Inv, TypeOK, Memory
  <2> QED BY <2>1, <2>2
<1>3. CASE FetchMembers
  <2>1. CASE Members = {} \/ Cardinality(Members) > Len(ifgrs)
    <3>1. "error" \in Results \ {"none"} /\ "error" # "ok"
      BY DEF Results
    <3> QED BY <1>3, <2>1, <3>1, EndStep DEF FetchMembers
  <2>2. CASE ~ (Members = {} \/ Cardinality(Members) > Len(ifgrs))
    <3>1. /\ pc = "fetch" /\ pc' = "next"
          /\ UNCHANGED <<platform, op, name, cfg, ctxDone, ds, mem, checks, before, envVars, result>>
      BY <1>3, <2>2 DEF FetchMembers
    <3>2. PICK ms \in SetToSeqs(Members) :
            ifgrs' = ms \o SubSeq(ifgrs, Len(ms) + 1, Len(ifgrs))
      BY <1>3, <2>2 DEF FetchMembers
    <3>3. IsFiniteSet(Members) /\ Members \subseteq Names
      BY NamesAssumption, FS_Subset DEF Members
    <3>4. ms \in Seq(Members) /\ \A n \in Members : \E i \in DOMAIN ms : ms[i] = n
      BY <3>3, SetToSeqsAre
    <3> DEFINE S == Names \union {NoName}
               rest == SubSeq(ifgrs, Len(ms) + 1, Len(ifgrs))
    <3>5. ms \in Seq(S) /\ DOMAIN ms = 1 .. Len(ms) /\ Len(ms) \in Nat
      BY <3>3, <3>4
    <3>6. rest \in Seq(S)
      <4>1. ifgrs \in Seq(S)
        BY DEF Inv, TypeOK
      <4> HIDE DEF S
      <4> QED BY <3>5, <4>1
    <3> HIDE DEF S, rest
    <3>7. ms \o rest \in Seq(S) /\ \A i \in DOMAIN ms : i \in DOMAIN (ms \o rest) /\ (ms \o rest)[i] = ms[i]
      BY <3>5, <3>6
    <3>8. ifgrs' \in Lists
      BY <3>2, <3>7 DEF rest, S, Lists
    <3>9. Covered'
      <4>1. ASSUME NEW n \in stayed PROVE \E i \in DOMAIN ifgrs' : ifgrs'[i] = n
        <5>1. n \in Members
          BY DEF Inv, TypeOK, Remembered, IsDevice, Members
        <5>2. ifgrs' = ms \o rest
          BY <3>2 DEF rest
        <5> QED BY <3>4, <3>7, <5>1, <5>2
      <4> QED BY <3>1, <4>1 DEF Covered, envVars
    <3>10. Phases' /\ Counted' /\ result' = "none"
      BY <3>1 DEF Phases, Counted, Inv, TypeOK
    <3> QED BY <3>1, <3>8, <3>9, <3>10, QuietStep DEF Pcs, Results, Inv, TypeOK, Memory
  <2> QED BY <2>1, <2>2
<1>4. CASE NextMember
  <2>1. CASE ifgrs = <<>>
    <3>1. "ok" \in Results \ {"none"} /\ op # "configure"
      BY <1>4 DEF Results, NextMember, Inv, Phases
    <3> QED BY <1>4, <2>1, <3>1, EndStep DEF NextMember
  <2>2. CASE ifgrs # <<>>
    <3>1. /\ pc = "next" /\ op = "devices" /\ pc' = "ioctl" /\ mem' = <<>>
          /\ UNCHANGED <<platform, op, name, cfg, ctxDone, ifgrs, ds, checks, before, envVars, result>>
      BY <1>4, <2>2 DEF NextMember, Inv, Phases
    <3>2. Phases' /\ Counted' /\ Covered' /\ result' = "none"
      BY <3>1 DEF Phases, Counted, Covered, Inv, TypeOK, envVars
    <3>3. mem' \in Seq(Words)
      BY <3>1
    <3> QED BY <2>2, <3>1, <3>2, <3>3, QuietStep DEF Pcs, Results, Lists, Inv, TypeOK
  <2> QED BY <2>1, <2>2
<1>5. CASE OneDevice
  <2>1. /\ pc = "start" /\ op = "device" /\ pc' = "ioctl" /\ mem' = <<>>
        /\ UNCHANGED <<platform, op, name, cfg, ctxDone, ifgrs, ds, checks, before, envVars, result>>
    BY <1>5 DEF OneDevice
  <2>2. Phases' /\ Counted' /\ Covered' /\ result' = "none"
    BY <2>1 DEF Phases, Counted, Covered, Inv, TypeOK, envVars
  <2>3. mem' \in Seq(Words)
    BY <2>1
  <2> QED BY <2>1, <2>2, <2>3, QuietStep DEF Pcs, Results, Lists, Inv, TypeOK
<1> QED BY <1>1, <1>2, <1>3, <1>4, <1>5

\* A set of a sequence's indices is finite.
LEMMA PeersCounted ==
  ASSUME NEW x \in Config
  PROVE  /\ Cardinality(UpdateOnlyPeers(x)) \in Nat
         /\ Cardinality(UpdateOnlyPeers(x)) = 0 => UpdateOnlyPeers(x) = {}
<1>1. x.Peers \in Seq(PeerConfig)
  BY DEF Config
<1> DEFINE N == Len(x.Peers)
<1>2. N \in Nat /\ DOMAIN x.Peers = 1 .. N
  BY <1>1
<1>3. IsFiniteSet(1 .. N)
  BY <1>2, FS_Interval
<1>4. UpdateOnlyPeers(x) \subseteq 1 .. N
  BY <1>2 DEF UpdateOnlyPeers
<1>5. IsFiniteSet(UpdateOnlyPeers(x))
  BY <1>3, <1>4, FS_Subset
<1> QED BY <1>5, FS_CardinalityType, FS_EmptySet

\* The configuration of a call, and how it gets to its checks and the ioctls.
LEMMA ConfigStep ==
  ASSUME Inv, StartConfigure \/ UpdateOnlyChecks
  PROVE  Inv'
<1>1. CASE StartConfigure
  <2>1. /\ pc = "start" /\ op = "configure" /\ mem' = <<>> /\ result' = result /\ result = "none"
        /\ UNCHANGED <<platform, op, name, cfg, ctxDone, ifgrs, ds, before, envVars>>
        /\ cfg \in Config /\ platform \in {"openbsd", "freebsd"}
    BY <1>1, CallsAssumption DEF StartConfigure, Inv, TypeOK
  <2>2. mem' \in Seq(Words)
    BY <2>1
  <2>3. CASE platform = "openbsd"
    <3>1. pc' = "ioctl" /\ checks' = checks
      BY <1>1, <2>3 DEF StartConfigure
    <3>2. Phases' /\ Counted' /\ Covered'
      BY <2>1, <2>3, <3>1 DEF Phases, Counted, Covered, Inv
    <3> QED BY <2>1, <2>2, <3>1, <3>2, QuietStep DEF Pcs, Results, Lists, Inv, TypeOK
  <2>4. CASE platform = "freebsd"
    <3>1. pc' = "checks" /\ checks' = Cardinality(UpdateOnlyPeers(cfg))
      BY <1>1, <2>4 DEF StartConfigure
    <3>2. checks' \in Nat
      BY <2>1, <3>1, PeersCounted
    <3>3. Phases' /\ Counted' /\ Covered'
      BY <2>1, <2>4, <3>1 DEF Phases, Counted, Covered, Inv, UpdateOnlyPeers
    <3> QED BY <2>1, <2>2, <3>1, <3>2, <3>3, QuietStep DEF Pcs, Results, Lists, Inv, TypeOK
  <2> QED BY <2>1, <2>3, <2>4
<1>2. CASE UpdateOnlyChecks
  <2>1. /\ pc = "checks" /\ op = "configure" /\ platform = "freebsd"
        /\ result' = result /\ result = "none"
        /\ UNCHANGED <<platform, op, name, cfg, ctxDone, ifgrs, ds, checks, before, envVars>>
    BY <1>2 DEF UpdateOnlyChecks, Inv, TypeOK, Phases
  <2>2. IF checks = 0 THEN pc' = "set" /\ mem' = mem ELSE pc' = "ioctl" /\ mem' = <<>>
    BY <1>2 DEF UpdateOnlyChecks
  <2>3. mem' \in Seq(Words)
    <3>1. <<>> \in Seq(Words) /\ mem \in Seq(Words)
      BY DEF Inv, Memory
    <3> QED BY <2>2, <3>1
  <2>4. Phases' /\ Counted' /\ Covered'
    BY <2>1, <2>2 DEF Phases, Counted, Covered, Inv, UpdateOnlyPeers, envVars
  <2> QED BY <2>1, <2>2, <2>3, <2>4, QuietStep DEF Pcs, Results, Lists, Inv, TypeOK
<1> QED BY <1>1, <1>2

-----------------------------------------------------------------------------
(* The ioctls.                                                             *)

\* Device returns an error.
LEMMA ErrorStep ==
  ASSUME Inv, pc = "ioctl", NEW err \in {"notexist", "error"}, DeviceErrs(err),
         err = "notexist" => ~ IsDevice(Target),
         UNCHANGED <<platform, op, name, cfg, ctxDone, ifgrs, ds, mem, before, envVars>>
  PROVE  Inv'
<1>1. CASE op = "configure" /\ platform = "freebsd" /\ err = "notexist"
  <2>1. pc' = "checks" /\ checks' = checks - 1 /\ result' = result /\ result = "none"
    BY <1>1 DEF DeviceErrs, Inv, TypeOK
  <2>2. checks \in Nat /\ checks # 0
    BY <1>1 DEF Inv, TypeOK, Phases
  <2>3. checks' \in Nat
    BY <2>1, <2>2
  <2>4. name \notin stayed
    BY <1>1 DEF Target, Inv, Remembered
  <2>5. Phases' /\ Counted' /\ Covered'
    BY <1>1, <2>1, <2>4 DEF Phases, Counted, Covered, Inv, envVars
  <2> QED BY <2>1, <2>3, <2>5, QuietStep DEF Pcs, Results, Lists, Inv, TypeOK, Memory
<1>2. CASE ~ (op = "configure" /\ platform = "freebsd" /\ err = "notexist")
  <2>1. PICK res \in {"notexist", "error", "updateonly"} : Return(res) /\ checks' = checks
    BY <1>2 DEF DeviceErrs
  <2>2. res \in Results \ {"none"} /\ res # "ok"
    BY DEF Results
  <2> QED BY <2>1, <2>2, EndStep
<1> QED BY <1>1, <1>2

LEMMA IoctlStep ==
  ASSUME Inv, NoDevice \/ IoctlFails \/ TooSmall \/ UnpackFails
  PROVE  Inv'
<1>1. CASE NoDevice
  BY <1>1, ErrorStep DEF NoDevice
<1>2. CASE IoctlFails
  <2>1. "error" # "notexist"
    OBVIOUS
  <2> QED BY <1>2, <2>1, ErrorStep DEF IoctlFails
<1>3. CASE TooSmall
  <2>1. /\ pc = "ioctl" /\ IsDevice(Target) /\ pc' = pc /\ result' = result
        /\ UNCHANGED <<platform, op, name, cfg, ctxDone, ifgrs, ds, checks, before, envVars>>
        /\ mem' = Zeros(Len(Pack(wg[Target])))
    BY <1>3 DEF TooSmall, Need
  <2>2. wg[Target] \in DeviceState
    BY <2>1 DEF IsDevice, Inv, TypeOK
  <2>3. mem' \in Seq(Words)
    BY <2>1, <2>2, FittingMemory DEF Inv, Memory
  <2>4. Phases' /\ Counted' /\ Covered'
    BY <2>1 DEF Phases, Counted, Covered, Inv, UpdateOnlyPeers, envVars
  <2>5. result # "ok"
    BY <2>1 DEF Inv, TypeOK
  <2>6. ifgrs' \in Lists /\ (pc' = "ioctl" /\ op = "devices" => ifgrs' # <<>>)
    BY <2>1 DEF Lists, Inv, TypeOK
  <2> QED BY <2>1, <2>3, <2>4, <2>5, <2>6, QuietStep DEF Pcs, Results, Inv, TypeOK
<1>4. CASE UnpackFails
  <2>1. "crash" \in Results \ {"none"} /\ "crash" # "ok"
    BY DEF Results
  <2> QED BY <1>4, <2>1, EndStep DEF UnpackFails
<1> QED BY <1>1, <1>2, <1>3, <1>4

\* The memory is read.
LEMMA FitsStep == ASSUME Inv, Fits PROVE Inv'
<1> DEFINE d == wg[Target]
           walk == <<Target, Told(d)>>
<1>1. /\ pc = "ioctl" /\ IsDevice(Target) /\ result = "none"
      /\ UNCHANGED <<platform, op, name, cfg, ctxDone, checks, before, envVars>>
      /\ mem' = Pack(d) \o SubSeq(mem, Len(Pack(d)) + 1, Len(mem))
  BY DEF Fits, Need, Inv, TypeOK
<1>2. Target \in Names /\ d \in DeviceState /\ d \in was[Target]
  BY <1>1 DEF IsDevice, Inv, TypeOK, Remembered
<1>3. mem' \in Seq(Words) /\ Walk(mem') = Told(d) /\ Tells(Told(d), d)
  BY <1>1, <1>2, FittingMemory DEF Inv, Memory
<1>4. DeviceIs(Told(d)) /\ op \in {"devices", "device", "configure"} /\ UNCHANGED op
  BY <1>1, <1>3, CallsAssumption DEF Fits, Inv, TypeOK
<1>5. walk \in Names \X Reads /\ walk[1] = Target /\ walk[2] = Told(d)
  BY <1>2 DEF Reads
<1>6. ds \in Seq(Names \X Reads)
  BY DEF Inv, Memory
<1>7. ASSUME NEW s \in Seq(Names \X Reads), ds' = s,
             \A i \in DOMAIN s : s[i] = walk \/ \E j \in DOMAIN ds : s[i] = ds[j]
      PROVE  ReadsWhole'
  <2>1. was' = was
    BY <1>1 DEF envVars
  <2>2. ASSUME NEW i \in DOMAIN s PROVE \E e \in was[s[i][1]] : Tells(s[i][2], e)
    <3>1. CASE s[i] = walk
      BY <1>2, <1>3, <1>5, <3>1
    <3>2. CASE \E j \in DOMAIN ds : s[i] = ds[j]
      BY <3>2 DEF Inv, ReadsWhole
    <3> QED BY <1>7, <3>1, <3>2
  <2> QED BY <1>7, <2>1, <2>2 DEF ReadsWhole
<1> HIDE DEF walk
<1>8. CASE op = "devices"
  <2>1. /\ ds' = Append(ds, walk) /\ ifgrs' = Tail(ifgrs)
        /\ pc' = "next" /\ result' = "none"
    BY <1>1, <1>4, <1>8 DEF DeviceIs, walk
  <2> DEFINE S == Names \union {NoName}
  <2>2. ifgrs \in Seq(S) /\ ifgrs # <<>>
    BY <1>1, <1>8 DEF Inv, TypeOK
  <2> HIDE DEF S
  <2>3. /\ Tail(ifgrs) \in Seq(S)
        /\ \A i \in DOMAIN ifgrs :
             ifgrs[i] = Head(ifgrs) \/ \E j \in DOMAIN Tail(ifgrs) : Tail(ifgrs)[j] = ifgrs[i]
    BY <2>2, HeadOrTail
  <2>4. /\ Append(ds, walk) \in Seq(Names \X Reads)
        /\ \A i \in DOMAIN Append(ds, walk) :
             Append(ds, walk)[i] = walk \/ \E j \in DOMAIN ds : Append(ds, walk)[i] = ds[j]
        /\ \A j \in DOMAIN ds : j \in DOMAIN Append(ds, walk) /\ Append(ds, walk)[j] = ds[j]
        /\ \E i \in DOMAIN Append(ds, walk) : Append(ds, walk)[i] = walk
    <3> DEFINE T == Names \X Reads
    <3> HIDE DEF T
    <3>1. ds \in Seq(T) /\ walk \in T
      BY <1>5, <1>6 DEF T
    <3>2. /\ Append(ds, walk) \in Seq(T)
          /\ \A i \in DOMAIN Append(ds, walk) :
               Append(ds, walk)[i] = walk \/ \E j \in DOMAIN ds : Append(ds, walk)[i] = ds[j]
          /\ \A j \in DOMAIN ds : j \in DOMAIN Append(ds, walk) /\ Append(ds, walk)[j] = ds[j]
          /\ Len(ds) + 1 \in DOMAIN Append(ds, walk) /\ Append(ds, walk)[Len(ds) + 1] = walk
      BY <3>1
    <3> QED BY <3>2 DEF T
  <2>5. ReadsWhole'
    BY <1>7, <2>1, <2>4
  <2>6. Covered'
    <3>1. ASSUME NEW n \in stayed
          PROVE  (\E i \in DOMAIN ifgrs' : ifgrs'[i] = n) \/ (\E i \in DOMAIN ds' : ds'[i][1] = n)
      <4>1. (\E i \in DOMAIN ifgrs : ifgrs[i] = n) \/ (\E i \in DOMAIN ds : ds[i][1] = n)
        BY <1>1, <1>8 DEF Inv, Covered
      <4>2. CASE \E i \in DOMAIN ifgrs : ifgrs[i] = n
        <5>1. CASE n = Head(ifgrs)
          <6>1. walk[1] = n
            BY <1>5, <1>8, <5>1 DEF Target
          <6> QED BY <2>1, <2>4, <6>1
        <5>2. CASE n # Head(ifgrs)
          BY <2>1, <2>3, <4>2, <5>2
        <5> QED BY <5>1, <5>2
      <4>3. CASE \E i \in DOMAIN ds : ds[i][1] = n
        BY <2>1, <2>4, <4>3
      <4> QED BY <4>1, <4>2, <4>3
    <3> QED BY <1>1, <3>1 DEF Covered, envVars
  <2>7. Phases' /\ Counted'
    BY <1>1, <1>8, <2>1 DEF Phases, Counted, Inv
  <2>8. ifgrs' \in Lists /\ checks' \in Nat
    BY <1>1, <2>1, <2>3 DEF Lists, S, Inv, TypeOK
  <2> QED BY <1>1, <1>3, <1>8, <2>1, <2>4, <2>5, <2>6, <2>7, <2>8, CallStep DEF Pcs, Results
<1>9. CASE op = "device"
  <2>1. ds' = <<walk>> /\ ifgrs' = ifgrs /\ pc' = "done" /\ result' = "ok"
    BY <1>1, <1>4, <1>9 DEF DeviceIs, Return, walk
  <2>2. <<walk>> \in Seq(Names \X Reads) /\ \A i \in DOMAIN <<walk>> : <<walk>>[i] = walk
    <3> DEFINE T == Names \X Reads
    <3> HIDE DEF T
    <3>1. walk \in T
      BY <1>5 DEF T
    <3>2. <<walk>> \in Seq(T) /\ \A i \in DOMAIN <<walk>> : <<walk>>[i] = walk
      BY <3>1
    <3> QED BY <3>2 DEF T
  <2>3. ReadsWhole'
    BY <1>7, <2>1, <2>2
  <2>4. Phases' /\ Counted' /\ Covered'
    BY <1>1, <1>9, <2>1 DEF Phases, Counted, Covered
  <2>5. ifgrs' \in Lists /\ checks' \in Nat
    BY <1>1, <2>1 DEF Lists, Inv, TypeOK
  <2> QED BY <1>1, <1>3, <1>9, <2>1, <2>2, <2>3, <2>4, <2>5, CallStep DEF Pcs, Results
<1>10. CASE op = "configure"
  <2>1. /\ ds' = ds /\ ifgrs' = ifgrs /\ pc' = "done"
        /\ result' \in {"updateonly", "readonly"}
    BY <1>1, <1>4, <1>10 DEF DeviceIs, Return
  <2>2. Phases' /\ Counted' /\ Covered'
    BY <1>1, <1>10, <2>1 DEF Phases, Counted, Covered, Inv
  <2>3. ifgrs' \in Lists /\ checks' \in Nat
    BY <1>1, <2>1 DEF Lists, Inv, TypeOK
  <2> QED BY <1>1, <1>3, <1>10, <2>1, <2>2, <2>3, QuietStep DEF Pcs, Results
<1> QED BY <1>4, <1>8, <1>9, <1>10

-----------------------------------------------------------------------------
(* The interfaces change.                                                  *)

\* An interface becomes w, which may be a device: nothing that was read is
\* forgotten.
LEMMA BecomesStep ==
  ASSUME Inv, NEW n \in Names, NEW w \in DeviceState \union {None, Other},
         wg' = [wg EXCEPT ![n] = w],
         was' = [was EXCEPT ![n] = @ \union ({w} \ {None, Other})],
         stayed' = IF w \in {None, Other} THEN stayed \ {n} ELSE stayed,
         UNCHANGED ds
  PROVE  /\ wg' \in [Names -> DeviceState \union {None, Other}]
         /\ was' \in [Names -> SUBSET DeviceState]
         /\ stayed' \subseteq Names /\ stayed' \subseteq stayed
         /\ \A x \in Names : was[x] \subseteq was'[x]
         /\ Remembered' /\ ReadsWhole'
<1>1. /\ wg \in [Names -> DeviceState \union {None, Other}]
      /\ was \in [Names -> SUBSET DeviceState] /\ stayed \subseteq Names
      /\ \A i \in DOMAIN ds : ds[i][1] \in Names
  BY DEF Inv, TypeOK
<1>2. /\ \A x \in Names : wg'[x] = IF x = n THEN w ELSE wg[x]
      /\ \A x \in Names : was'[x] = IF x = n THEN was[x] \union ({w} \ {None, Other}) ELSE was[x]
  BY <1>1
<1>3. wg' \in [Names -> DeviceState \union {None, Other}] /\ was' \in [Names -> SUBSET DeviceState]
  <2>1. w \in {None, Other} \/ w \in DeviceState
    OBVIOUS
  <2>2. \A x \in Names : was'[x] \in SUBSET DeviceState
    BY <1>1, <1>2, <2>1
  <2> QED BY <1>1, <2>2
<1>4. \A x \in Names : was[x] \subseteq was'[x]
  BY <1>2
<1>5. Remembered'
  <2>1. ASSUME NEW x \in Names, wg'[x] \notin {None, Other} PROVE wg'[x] \in was'[x]
    BY <1>2, <2>1 DEF Inv, Remembered, IsDevice
  <2>2. ASSUME NEW x \in stayed' PROVE x \in Names /\ wg'[x] \notin {None, Other}
    <3>1. x \in stayed /\ x \in Names
      BY <1>1
    <3>2. wg[x] \notin {None, Other}
      BY <3>1 DEF Inv, Remembered, IsDevice
    <3> QED BY <1>2, <3>1, <3>2
  <2> QED BY <2>1, <2>2 DEF Remembered, IsDevice
<1>6. ReadsWhole'
  <2>1. ASSUME NEW i \in DOMAIN ds PROVE \E d \in was'[ds[i][1]] : Tells(ds[i][2], d)
    BY <1>1, <1>4 DEF Inv, ReadsWhole
  <2> QED BY <2>1 DEF ReadsWhole
<1>7. stayed' \subseteq Names /\ stayed' \subseteq stayed
  BY <1>1
<1> QED BY <1>3, <1>4, <1>5, <1>6, <1>7

LEMMA ChangeStep ==
  ASSUME Inv, NEW n \in Names, NEW w \in Devices \union {None, Other}, InterfaceChanges(n, w)
  PROVE  Inv'
<1>1. /\ wg' = [wg EXCEPT ![n] = w] /\ changes' = changes + 1 /\ changes < MaxChanges
      /\ stayed' = IF w \in {None, Other} THEN stayed \ {n} ELSE stayed
      /\ was' = [was EXCEPT ![n] = @ \union ({w} \ {None, Other})]
      /\ UNCHANGED <<platform, op, name, cfg, ctxDone, pc, ifgrs, ds, mem, checks, result, before>>
      /\ pc # "done"
  BY DEF InterfaceChanges, callVars
<1>2. w \in DeviceState \union {None, Other}
  BY KindsAssumption
<1>3. /\ wg' \in [Names -> DeviceState \union {None, Other}]
      /\ was' \in [Names -> SUBSET DeviceState]
      /\ stayed' \subseteq Names /\ stayed' \subseteq stayed /\ Remembered' /\ ReadsWhole'
  BY <1>1, <1>2, BecomesStep
<1>4. changes' \in 0 .. MaxChanges
  BY <1>1, BoundsAssumption DEF Inv, TypeOK
<1>5. TypeOK'
  BY <1>1, <1>3, <1>4 DEF Inv, TypeOK
<1>6. Memory' /\ Phases'
  BY <1>1 DEF Inv, Memory, Phases
<1>7. Counted' /\ Covered'
  <2>1. UpdateOnlyPeers(cfg)' = UpdateOnlyPeers(cfg)
    BY <1>1 DEF UpdateOnlyPeers
  <2> QED BY <1>1, <1>3, <2>1 DEF Inv, Counted, Covered
<1>8. SetAsAsked'
  <2>1. result' # "ok"
    BY <1>1 DEF Inv, TypeOK
  <2> QED BY <2>1 DEF SetAsAsked
<1> QED BY <1>3, <1>5, <1>6, <1>7, <1>8 DEF Inv

\* Without update-only peers, what FreeBSD's kernel gets is the plain part of
\* the configuration.
LEMMA UnparseIsPlain ==
  ASSUME NEW x \in Config, UpdateOnlyPeers(x) = {}
  PROVE  Unparse(x) = Plain(x)
<1> DEFINE P(p) == [p EXCEPT !.UpdateOnly = FALSE,
                             !.AdvancedSecurity = FALSE, !.DisableAdvancedSecurity = FALSE]
           Q(p) == [p EXCEPT !.AdvancedSecurity = FALSE, !.DisableAdvancedSecurity = FALSE]
<1>1. \A i \in DOMAIN x.Peers : x.Peers[i] \in PeerConfig /\ ~ x.Peers[i].UpdateOnly
  BY DEF Config, UpdateOnlyPeers
<1>2. ASSUME NEW p \in PeerConfig, ~ p.UpdateOnly PROVE P(p) = Q(p)
  <2>1. p.UpdateOnly = FALSE
    BY <1>2 DEF PeerConfig
  <2> QED BY <2>1 DEF PeerConfig
<1> HIDE DEF P, Q
<1>3. [i \in DOMAIN x.Peers |-> P(x.Peers[i])] = [i \in DOMAIN x.Peers |-> Q(x.Peers[i])]
  BY <1>1, <1>2
<1>4. Unparse(x) = [x EXCEPT !.awg = Nil, !.Peers = [i \in DOMAIN x.Peers |-> P(x.Peers[i])]]
  BY DEF Unparse, P
<1>5. Plain(x) = [x EXCEPT !.awg = Nil, !.Peers = [i \in DOMAIN x.Peers |-> Q(x.Peers[i])]]
  BY DEF Plain, Q
<1> QED BY <1>3, <1>4, <1>5

\* A step that sets a device configures it.
LEMMA SetConfigures ==
  ASSUME Inv, Set \/ SetFails, ~ UNCHANGED <<wg, was>>
  PROVE  \E x \in Config : /\ wg' = [wg EXCEPT ![name] = Configured(@, x)]
                           /\ was' = [was EXCEPT ![name] = @ \union {wg'[name]}]
<1>1. IsDevice(name) /\ cfg \in Config
  BY CallsAssumption DEF Set, SetFails, Inv, Phases, TypeOK
<1>2. CASE Set
  <2>1. 0 \in 0 .. Len(cfg.Peers)
    BY <1>1 DEF Config
  <2>2. Unparse(cfg) \in Config
    BY <1>1, <2>1, UnparseTyped
  <2> QED BY <1>1, <1>2, <2>2 DEF Set
<1>3. CASE SetFails
  <2>1. PICK n \in 0 .. Len(cfg.Peers) :
          wg' = [wg EXCEPT ![name] =
                   Configured(@, [Unparse(cfg) EXCEPT !.Peers = SubSeq(@, 1, n)])]
    BY <1>3 DEF SetFails
  <2>2. [Unparse(cfg) EXCEPT !.Peers = SubSeq(@, 1, n)] \in Config
    BY <1>1, UnparseTyped
  <2> QED BY <1>3, <2>1, <2>2 DEF SetFails
<1> QED BY <1>2, <1>3

\* SIOCSWG: a device stays a device.
LEMMA SetStep == ASSUME Inv, Set \/ SetFails PROVE Inv'
<1>1. /\ pc = "set" /\ op = "configure" /\ platform = "freebsd" /\ checks = 0 /\ ds = <<>>
      /\ UNCHANGED <<platform, op, name, cfg, ctxDone, ifgrs, ds, mem, checks, changes, stayed>>
      /\ pc' = "done" /\ result' \in {"ok", "notexist", "error"} /\ name \in Names
      /\ cfg \in Config
  BY CallsAssumption DEF Set, SetFails, Return, Inv, Phases, TypeOK
<1>2. ASSUME IsDevice(name), NEW w \in DeviceState,
             wg' = [wg EXCEPT ![name] = w], was' = [was EXCEPT ![name] = @ \union {wg'[name]}]
      PROVE  /\ wg' \in [Names -> DeviceState \union {None, Other}]
             /\ was' \in [Names -> SUBSET DeviceState]
             /\ Remembered' /\ ReadsWhole'
  <2>1. wg'[name] = w /\ w \notin {None, Other}
    BY <1>1, <1>2, KindsAssumption DEF Inv, TypeOK
  <2>2. {w} \ {None, Other} = {w}
    BY <2>1
  <2>3. was' = [was EXCEPT ![name] = @ \union ({w} \ {None, Other})]
    BY <1>2, <2>1, <2>2
  <2>4. stayed' = IF w \in {None, Other} THEN stayed \ {name} ELSE stayed
    BY <1>1, <2>1
  <2> QED BY <1>1, <1>2, <2>3, <2>4, BecomesStep
<1>3. ASSUME UNCHANGED <<wg, was>>
      PROVE  /\ wg' \in [Names -> DeviceState \union {None, Other}]
             /\ was' \in [Names -> SUBSET DeviceState]
             /\ Remembered' /\ ReadsWhole'
  BY <1>1, <1>3 DEF Inv, TypeOK, Remembered, ReadsWhole, IsDevice
<1>4. /\ wg' \in [Names -> DeviceState \union {None, Other}]
      /\ was' \in [Names -> SUBSET DeviceState]
      /\ Remembered' /\ ReadsWhole'
  <2>1. CASE UNCHANGED <<wg, was>>
    BY <1>3, <2>1
  <2>2. CASE ~ UNCHANGED <<wg, was>>
    <3>1. IsDevice(name) /\ wg[name] \in DeviceState
      BY <1>1, <2>2 DEF Set, SetFails, IsDevice, Inv, TypeOK
    <3>2. PICK x \in Config : /\ wg' = [wg EXCEPT ![name] = Configured(@, x)]
                              /\ was' = [was EXCEPT ![name] = @ \union {wg'[name]}]
      BY <2>2, SetConfigures
    <3>3. Configured(wg[name], x) \in DeviceState
      BY <3>1, ConfiguredTyped
    <3>4. wg' = [wg EXCEPT ![name] = Configured(wg[name], x)]
      BY <3>2
    <3> QED BY <1>2, <3>1, <3>2, <3>3, <3>4
  <2> QED BY <2>1, <2>2
<1>5. before' \in DeviceState \union {None}
  BY <1>1 DEF Set, SetFails, IsDevice, Inv, TypeOK
<1>6. TypeOK'
  BY <1>1, <1>4, <1>5 DEF Inv, TypeOK
<1>7. Memory' /\ Phases' /\ Counted' /\ Covered'
  BY <1>1 DEF Inv, Memory, Phases, Counted, Covered
<1>8. SetAsAsked'
  <2> SUFFICES ASSUME result' = "ok"
               PROVE  \/ wg'[name] = Configured(before', Plain(cfg))
                      \/ UpdateOnlyPeers(cfg) # {} /\ name \notin stayed
    BY <1>1 DEF SetAsAsked, UpdateOnlyPeers, Plain
  <2>1. IsDevice(name) /\ before' = wg[name] /\ wg' = [wg EXCEPT ![name] = Configured(@, Unparse(cfg))]
    BY DEF Set, SetFails, Return
  <2>2. wg'[name] = Configured(before', Unparse(cfg))
    BY <1>1, <2>1 DEF Inv, TypeOK
  <2>3. CASE UpdateOnlyPeers(cfg) = {}
    BY <1>1, <2>2, <2>3, UnparseIsPlain
  <2>4. CASE UpdateOnlyPeers(cfg) # {}
    <3>1. Cardinality(UpdateOnlyPeers(cfg)) # 0
      BY <1>1, <2>4, PeersCounted
    <3> QED BY <1>1, <2>4, <3>1 DEF Inv, Counted
  <2> QED BY <2>3, <2>4
<1> QED BY <1>4, <1>6, <1>7, <1>8 DEF Inv

LEMMA InvStep == Inv /\ [Next]_vars => Inv'
<1> SUFFICES ASSUME Inv, [Next]_vars PROVE Inv'
  OBVIOUS
<1>1. CASE Cancelled \/ CountMembers \/ FetchMembers \/ NextMember \/ OneDevice
  BY <1>1, ListStep
<1>2. CASE StartConfigure \/ UpdateOnlyChecks
  BY <1>2, ConfigStep
<1>3. CASE NoDevice \/ IoctlFails \/ TooSmall \/ UnpackFails
  BY <1>3, IoctlStep
<1>4. CASE Fits
  BY <1>4, FitsStep
<1>5. CASE Set \/ SetFails
  BY <1>5, SetStep
<1>6. ASSUME NEW n \in Names, NEW w \in Devices \union {None, Other}, InterfaceChanges(n, w)
      PROVE  Inv'
  BY <1>6, ChangeStep
<1>7. CASE UNCHANGED vars
  BY <1>7 DEF vars, callVars, envVars, Inv, TypeOK, Memory, Phases, Remembered, IsDevice,
              Counted, UpdateOnlyPeers, Covered, ReadsWhole, SetAsAsked
<1> QED BY <1>1, <1>2, <1>3, <1>4, <1>5, <1>6, <1>7 DEF Next, Step

LEMMA Invariant == Spec => []Inv
BY InitInv, InvStep, PTL DEF Spec

\* The state of a call is always well-formed: what FreeBSD's kernel is given
\* leaves a device a device, and an ioctl of Devices has a name left to ask for.
THEOREM TypeCorrect == Spec => []TypeOK
BY Invariant, PTL DEF Inv

\* Device, getDevice: however the device grows or shrinks between the two
\* ioctls, and however large it is, what is returned is what it was at one
\* moment of the call.
THEOREM ReadsTheDevice == Spec => []ReadsWhole
BY Invariant, PTL DEF Inv

\* FreeBSD's ConfigureDevice returned nil: the kernel has what was asked for.
THEOREM SetRight == Spec => []SetAsAsked
BY Invariant, PTL DEF Inv

-----------------------------------------------------------------------------
(* The refinement.                                                         *)

There  == Present({n \in Names : IsDevice(n)})
Stayed == Present(stayed)
Seen   == Present({n \in Names : was[n] # {}})
Read   == Present({ds[i][1] : i \in DOMAIN ds})

\* What a user of the interface does not see.
LEMMA Silent ==
  ASSUME UNCHANGED <<platform, op, name, wg, stayed, was>>, result = "none",
         result' \in {"none", "crash"}
  PROVE  UNCHANGED B!vars
<1>1. /\ There' = There /\ Stayed' = Stayed /\ Seen' = Seen /\ EinvalHides' = EinvalHides
  BY DEF There, Stayed, Seen, Present, IsDevice, EinvalHides
<1> QED BY <1>1 DEF B!vars, There, Stayed, Seen

\* The call has begun from the first, and its own steps make no device and
\* take none away.
LEMMA StillThere ==
  ASSUME Inv, UNCHANGED <<platform, op, name, stayed>>,
         UNCHANGED <<wg, was>> \/ Set \/ SetFails
  PROVE  B!Begun /\ There' = There /\ Stayed' = Stayed /\ Seen' = Seen
         /\ EinvalHides' = EinvalHides
<1>1. Stayed' = Stayed /\ EinvalHides' = EinvalHides
  BY DEF Stayed, Present, EinvalHides
<1>2. There' = There /\ Seen' = Seen
  <2>1. CASE UNCHANGED <<wg, was>>
    BY <2>1 DEF There, Seen, Present, IsDevice
  <2>2. CASE ~ UNCHANGED <<wg, was>>
    <3>1. IsDevice(name) /\ wg[name] \in DeviceState /\ cfg \in Config /\ name \in Names
          /\ was \in [Names -> SUBSET DeviceState] /\ wg[name] \in was[name]
          /\ wg \in [Names -> DeviceState \union {None, Other}]
      BY <2>2, CallsAssumption DEF Set, SetFails, IsDevice, Inv, TypeOK, Phases, Remembered
    <3>2. PICK x \in Config : /\ wg' = [wg EXCEPT ![name] = Configured(@, x)]
                              /\ was' = [was EXCEPT ![name] = @ \union {wg'[name]}]
      BY <2>2, SetConfigures
    <3>3. Configured(wg[name], x) \notin {None, Other}
      BY <3>1, ConfiguredTyped, KindsAssumption
    <3>4. ASSUME NEW n \in Names PROVE wg'[n] \notin {None, Other} <=> wg[n] \notin {None, Other}
      <4>1. wg'[n] = IF n = name THEN Configured(wg[name], x) ELSE wg[n]
        BY <3>1, <3>2
      <4>2. wg[name] \notin {None, Other}
        BY <3>1 DEF IsDevice
      <4> QED BY <3>3, <4>1, <4>2
    <3>5. \A n \in Names : (was'[n] # {}) = (was[n] # {})
      BY <3>1, <3>2
    <3>6. {n \in Names : IsDevice(n)}' = {n \in Names : IsDevice(n)}
      BY <3>4 DEF IsDevice
    <3>7. {n \in Names : was[n] # {}}' = {n \in Names : was[n] # {}}
      BY <3>5
    <3> QED BY <3>6, <3>7 DEF There, Seen, Present
  <2> QED BY <2>1, <2>2
<1> QED BY <1>1, <1>2 DEF B!Begun, There, Stayed, Seen

\* What stayed was there, and what was there was seen.
LEMMA StayedSeen == ASSUME Inv PROVE \A n \in stayed : n \in Names /\ was[n] # {}
BY DEF Inv, TypeOK, Remembered, IsDevice

\* An answer: an error, of one device, or of all that are listed.
LEMMA ErrorAnswer ==
  ASSUME Inv, B!Begun, result = "none", UNCHANGED op,
         \/ result' \in {"ctx", "error", "updateonly", "readonly"}
         \/ result' = "notexist" /\ op = "devices"
  PROVE  B!Fails
<1>1. B!Answer("error")
  BY DEF B!Answer
<1> QED BY <1>1 DEF B!Fails

LEMMA NoneAnswer ==
  ASSUME Inv, B!Begun, result = "none", result' = "notexist", UNCHANGED <<op, name>>,
         op \in {"device", "configure"},
         name \in stayed => platform = "freebsd" /\ op = "configure",
         Stayed' = Stayed, EinvalHides' = EinvalHides
  PROVE  B!NotExist
<1>1. B!Answer("notexist")
  BY DEF B!Answer
<1>2. name \in B!Named(Stayed) => name \in EinvalHides
  BY DEF B!Named, Stayed, Present, EinvalHides
<1> QED BY <1>1, <1>2 DEF B!NotExist, Stayed, EinvalHides

LEMMA FoundAnswer ==
  ASSUME Inv, B!Begun, result = "none", result' = "ok", UNCHANGED <<platform, op, name>>,
         \/ op = "configure"
         \/ op = "device" /\ \E r : ds' = << <<name, r>> >>,
         Seen' = Seen, was[name] # {}
  PROVE  B!Finds
<1>1. B!Answer("ok")
  BY DEF B!Answer
<1>2. <<name, platform>> \in Seen
  BY DEF Seen, Present, Inv, TypeOK
<1>3. Present({name})' = {<<name, platform>>}
  BY DEF Present
<1>4. op = "device" => Read' = {<<name, platform>>}
  <2>1. SUFFICES ASSUME NEW r, ds' = << <<name, r>> >>
                 PROVE  Read' = {<<name, platform>>}
    OBVIOUS
  <2>2. {ds'[i][1] : i \in DOMAIN ds'} = {name}
    BY <2>1
  <2> QED BY <2>2 DEF Read, Present
<1>5. <<name, platform>>[1] = name'
  OBVIOUS
<1> QED BY <1>1, <1>2, <1>3, <1>4, <1>5 DEF B!Finds, Seen, Read

LEMMA ListAnswer ==
  ASSUME Inv, B!Begun, result = "none", result' = "ok", UNCHANGED <<platform, op, ds>>,
         op = "devices", \A n \in stayed : \E i \in DOMAIN ds : ds[i][1] = n,
         Stayed' = Stayed, Seen' = Seen
  PROVE  B!Lists
<1>1. B!Answer("ok")
  BY DEF B!Answer
<1>2. Read' = Read
  BY DEF Read, Present
<1>3. Read \subseteq Seen
  <2>1. \A i \in DOMAIN ds : ds[i][1] \in Names /\ was[ds[i][1]] # {}
    BY DEF Inv, TypeOK, ReadsWhole
  <2> QED BY <2>1 DEF Read, Seen, Present
<1>4. B!Named(Stayed) \subseteq B!Named(Read)
  BY DEF B!Named, Stayed, Read, Present
<1> QED BY <1>1, <1>2, <1>3, <1>4 DEF B!Lists, Stayed, Seen, Read

\* The interfaces change.
LEMMA ChangeIsBackend ==
  ASSUME Inv, Inv', NEW n \in Names, NEW w \in Devices \union {None, Other}, InterfaceChanges(n, w)
  PROVE  B!Change
<1>1. /\ wg' = [wg EXCEPT ![n] = w]
      /\ stayed' = IF w \in {None, Other} THEN stayed \ {n} ELSE stayed
      /\ was' = [was EXCEPT ![n] = @ \union ({w} \ {None, Other})]
      /\ UNCHANGED <<platform, op, name, ds, result>>
      /\ wg \in [Names -> DeviceState \union {None, Other}] /\ result = "none"
      /\ was \in [Names -> SUBSET DeviceState] /\ stayed \subseteq Names
  BY DEF InterfaceChanges, callVars, Inv, TypeOK
<1> DEFINE T  == {x \in Names : IsDevice(x)}
           Tn == IF w \in {None, Other} THEN T \ {n} ELSE T \union {n}
           S  == {x \in Names : was[x] # {}}
<1>2. T' = Tn
  <2>1. \A x \in Names : wg'[x] = IF x = n THEN w ELSE wg[x]
    BY <1>1
  <2> QED BY <2>1 DEF IsDevice
<1>3. stayed' = stayed \intersect Tn
  BY <1>1 DEF Inv, Remembered
<1>4. S' = S \union Tn
  <2>1. \A x \in Names : was'[x] = IF x = n THEN was[x] \union ({w} \ {None, Other}) ELSE was[x]
    BY <1>1
  <2>2. \A x \in T : was[x] # {}
    BY DEF Inv, Remembered
  <2>3. (w \in {None, Other}) => ({w} \ {None, Other}) = {}
    OBVIOUS
  <2>4. (w \notin {None, Other}) => ({w} \ {None, Other}) # {}
    OBVIOUS
  <2>5. ASSUME NEW x \in Names PROVE x \in S' <=> x \in S \/ x \in Tn
    BY <2>1, <2>2, <2>3, <2>4
  <2> QED BY <2>5
<1>5. There' = Present(Tn) /\ Stayed' = Stayed \intersect Present(Tn) /\ Seen' = Seen \union Present(Tn)
  <2> HIDE DEF Tn
  <2> QED BY <1>1, <1>2, <1>3, <1>4 DEF There, Stayed, Seen, Present
<1>6. B!Named(There') \subseteq Names
  BY DEF B!Named, There, Present
<1>7. Read' = Read /\ Present({name})' = Present({name}) /\ EinvalHides' = EinvalHides
      /\ EinvalHides \subseteq Names
  BY <1>1 DEF Read, Present, EinvalHides, Inv, TypeOK
<1> HIDE DEF Tn
<1> QED BY <1>1, <1>5, <1>6, <1>7 DEF B!Change, There, Stayed, Seen, Read

\* A step of the call.
LEMMA StepIsBackend ==
  ASSUME Inv, Inv', Step \/ IoctlFails \/ UnpackFails \/ SetFails
  PROVE  B!Next \/ UNCHANGED B!vars
<1>1. /\ UNCHANGED <<platform, op, name, stayed>>
      /\ result = "none" /\ op \in {"devices", "device", "configure"}
      /\ UNCHANGED <<wg, was>> \/ Set \/ SetFails
  BY CallsAssumption
     DEF Step, Cancelled, CountMembers, FetchMembers, NextMember, OneDevice, NoDevice, IoctlFails,
         TooSmall, Fits, UnpackFails, StartConfigure, UpdateOnlyChecks, Set, SetFails,
         envVars, Inv, TypeOK
<1>2. B!Begun /\ There' = There /\ Stayed' = Stayed /\ Seen' = Seen /\ EinvalHides' = EinvalHides
  BY <1>1, StillThere
<1>3. ASSUME result' \in {"ctx", "error", "updateonly", "readonly"} PROVE B!Next
  BY <1>1, <1>2, <1>3, ErrorAnswer DEF B!Next
<1>4. ASSUME UNCHANGED <<wg, was>>, result' \in {"none", "crash"} PROVE UNCHANGED B!vars
  BY <1>1, <1>4, Silent
<1>5. CASE Cancelled
  BY <1>3, <1>5 DEF Cancelled, Return
<1>6. CASE CountMembers \/ FetchMembers
  BY <1>1, <1>3, <1>4, <1>6 DEF CountMembers, FetchMembers, Return, envVars
<1>7. CASE OneDevice \/ TooSmall \/ StartConfigure \/ UpdateOnlyChecks \/ UnpackFails
  BY <1>1, <1>4, <1>7
     DEF OneDevice, TooSmall, StartConfigure, UpdateOnlyChecks, UnpackFails, Return, envVars
<1>8. CASE NextMember
  <2>1. CASE ifgrs # <<>>
    BY <1>1, <1>4, <1>8, <2>1 DEF NextMember, envVars
  <2>2. CASE ifgrs = <<>>
    <3>1. op = "devices" /\ result' = "ok" /\ ds' = ds /\ pc = "next"
      BY <1>8, <2>2 DEF NextMember, Return, Inv, Phases
    <3>2. \A n \in stayed : \E i \in DOMAIN ds : ds[i][1] = n
      BY <2>2, <3>1 DEF Inv, Covered
    <3> QED BY <1>1, <1>2, <3>1, <3>2, ListAnswer DEF B!Next
  <2> QED BY <2>1, <2>2
<1>9. CASE NoDevice \/ IoctlFails
  <2>1. /\ UNCHANGED <<wg, was>>
        /\ (DeviceErrs("notexist") /\ ~ IsDevice(Target)) \/ DeviceErrs("error")
    BY <1>9 DEF NoDevice, IoctlFails, envVars
  <2>2. CASE result' = "notexist"
    <3>1. op # "devices" => name \notin stayed
      BY <2>1, <2>2 DEF DeviceErrs, Return, Target, Inv, Remembered
    <3>2. CASE op = "devices"
      BY <1>1, <1>2, <2>2, <3>2, ErrorAnswer DEF B!Next
    <3>3. CASE op # "devices"
      BY <1>1, <1>2, <2>2, <3>1, <3>3, NoneAnswer DEF B!Next
    <3> QED BY <3>2, <3>3
  <2>3. CASE result' # "notexist"
    BY <1>1, <1>3, <1>4, <2>1, <2>3 DEF DeviceErrs, Return
  <2> QED BY <2>2, <2>3
<1>10. CASE Fits
  <2>1. UNCHANGED <<wg, was>> /\ IsDevice(Target) /\ DeviceIs(Walk(mem'))
    BY <1>10 DEF Fits, envVars
  <2>2. CASE op = "device"
    <3>1. Target = name /\ result' = "ok" /\ ds' = << <<name, Walk(mem')>> >>
      BY <2>1, <2>2 DEF DeviceIs, Return, Target
    <3>2. was[name] # {}
      BY <2>1, <3>1 DEF IsDevice, Inv, Remembered
    <3> QED BY <1>1, <1>2, <2>2, <3>1, <3>2, FoundAnswer DEF B!Next
  <2>3. CASE op = "devices"
    <3>1. result' = result
      BY <2>1, <2>3 DEF DeviceIs
    <3> QED BY <1>1, <1>4, <2>1, <3>1
  <2>4. CASE op = "configure"
    <3>1. result' \in {"updateonly", "readonly"}
      BY <2>1, <2>4 DEF DeviceIs, Return
    <3> QED BY <1>3, <3>1
  <2> QED BY <1>1, <2>2, <2>3, <2>4
<1>11. CASE Set \/ SetFails
  <2>1. /\ op = "configure" /\ platform = "freebsd"
        /\ result' \in {"ok", "notexist", "error"}
        /\ result' = "ok" => IsDevice(name)
    BY <1>11 DEF Set, SetFails, Return, Inv, Phases
  <2>2. CASE result' = "ok"
    <3>1. was[name] # {}
      BY <2>1, <2>2 DEF IsDevice, Inv, Remembered
    <3> QED BY <1>1, <1>2, <2>1, <2>2, <3>1, FoundAnswer DEF B!Next
  <2>3. CASE result' = "notexist"
    BY <1>1, <1>2, <2>1, <2>3, NoneAnswer DEF B!Next
  <2> QED BY <1>3, <2>1, <2>2, <2>3
<1> QED BY <1>5, <1>6, <1>7, <1>8, <1>9, <1>10, <1>11 DEF Step

\* The backends of FreeBSD and OpenBSD are backends, however many interfaces
\* there are, however often they come, go and change between two ioctls, and
\* whatever the kernel fails with.
THEOREM BSDIsBackend == Spec => ImplementsBackend
<1>1. Init => B!Init
  <2> SUFFICES ASSUME Init PROVE B!Init
    OBVIOUS
  <2>1. /\ op \in {"devices", "device", "configure", "close"} /\ name \in Names
        /\ result = "none"
    BY CallsAssumption DEF Init
  <2>2. stayed = {n \in Names : IsDevice(n)}
    BY DEF Init
  <2>3. {n \in Names : was[n] # {}} = {n \in Names : IsDevice(n)}
    BY DEF Init, IsDevice
  <2> QED BY <2>1, <2>2, <2>3 DEF B!Init
<1>2. Inv /\ Inv' /\ [Next]_vars => [B!Next]_(B!vars)
  <2> SUFFICES ASSUME Inv, Inv', [Next]_vars
               PROVE  B!Next \/ UNCHANGED B!vars
    OBVIOUS
  <2>1. CASE Step \/ IoctlFails \/ UnpackFails \/ SetFails
    BY <2>1, StepIsBackend
  <2>2. ASSUME NEW n \in Names, NEW w \in Devices \union {None, Other}, InterfaceChanges(n, w)
        PROVE  B!Next
    BY <2>2, ChangeIsBackend DEF B!Next
  <2>3. CASE UNCHANGED vars
    <3>1. UNCHANGED <<platform, op, name, ds, result, wg, stayed, was>>
      BY <2>3 DEF vars, callVars, envVars
    <3>2. /\ There' = There /\ Stayed' = Stayed /\ Seen' = Seen /\ Read' = Read
          /\ Present({name})' = Present({name}) /\ EinvalHides' = EinvalHides
      BY <3>1 DEF There, Stayed, Seen, Read, Present, IsDevice, EinvalHides
    <3> QED BY <3>1, <3>2 DEF B!vars, There, Stayed, Seen, Read
  <2> QED BY <2>1, <2>2, <2>3 DEF Next
<1> QED BY <1>1, <1>2, Invariant, PTL DEF Spec, ImplementsBackend, B!Spec

-----------------------------------------------------------------------------
(* UAPI: the lines of an answer.                                           *)

LineKeys == {"empty", "public_key", "remove", "update_only", "opts", "replace_allowed_ips",
             "allowed_ip", "dev", "awg", "replace_peers", "sec", "nsec", "errno"}
LineVals == Keys \union IPs \union Opts \union Values \union Nat \union {Nil, "true"}
Lines == [key : LineKeys, val : LineVals]

\* An optional line is there or it is not.
LEMMA OptionalIs ==
  ASSUME NEW given \in BOOLEAN, NEW line \in Lines
  PROVE  /\ Optional(given, line) \in Seq(Lines)
         /\ Len(Optional(given, line)) = IF given THEN 1 ELSE 0
         /\ \A m \in 1 .. Len(Optional(given, line)) : Optional(given, line)[m] = line
BY DEF Optional

\* Where the lines of four sequences are that stand one behind the other.
Row(w, a, b, c, d) ==
  /\ Len(w) = Len(a) + Len(b) + Len(c) + Len(d)
  /\ \A m \in 1 .. Len(a) : w[m] = a[m]
  /\ \A m \in 1 .. Len(b) : w[Len(a) + m] = b[m]
  /\ \A m \in 1 .. Len(c) : w[Len(a) + Len(b) + m] = c[m]
  /\ \A m \in 1 .. Len(d) : w[Len(a) + Len(b) + Len(c) + m] = d[m]

LEMMA FourInARow ==
  ASSUME NEW X, NEW a \in Seq(X), NEW b \in Seq(X), NEW c \in Seq(X), NEW d \in Seq(X)
  PROVE  a \o b \o c \o d \in Seq(X) /\ Row(a \o b \o c \o d, a, b, c, d)
<1> DEFINE ab == a \o b
           abc == ab \o c
<1>1. Len(a) \in Nat /\ Len(b) \in Nat /\ Len(c) \in Nat /\ Len(d) \in Nat
  OBVIOUS
<1>2. /\ ab \in Seq(X) /\ Len(ab) = Len(a) + Len(b)
      /\ \A m \in 1 .. Len(a) : ab[m] = a[m]
      /\ \A m \in 1 .. Len(b) : ab[Len(a) + m] = b[m]
  <2>1. a \in Seq(X) /\ b \in Seq(X)
    OBVIOUS
  <2> QED BY ONLY <2>1, Concatenation
<1> HIDE DEF ab
<1>3. /\ abc \in Seq(X) /\ Len(abc) = Len(ab) + Len(c)
      /\ \A m \in 1 .. Len(ab) : abc[m] = ab[m]
      /\ \A m \in 1 .. Len(c) : abc[Len(ab) + m] = c[m]
  <2>1. ab \in Seq(X) /\ c \in Seq(X)
    BY <1>2
  <2> QED BY ONLY <2>1, Concatenation
<1> HIDE DEF abc
<1>4. /\ abc \o d \in Seq(X) /\ Len(abc \o d) = Len(abc) + Len(d)
      /\ \A m \in 1 .. Len(abc) : (abc \o d)[m] = abc[m]
      /\ \A m \in 1 .. Len(d) : (abc \o d)[Len(abc) + m] = d[m]
  <2>1. abc \in Seq(X) /\ d \in Seq(X)
    BY <1>3
  <2> QED BY ONLY <2>1, Concatenation
<1> DEFINE w == abc \o d
<1> HIDE DEF w
<1>5. \A m \in 1 .. Len(a) : w[m] = a[m]
  <2> TAKE m \in 1 .. Len(a)
  <2>0. Len(ab) = Len(a) + Len(b) /\ Len(abc) = Len(a) + Len(b) + Len(c)
    BY <1>2, <1>3
  <2>1. m \in 1 .. Len(ab) /\ m \in 1 .. Len(abc)
    BY ONLY <1>1, <2>0, m \in 1 .. Len(a)
  <2> QED BY <1>2, <1>3, <1>4, <2>1 DEF w
<1>6. \A m \in 1 .. Len(b) : w[Len(a) + m] = b[m]
  <2> TAKE m \in 1 .. Len(b)
  <2>1. Len(a) + m \in 1 .. Len(ab) /\ Len(a) + m \in 1 .. Len(abc)
    BY <1>1, <1>2, <1>3
  <2> QED BY <1>2, <1>3, <1>4, <2>1 DEF w
<1>7. \A m \in 1 .. Len(c) : w[Len(a) + Len(b) + m] = c[m]
  <2> TAKE m \in 1 .. Len(c)
  <2>1. Len(ab) + m \in 1 .. Len(abc)
    BY <1>1, <1>2, <1>3
  <2> QED BY <1>2, <1>3, <1>4, <2>1 DEF w
<1>8. \A m \in 1 .. Len(d) : w[Len(a) + Len(b) + Len(c) + m] = d[m]
  BY <1>2, <1>3, <1>4 DEF w
<1>9. w \in Seq(X) /\ Len(w) = Len(a) + Len(b) + Len(c) + Len(d)
  BY <1>2, <1>3, <1>4 DEF w
<1>10. Row(w, a, b, c, d)
  BY <1>5, <1>6, <1>7, <1>8, <1>9 DEF Row
<1> QED BY <1>9, <1>10 DEF w, abc, ab

\* Each of its lines is one of the sequences'.
OneOf(m, a, b, c, d) ==
  \/ m \in 1 .. a
  \/ \E j \in 1 .. b : m = a + j
  \/ \E j \in 1 .. c : m = a + b + j
  \/ \E j \in 1 .. d : m = a + b + c + j

LEMMA OneOfFour ==
  ASSUME NEW a \in Nat, NEW b \in Nat, NEW c \in Nat, NEW d \in Nat,
         NEW m \in 1 .. (a + b + c + d)
  PROVE  OneOf(m, a, b, c, d)
<1> USE DEF OneOf
<1>1. CASE m <= a
  BY <1>1
<1>2. CASE a < m /\ m <= a + b
  <2>1. m - a \in 1 .. b /\ m = a + (m - a)
    BY <1>2
  <2> QED BY <2>1
<1>3. CASE a + b < m /\ m <= a + b + c
  <2>1. m - a - b \in 1 .. c /\ m = a + b + (m - a - b)
    BY <1>3
  <2> QED BY <2>1
<1>4. CASE a + b + c < m
  <2>1. m - a - b - c \in 1 .. d /\ m = a + b + c + (m - a - b - c)
    BY <1>4
  <2> QED BY <2>1
<1> QED BY <1>1, <1>2, <1>3, <1>4

\* A peer's allowed IPs in the daemon's order, and the lines of the peer after
\* its public_key.
IPOrder(k) == SetToSeq(device.peers[k].ips)
OptsLine(k)       == Optional(device.peers[k].opts # Nil, Line("opts", device.peers[k].opts))
SecLine(k, all)   == Optional(all \/ shake[k][1] # 0, Line("sec", shake[k][1]))
NsecLine(k, all)  == Optional(all \/ shake[k][2] # 0, Line("nsec", shake[k][2]))
IPLines(k)        == [i \in DOMAIN IPOrder(k) |-> Line("allowed_ip", IPOrder(k)[i])]
FieldLines(k, all) ==
  IF all THEN OptsLine(k) \o SecLine(k, all) \o NsecLine(k, all) \o IPLines(k)
  ELSE IPLines(k) \o NsecLine(k, all) \o SecLine(k, all) \o OptsLine(k)

\* How many of them come before the allowed IPs.
BeforeIPs(k, all) == IF all THEN Len(OptsLine(k)) + 2 ELSE 0

\* The lines that are no allowed IP's.
OtherLine(k, line) ==
  \/ line = Line("opts", device.peers[k].opts) /\ device.peers[k].opts \in Opts
  \/ line = Line("sec", shake[k][1])
  \/ line = Line("nsec", shake[k][2])

\* What the daemon holds, of a peer that it has.
Held == /\ device \in DeviceState
        /\ shake \in [DOMAIN device.peers -> Nat \X Nat]

LEMMA IPOrderIs ==
  ASSUME Held, NEW k \in DOMAIN device.peers
  PROVE  /\ IPOrder(k) \in Seq(IPs) /\ Len(IPOrder(k)) = Cardinality(device.peers[k].ips)
         /\ ToSet(IPOrder(k)) = device.peers[k].ips
<1>1. device.peers[k].ips \subseteq IPs
  BY DEF Held, DeviceState, PeerStates, PeerState
<1>2. IsFiniteSet(device.peers[k].ips)
  BY <1>1, FiniteAssumption, FS_Subset
<1> DEFINE S == device.peers[k].ips
           s == SetToSeq(S)
<1> HIDE DEF S
<1>3. s \in SetToSeqs(S)
  BY <1>2, SetToSeqIs DEF S
<1>4. s \in Seq(S) /\ Len(s) = Cardinality(S) /\ \A x \in S : \E i \in DOMAIN s : s[i] = x
  BY <1>2, <1>3, SetToSeqsAre DEF S
<1> HIDE DEF s
<1>5. ToSet(s) = S
  BY <1>4 DEF ToSet
<1>6. s \in Seq(IPs)
  BY <1>1, <1>4 DEF S
<1> QED BY <1>4, <1>5, <1>6 DEF S, s, IPOrder

LEMMA PiecesAre ==
  ASSUME Held, NEW k \in DOMAIN device.peers, NEW all \in BOOLEAN
  PROVE  /\ OptsLine(k) \in Seq(Lines) /\ SecLine(k, all) \in Seq(Lines)
         /\ NsecLine(k, all) \in Seq(Lines) /\ IPLines(k) \in Seq(Lines)
         /\ Len(OptsLine(k)) = IF device.peers[k].opts # Nil THEN 1 ELSE 0
         /\ Len(SecLine(k, all)) = IF all \/ shake[k][1] # 0 THEN 1 ELSE 0
         /\ Len(NsecLine(k, all)) = IF all \/ shake[k][2] # 0 THEN 1 ELSE 0
         /\ Len(IPLines(k)) = Len(IPOrder(k))
         /\ \A m \in 1 .. Len(OptsLine(k)) : OptsLine(k)[m] = Line("opts", device.peers[k].opts)
                                             /\ device.peers[k].opts \in Opts
         /\ \A m \in 1 .. Len(SecLine(k, all)) : SecLine(k, all)[m] = Line("sec", shake[k][1])
         /\ \A m \in 1 .. Len(NsecLine(k, all)) : NsecLine(k, all)[m] = Line("nsec", shake[k][2])
         /\ \A m \in 1 .. Len(IPLines(k)) : IPLines(k)[m] = Line("allowed_ip", IPOrder(k)[m])
<1>1. /\ device.peers[k].opts \in Opts \union {Nil}
      /\ shake[k][1] \in Nat /\ shake[k][2] \in Nat
  BY DEF Held, DeviceState, PeerStates, PeerState
<1>2. /\ Line("opts", device.peers[k].opts) \in Lines
      /\ Line("sec", shake[k][1]) \in Lines /\ Line("nsec", shake[k][2]) \in Lines
  BY <1>1 DEF Line, Lines, LineKeys, LineVals
<1>3. /\ OptsLine(k) \in Seq(Lines)
      /\ Len(OptsLine(k)) = IF device.peers[k].opts # Nil THEN 1 ELSE 0
      /\ \A m \in 1 .. Len(OptsLine(k)) : OptsLine(k)[m] = Line("opts", device.peers[k].opts)
  BY <1>2, OptionalIs DEF OptsLine
<1>4. /\ SecLine(k, all) \in Seq(Lines)
      /\ Len(SecLine(k, all)) = IF all \/ shake[k][1] # 0 THEN 1 ELSE 0
      /\ \A m \in 1 .. Len(SecLine(k, all)) : SecLine(k, all)[m] = Line("sec", shake[k][1])
  BY <1>2, OptionalIs DEF SecLine
<1>5. /\ NsecLine(k, all) \in Seq(Lines)
      /\ Len(NsecLine(k, all)) = IF all \/ shake[k][2] # 0 THEN 1 ELSE 0
      /\ \A m \in 1 .. Len(NsecLine(k, all)) : NsecLine(k, all)[m] = Line("nsec", shake[k][2])
  BY <1>2, OptionalIs DEF NsecLine
<1> DEFINE s == IPOrder(k)
<1>6. s \in Seq(IPs)
  BY IPOrderIs
<1>7. IPLines(k) = [i \in DOMAIN s |-> Line("allowed_ip", s[i])]
  BY DEF IPLines
<1> HIDE DEF s
<1>8. \A i \in DOMAIN s : Line("allowed_ip", s[i]) \in Lines
  BY <1>6 DEF Line, Lines, LineKeys, LineVals
<1>9. Len(s) \in Nat /\ DOMAIN s = 1 .. Len(s)
  BY <1>6
<1>10. IPLines(k) \in Seq(Lines) /\ Len(IPLines(k)) = Len(s)
       /\ \A m \in 1 .. Len(s) : IPLines(k)[m] = Line("allowed_ip", s[m])
  BY <1>7, <1>8, <1>9
<1>11. \A m \in 1 .. Len(OptsLine(k)) : device.peers[k].opts \in Opts
  BY <1>1, <1>3
<1> QED BY <1>3, <1>4, <1>5, <1>10, <1>11 DEF s

\* A peer's lines: its allowed IPs stand together and in order, and of the
\* others each that is not zero is there.
LEMMA FieldLinesAre ==
  ASSUME Held, NEW k \in DOMAIN device.peers, NEW all \in BOOLEAN
  PROVE  /\ FieldLines(k, all) \in Seq(Lines) /\ BeforeIPs(k, all) \in Nat
         /\ \A m \in 1 .. Len(FieldLines(k, all)) :
              \/ OtherLine(k, FieldLines(k, all)[m])
              \/ \E j \in 1 .. Len(IPOrder(k)) : m = BeforeIPs(k, all) + j
         /\ \A j \in 1 .. Len(IPOrder(k)) :
              /\ BeforeIPs(k, all) + j \in 1 .. Len(FieldLines(k, all))
              /\ FieldLines(k, all)[BeforeIPs(k, all) + j] = Line("allowed_ip", IPOrder(k)[j])
         /\ device.peers[k].opts # Nil =>
              \E m \in 1 .. Len(FieldLines(k, all)) : FieldLines(k, all)[m].key = "opts"
         /\ shake[k][1] # 0 =>
              \E m \in 1 .. Len(FieldLines(k, all)) : FieldLines(k, all)[m].key = "sec"
         /\ shake[k][2] # 0 =>
              \E m \in 1 .. Len(FieldLines(k, all)) : FieldLines(k, all)[m].key = "nsec"
<1> DEFINE o == OptsLine(k)
           s == SecLine(k, all)
           n == NsecLine(k, all)
           i == IPLines(k)
           F == FieldLines(k, all)
           bef == BeforeIPs(k, all)
           L == Len(IPOrder(k))
<1>1. /\ o \in Seq(Lines) /\ s \in Seq(Lines) /\ n \in Seq(Lines) /\ i \in Seq(Lines)
      /\ Len(o) = (IF device.peers[k].opts # Nil THEN 1 ELSE 0)
      /\ Len(s) = (IF all \/ shake[k][1] # 0 THEN 1 ELSE 0)
      /\ Len(n) = (IF all \/ shake[k][2] # 0 THEN 1 ELSE 0)
      /\ Len(i) = L
  BY PiecesAre
<1>2. /\ \A m \in 1 .. Len(o) : o[m] = Line("opts", device.peers[k].opts)
                                /\ device.peers[k].opts \in Opts
      /\ \A m \in 1 .. Len(s) : s[m] = Line("sec", shake[k][1])
      /\ \A m \in 1 .. Len(n) : n[m] = Line("nsec", shake[k][2])
      /\ \A m \in 1 .. L : i[m] = Line("allowed_ip", IPOrder(k)[m])
  BY PiecesAre
<1>3. L \in Nat /\ Len(o) \in Nat /\ Len(s) \in Nat /\ Len(n) \in Nat /\ Len(i) \in Nat
  BY <1>1, IPOrderIs
<1>4. F = IF all THEN o \o s \o n \o i ELSE i \o n \o s \o o
  BY DEF FieldLines
<1>5. bef = IF all THEN Len(o) + 2 ELSE 0
  BY DEF BeforeIPs
<1> HIDE DEF o, s, n, i, F, bef, L
<1>6. bef \in Nat
  BY <1>3, <1>5
<1>8. CASE all
  <2>1. F = o \o s \o n \o i /\ bef = Len(o) + 2 /\ Len(s) = 1 /\ Len(n) = 1
    BY <1>1, <1>4, <1>5, <1>8
  <2>2. /\ F \in Seq(Lines) /\ Len(F) = Len(o) + Len(s) + Len(n) + Len(i)
        /\ \A m \in 1 .. Len(o) : F[m] = o[m]
        /\ \A m \in 1 .. Len(s) : F[Len(o) + m] = s[m]
        /\ \A m \in 1 .. Len(n) : F[Len(o) + Len(s) + m] = n[m]
        /\ \A m \in 1 .. Len(i) : F[Len(o) + Len(s) + Len(n) + m] = i[m]
    <3>1. o \in Seq(Lines) /\ s \in Seq(Lines) /\ n \in Seq(Lines) /\ i \in Seq(Lines)
      BY <1>1
    <3>2. o \o s \o n \o i \in Seq(Lines) /\ Row(o \o s \o n \o i, o, s, n, i)
      BY ONLY <3>1, FourInARow
    <3> QED BY <2>1, <3>2 DEF Row
  <2>3. Len(F) = Len(o) + 2 + L
    BY <1>1, <1>3, <2>1, <2>2
  <2>4. \A j \in 1 .. L : bef + j \in 1 .. Len(F) /\ F[bef + j] = Line("allowed_ip", IPOrder(k)[j])
    <3> TAKE j \in 1 .. L
    <3>1. bef + j \in 1 .. Len(F)
      BY <1>3, <2>1, <2>3
    <3>2. Len(o) + Len(s) + Len(n) + j = bef + j
      BY <1>3, <2>1
    <3>3. F[Len(o) + Len(s) + Len(n) + j] = i[j]
      BY <1>1, <2>2
    <3> QED BY <1>2, <3>1, <3>2, <3>3
  <2>5. /\ Len(o) + 1 \in 1 .. Len(F) /\ F[Len(o) + 1] = Line("sec", shake[k][1])
        /\ Len(o) + 2 \in 1 .. Len(F) /\ F[Len(o) + 2] = Line("nsec", shake[k][2])
    <3>1. Len(o) + 1 \in 1 .. Len(F) /\ Len(o) + 2 \in 1 .. Len(F) /\ Len(o) + Len(s) + 1 = Len(o) + 2
      BY <1>3, <2>1, <2>3
    <3>2. 1 \in 1 .. Len(s) /\ 1 \in 1 .. Len(n)
      BY <2>1
    <3> QED BY <1>2, <2>2, <3>1, <3>2
  <2>6. \A m \in 1 .. Len(o) : m \in 1 .. Len(F) /\ F[m] = Line("opts", device.peers[k].opts)
                               /\ device.peers[k].opts \in Opts
    <3> TAKE m \in 1 .. Len(o)
    <3>1. m \in 1 .. Len(F)
      BY <1>3, <2>3
    <3> QED BY <1>2, <2>2, <3>1
  <2>7. \A m \in 1 .. Len(F) : OtherLine(k, F[m]) \/ \E j \in 1 .. L : m = bef + j
    <3> TAKE m \in 1 .. Len(F)
    <3>1. CASE m \in 1 .. Len(o)
      BY <2>6, <3>1 DEF OtherLine
    <3>2. CASE m = Len(o) + 1 \/ m = Len(o) + 2
      BY <2>5, <3>2 DEF OtherLine
    <3>3. CASE ~ (m \in 1 .. Len(o) \/ m = Len(o) + 1 \/ m = Len(o) + 2)
      <4>1. m - bef \in 1 .. L /\ m = bef + (m - bef)
        BY <1>3, <2>1, <2>3, <3>3
      <4> QED BY <4>1
    <3> QED BY <3>1, <3>2, <3>3
  <2>8. device.peers[k].opts # Nil => \E m \in 1 .. Len(F) : F[m].key = "opts"
    <3>1. device.peers[k].opts # Nil => 1 \in 1 .. Len(o)
      BY <1>1
    <3> QED BY <2>6, <3>1 DEF Line
  <2>9. (\E m \in 1 .. Len(F) : F[m].key = "sec") /\ (\E m \in 1 .. Len(F) : F[m].key = "nsec")
    BY <2>5 DEF Line
  <2> QED BY <1>6, <2>2, <2>4, <2>7, <2>8, <2>9 DEF F, bef, L
<1>9. CASE ~ all
  <2>1. F = i \o n \o s \o o /\ bef = 0
    BY <1>4, <1>5, <1>9
  <2>2. /\ F \in Seq(Lines) /\ Len(F) = Len(i) + Len(n) + Len(s) + Len(o)
        /\ \A m \in 1 .. Len(i) : F[m] = i[m]
        /\ \A m \in 1 .. Len(n) : F[Len(i) + m] = n[m]
        /\ \A m \in 1 .. Len(s) : F[Len(i) + Len(n) + m] = s[m]
        /\ \A m \in 1 .. Len(o) : F[Len(i) + Len(n) + Len(s) + m] = o[m]
    <3>1. i \in Seq(Lines) /\ n \in Seq(Lines) /\ s \in Seq(Lines) /\ o \in Seq(Lines)
      BY <1>1
    <3>2. i \o n \o s \o o \in Seq(Lines) /\ Row(i \o n \o s \o o, i, n, s, o)
      BY ONLY <3>1, FourInARow
    <3> QED BY <2>1, <3>2 DEF Row
  <2>3. \A j \in 1 .. L : bef + j \in 1 .. Len(F) /\ F[bef + j] = Line("allowed_ip", IPOrder(k)[j])
    <3> TAKE j \in 1 .. L
    <3>1. bef + j = j /\ j \in 1 .. Len(F)
      BY <1>1, <1>3, <2>1, <2>2
    <3> QED BY <1>1, <1>2, <2>2, <3>1
  <2>4. \A m \in 1 .. Len(n) : Len(i) + m \in 1 .. Len(F) /\ F[Len(i) + m] = Line("nsec", shake[k][2])
    <3> TAKE m \in 1 .. Len(n)
    <3>1. Len(i) + m \in 1 .. Len(F)
      BY <1>3, <2>2
    <3> QED BY <1>2, <2>2, <3>1
  <2>5. \A m \in 1 .. Len(s) : /\ Len(i) + Len(n) + m \in 1 .. Len(F)
                               /\ F[Len(i) + Len(n) + m] = Line("sec", shake[k][1])
    <3> TAKE m \in 1 .. Len(s)
    <3>1. Len(i) + Len(n) + m \in 1 .. Len(F)
      BY <1>3, <2>2
    <3> QED BY <1>2, <2>2, <3>1
  <2>6. \A m \in 1 .. Len(o) : /\ Len(i) + Len(n) + Len(s) + m \in 1 .. Len(F)
                               /\ F[Len(i) + Len(n) + Len(s) + m] = Line("opts", device.peers[k].opts)
                               /\ device.peers[k].opts \in Opts
    <3> TAKE m \in 1 .. Len(o)
    <3>1. Len(i) + Len(n) + Len(s) + m \in 1 .. Len(F)
      BY <1>3, <2>2
    <3> QED BY <1>2, <2>2, <3>1
  <2>7. \A m \in 1 .. Len(F) : OtherLine(k, F[m]) \/ \E j \in 1 .. L : m = bef + j
    <3> TAKE m \in 1 .. Len(F)
    <3>0. \/ m \in 1 .. Len(i)
          \/ \E j \in 1 .. Len(n) : m = Len(i) + j
          \/ \E j \in 1 .. Len(s) : m = Len(i) + Len(n) + j
          \/ \E j \in 1 .. Len(o) : m = Len(i) + Len(n) + Len(s) + j
      <4>1. m \in 1 .. (Len(i) + Len(n) + Len(s) + Len(o))
        BY <2>2
      <4>2. Len(i) \in Nat /\ Len(n) \in Nat /\ Len(s) \in Nat /\ Len(o) \in Nat
        BY <1>3
      <4>3. OneOf(m, Len(i), Len(n), Len(s), Len(o))
        BY ONLY <4>1, <4>2, OneOfFour
      <4> QED BY <4>3 DEF OneOf
    <3>1. CASE m \in 1 .. Len(i)
      <4>1. m \in 1 .. L /\ m = bef + m
        BY <1>1, <2>1, <3>1
      <4> QED BY <4>1
    <3>2. CASE ~ (m \in 1 .. Len(i))
      BY <2>4, <2>5, <2>6, <3>0, <3>2 DEF OtherLine
    <3> QED BY <3>1, <3>2
  <2>8. /\ device.peers[k].opts # Nil => 1 \in 1 .. Len(o)
        /\ shake[k][1] # 0 => 1 \in 1 .. Len(s)
        /\ shake[k][2] # 0 => 1 \in 1 .. Len(n)
    BY <1>1
  <2>9. /\ device.peers[k].opts # Nil => \E m \in 1 .. Len(F) : F[m].key = "opts"
        /\ shake[k][1] # 0 => \E m \in 1 .. Len(F) : F[m].key = "sec"
        /\ shake[k][2] # 0 => \E m \in 1 .. Len(F) : F[m].key = "nsec"
    BY <2>4, <2>5, <2>6, <2>8 DEF Line
  <2> QED BY <1>6, <2>2, <2>3, <2>7, <2>9 DEF F, bef, L
<1> QED BY <1>8, <1>9

\* The lines of the device itself, and of a peer.
DevLine == Optional(device.dev # Nil, Line("dev", device.dev))
AwgLine == Optional(device.awg # Nil, Line("awg", device.awg))
HeaderLines == DevLine \o AwgLine
PeerAnswers(ks, all) == [i \in DOMAIN ks |-> AnswerPeer(ks[i], all)]

\* Of these keys, not of an empty line's or of another kind's.
HeaderLine(line) ==
  \/ line = Line("dev", device.dev) /\ device.dev \in Values
  \/ line = Line("awg", device.awg) /\ device.awg \in Values

LEMMA HeaderLinesAre ==
  ASSUME Held
  PROVE  /\ HeaderLines \in Seq(Lines)
         /\ \A m \in 1 .. Len(HeaderLines) : HeaderLine(HeaderLines[m])
         /\ device.dev # Nil => \E m \in 1 .. Len(HeaderLines) : HeaderLines[m].key = "dev"
         /\ device.awg # Nil => \E m \in 1 .. Len(HeaderLines) : HeaderLines[m].key = "awg"
<1> DEFINE d == DevLine
           a == AwgLine
<1>1. /\ device.dev \in Values \union {Nil} /\ device.awg \in Values \union {Nil}
      /\ (device.dev # Nil) \in BOOLEAN /\ (device.awg # Nil) \in BOOLEAN
  BY DEF Held, DeviceState
<1>2. Line("dev", device.dev) \in Lines /\ Line("awg", device.awg) \in Lines
  BY <1>1 DEF Line, Lines, LineKeys, LineVals
<1>3. /\ d \in Seq(Lines) /\ Len(d) = IF device.dev # Nil THEN 1 ELSE 0
      /\ \A m \in 1 .. Len(d) : d[m] = Line("dev", device.dev)
  BY <1>1, <1>2, OptionalIs DEF DevLine
<1>4. /\ a \in Seq(Lines) /\ Len(a) = IF device.awg # Nil THEN 1 ELSE 0
      /\ \A m \in 1 .. Len(a) : a[m] = Line("awg", device.awg)
  BY <1>1, <1>2, OptionalIs DEF AwgLine
<1> HIDE DEF d, a
<1>5. /\ d \o a \in Seq(Lines) /\ Len(d \o a) = Len(d) + Len(a)
      /\ \A i \in 1 .. Len(d) : (d \o a)[i] = d[i]
      /\ \A j \in 1 .. Len(a) : (d \o a)[Len(d) + j] = a[j]
  <2>1. d \in Seq(Lines) /\ a \in Seq(Lines)
    BY <1>3, <1>4
  <2> QED BY ONLY <2>1, Concatenation
<1> DEFINE h == d \o a
<1> HIDE DEF h
<1>6. ASSUME NEW m \in 1 .. Len(h) PROVE HeaderLine(h[m])
  <2>1. CASE m \in 1 .. Len(d)
    <3>1. h[m] = Line("dev", device.dev)
      BY <1>3, <1>5, <2>1 DEF h
    <3>2. device.dev # Nil
      BY <1>3, <2>1
    <3> QED BY <1>1, <3>1, <3>2 DEF HeaderLine
  <2>2. CASE m \notin 1 .. Len(d)
    <3>1. m - Len(d) \in 1 .. Len(a) /\ m = Len(d) + (m - Len(d))
      BY <1>3, <1>4, <1>5, <2>2 DEF h
    <3>2. h[m] = Line("awg", device.awg)
      BY <1>4, <1>5, <3>1 DEF h
    <3>3. device.awg # Nil
      BY <1>4, <3>1
    <3> QED BY <1>1, <3>2, <3>3 DEF HeaderLine
  <2> QED BY <2>1, <2>2
<1>7. ASSUME device.dev # Nil PROVE \E m \in 1 .. Len(h) : h[m].key = "dev"
  <2>1. 1 \in 1 .. Len(d) /\ 1 \in 1 .. Len(h)
    BY <1>3, <1>4, <1>5, <1>7 DEF h
  <2>2. h[1] = Line("dev", device.dev)
    BY <1>3, <1>5, <2>1 DEF h
  <2> QED BY <2>1, <2>2 DEF Line
<1>8. ASSUME device.awg # Nil PROVE \E m \in 1 .. Len(h) : h[m].key = "awg"
  <2>1. 1 \in 1 .. Len(a) /\ Len(d) + 1 \in 1 .. Len(h)
    BY <1>3, <1>4, <1>5, <1>8 DEF h
  <2>2. h[Len(d) + 1] = Line("awg", device.awg)
    BY <1>4, <1>5, <2>1 DEF h
  <2> QED BY <2>1, <2>2 DEF Line
<1>9. h \in Seq(Lines)
  BY <1>5 DEF h
<1> QED BY <1>6, <1>7, <1>8, <1>9 DEF h, d, a, HeaderLines

\* The lines of a peer.
LEMMA AnswerPeerIs ==
  ASSUME Held, NEW k \in DOMAIN device.peers, NEW all \in BOOLEAN
  PROVE  /\ AnswerPeer(k, all) \in Seq(Lines)
         /\ Len(AnswerPeer(k, all)) = 1 + Len(FieldLines(k, all))
         /\ AnswerPeer(k, all)[1] = Line("public_key", k)
         /\ \A m \in 1 .. Len(FieldLines(k, all)) :
              AnswerPeer(k, all)[1 + m] = FieldLines(k, all)[m]
<1> DEFINE F == FieldLines(k, all)
           t == <<Line("public_key", k)>>
<1>1. AnswerPeer(k, all) = t \o F
  BY DEF AnswerPeer, FieldLines, OptsLine, SecLine, NsecLine, IPLines, IPOrder
<1>2. F \in Seq(Lines)
  BY FieldLinesAre
<1>3. k \in Keys
  BY DEF Held, DeviceState, PeerStates
<1>4. t \in Seq(Lines) /\ Len(t) = 1 /\ t[1] = Line("public_key", k)
  BY <1>3 DEF Line, Lines, LineKeys, LineVals
<1> HIDE DEF F, t
<1>5. /\ t \o F \in Seq(Lines) /\ Len(t \o F) = Len(t) + Len(F)
      /\ \A i \in 1 .. Len(t) : (t \o F)[i] = t[i]
      /\ \A j \in 1 .. Len(F) : (t \o F)[Len(t) + j] = F[j]
  <2>1. t \in Seq(Lines) /\ F \in Seq(Lines)
    BY <1>2, <1>4
  <2> QED BY ONLY <2>1, Concatenation
<1>6. (t \o F)[1] = Line("public_key", k) /\ \A m \in 1 .. Len(F) : (t \o F)[1 + m] = F[m]
  BY <1>4, <1>5
<1> QED BY <1>1, <1>4, <1>5, <1>6 DEF F

\* The whole of a good answer, and where its lines are: e[i] is the place of
\* the last line of the i-th peer, e[0] that of the header.
Wire(ks, all) == Answer(ks, all) \o Errno(0)

Places(ks, all, e) ==
  /\ e \in [0 .. Len(ks) -> Nat]
  /\ e[0] = Len(HeaderLines)
  /\ Len(Wire(ks, all)) = e[Len(ks)] + 2
  /\ \A m \in 1 .. e[0] : m < Len(Wire(ks, all)) /\ Wire(ks, all)[m] = HeaderLines[m]
  /\ \A i \in 1 .. Len(ks) :
       /\ e[i] = e[i - 1] + 1 + Len(FieldLines(ks[i], all))
       /\ e[i] < Len(Wire(ks, all))
       /\ Wire(ks, all)[e[i - 1] + 1] = Line("public_key", ks[i])
       /\ \A m \in 1 .. Len(FieldLines(ks[i], all)) :
            Wire(ks, all)[e[i - 1] + 1 + m] = FieldLines(ks[i], all)[m]
  /\ Wire(ks, all)[e[Len(ks)] + 1] = Line("errno", 0)
  /\ Wire(ks, all)[e[Len(ks)] + 2] = EmptyLine

\* An order of the peers.
Order(ks) == /\ ks \in Seq(DOMAIN device.peers)
             /\ Len(ks) = Cardinality(DOMAIN device.peers)
             /\ \A k \in DOMAIN device.peers : \E i \in DOMAIN ks : ks[i] = k

LEMMA OtherKey ==
  ASSUME NEW k, NEW line, OtherLine(k, line)
  PROVE  line.key \in {"opts", "sec", "nsec"}
<1> DEFINE x == device.peers[k].opts
           y == shake[k][1]
           z == shake[k][2]
<1>1. line = Line("opts", x) \/ line = Line("sec", y) \/ line = Line("nsec", z)
  BY DEF OtherLine
<1> HIDE DEF x, y, z
<1> QED BY ONLY <1>1 DEF Line

LEMMA WireIs ==
  ASSUME Held, NEW ks, Order(ks), NEW all \in BOOLEAN
  PROVE  /\ Answer(ks, all) \in Seq(Lines) /\ Wire(ks, all) \in Seq(Lines)
         /\ \A j \in 1 .. Len(Answer(ks, all)) : Answer(ks, all)[j] # EmptyLine
         /\ \E e : Places(ks, all, e)
<1> DEFINE N == Len(ks)
           P == PeerAnswers(ks, all)
           h == HeaderLines
           f == FlattenSeq(P)
           a == h \o f
           r == Errno(0)
           w == a \o r
           LS == Seq(Lines)
<1>0. N \in Nat /\ DOMAIN ks = 1 .. N /\ \A i \in 1 .. N : ks[i] \in DOMAIN device.peers
  BY DEF Order
<1> HIDE DEF N
<1>1. Answer(ks, all) = a /\ Wire(ks, all) = w
  BY DEF Answer, Wire, HeaderLines, DevLine, AwgLine, PeerAnswers
<1>2. ASSUME NEW i \in 1 .. N
      PROVE  /\ P[i] \in LS /\ Len(P[i]) = 1 + Len(FieldLines(ks[i], all))
             /\ Len(FieldLines(ks[i], all)) \in Nat
             /\ FieldLines(ks[i], all) \in LS
             /\ P[i][1] = Line("public_key", ks[i])
             /\ \A m \in 1 .. Len(FieldLines(ks[i], all)) :
                  P[i][1 + m] = FieldLines(ks[i], all)[m]
  <2>1. P[i] = AnswerPeer(ks[i], all) /\ ks[i] \in DOMAIN device.peers
    BY <1>0 DEF PeerAnswers
  <2>2. FieldLines(ks[i], all) \in Seq(Lines)
    BY <2>1, FieldLinesAre
  <2> QED BY <2>1, <2>2, AnswerPeerIs
<1>3. P \in Seq(LS) /\ Len(P) = N
  <2>1. DOMAIN P = 1 .. N /\ \A i \in 1 .. N : P[i] \in LS
    BY <1>0, <1>2 DEF PeerAnswers
  <2>2. P = [i \in 1 .. N |-> P[i]]
    BY <1>0 DEF PeerAnswers
  <2> HIDE DEF P, LS
  <2> QED BY <1>0, <2>1, <2>2
<1> HIDE DEF P
<1>4. h \in LS /\ \A m \in 1 .. Len(h) : HeaderLine(h[m])
  BY HeaderLinesAre
<1>5. /\ f \in LS
      /\ \E c \in [0 .. Len(P) -> Nat] : c[0] = 0 /\ Cuts(P, Len(P), f, c)
  <2>1. P \in Seq(Seq(Lines))
    BY <1>3
  <2> QED BY ONLY <2>1, Flattened
<1>6. PICK c \in [0 .. N -> Nat] : c[0] = 0 /\ Cuts(P, N, f, c)
  BY <1>3, <1>5
<1>7. r \in LS /\ Len(r) = 2 /\ r[1] = Line("errno", 0) /\ r[2] = EmptyLine
  <2>1. Line("errno", 0) \in Lines /\ EmptyLine \in Lines
    BY DEF Line, EmptyLine, Lines, LineKeys, LineVals
  <2> QED BY <2>1 DEF Errno
<1> HIDE DEF h, f, r
<1>8. /\ a \in LS /\ Len(a) = Len(h) + Len(f)
      /\ \A i \in 1 .. Len(h) : a[i] = h[i]
      /\ \A j \in 1 .. Len(f) : a[Len(h) + j] = f[j]
  <2>1. h \in Seq(Lines) /\ f \in Seq(Lines)
    BY <1>4, <1>5
  <2> QED BY ONLY <2>1, Concatenation
<1> HIDE DEF a
<1>9. /\ w \in LS /\ Len(w) = Len(a) + Len(r)
      /\ \A i \in 1 .. Len(a) : w[i] = a[i]
      /\ \A j \in 1 .. Len(r) : w[Len(a) + j] = r[j]
  <2>1. a \in Seq(Lines) /\ r \in Seq(Lines)
    BY <1>7, <1>8
  <2> QED BY ONLY <2>1, Concatenation
<1> HIDE DEF w
<1>10. Len(h) \in Nat /\ Len(f) \in Nat /\ Len(f) = c[N] /\ c[N] \in Nat
  BY <1>0, <1>4, <1>5, <1>6 DEF Cuts
<1>11. Len(w) = Len(h) + c[N] + 2 /\ Len(a) = Len(h) + c[N] /\ Len(a) \in Nat
  BY <1>7, <1>8, <1>9, <1>10
<1>12. ASSUME NEW i \in 1 .. N
       PROVE  /\ c[i] = c[i - 1] + 1 + Len(FieldLines(ks[i], all)) /\ c[i] <= c[N]
              /\ c[i - 1] \in Nat /\ c[i] \in Nat
              /\ \A j \in 1 .. Len(P[i]) :
                   /\ Len(h) + c[i - 1] + j \in 1 .. Len(a)
                   /\ a[Len(h) + c[i - 1] + j] = P[i][j]
                   /\ w[Len(h) + c[i - 1] + j] = P[i][j]
  <2>1. i - 1 \in 0 .. N /\ i \in 0 .. N
    BY <1>0
  <2>2. c[i - 1] \in Nat /\ c[i] \in Nat
    BY <1>6, <2>1
  <2>3. /\ c[i] = c[i - 1] + Len(P[i]) /\ c[i] <= c[N]
        /\ \A j \in 1 .. Len(P[i]) : f[c[i - 1] + j] = P[i][j]
    BY <1>6 DEF Cuts
  <2>4. Len(P[i]) = 1 + Len(FieldLines(ks[i], all)) /\ Len(FieldLines(ks[i], all)) \in Nat
    BY <1>2
  <2>5. c[i] = c[i - 1] + 1 + Len(FieldLines(ks[i], all))
    <3>1. c[i] = c[i - 1] + Len(P[i])
      BY <2>3
    <3> QED BY <2>2, <2>4, <3>1
  <2>6. ASSUME NEW j \in 1 .. Len(P[i])
        PROVE  /\ Len(h) + c[i - 1] + j \in 1 .. Len(a)
               /\ a[Len(h) + c[i - 1] + j] = P[i][j]
               /\ w[Len(h) + c[i - 1] + j] = P[i][j]
    <3>0. c[i] = c[i - 1] + Len(P[i]) /\ c[i] <= c[N] /\ Len(P[i]) \in Nat
      BY <2>3, <2>4
    <3> DEFINE lh == Len(h)
               lf == Len(f)
               la == Len(a)
               lp == Len(P[i])
               x == c[i - 1]
               y == c[i]
               z == c[N]
    <3>1. x + j \in 1 .. lf /\ lh + (x + j) = lh + x + j /\ lh + x + j \in 1 .. la
      <4>1. /\ lh \in Nat /\ lf = z /\ z \in Nat /\ la = lh + z /\ x \in Nat /\ y \in Nat
            /\ y = x + lp /\ y <= z /\ lp \in Nat /\ j \in 1 .. lp
        BY <1>10, <1>11, <2>2, <3>0
      <4> HIDE DEF lh, lf, la, lp, x, y, z
      <4> QED BY ONLY <4>1
    <3>2. Len(h) + c[i - 1] + j \in 1 .. Len(a)
      BY <3>1
    <3>3. a[Len(h) + (c[i - 1] + j)] = f[c[i - 1] + j]
      BY <1>8, <3>1
    <3> QED BY <1>9, <2>3, <3>1, <3>2, <3>3
  <2> QED BY <2>2, <2>3, <2>5, <2>6
<1> DEFINE e == [i \in 0 .. N |-> Len(h) + c[i]]
<1>13. /\ e \in [0 .. N -> Nat] /\ e[0] = Len(h) /\ e[N] = Len(h) + c[N]
       /\ \A i \in 0 .. N : e[i] = Len(h) + c[i]
  BY <1>0, <1>6, <1>10
<1> HIDE DEF e
<1>14. \A m \in 1 .. e[0] : m < Len(w) /\ w[m] = h[m]
  <2> TAKE m \in 1 .. e[0]
  <2>1. m < Len(w) /\ m \in 1 .. Len(h) /\ m \in 1 .. Len(a)
    BY <1>10, <1>11, <1>13
  <2> QED BY <1>8, <1>9, <2>1
<1>15. ASSUME NEW i \in 1 .. N
       PROVE  /\ e[i] = e[i - 1] + 1 + Len(FieldLines(ks[i], all))
              /\ e[i] < Len(w)
              /\ w[e[i - 1] + 1] = Line("public_key", ks[i])
              /\ \A m \in 1 .. Len(FieldLines(ks[i], all)) :
                   w[e[i - 1] + 1 + m] = FieldLines(ks[i], all)[m]
  <2> DEFINE L == Len(FieldLines(ks[i], all))
  <2>1. L \in Nat /\ Len(P[i]) = 1 + L
    BY <1>2
  <2>2. e[i] = Len(h) + c[i] /\ e[i - 1] = Len(h) + c[i - 1]
    <3>1. i - 1 \in 0 .. N /\ i \in 0 .. N
      BY <1>0
    <3> QED BY <1>13, <3>1
  <2>3. c[i] = c[i - 1] + 1 + L /\ c[i] <= c[N] /\ c[i - 1] \in Nat /\ c[i] \in Nat
    BY <1>12
  <2> HIDE DEF L
  <2>4. e[i] = e[i - 1] + 1 + L /\ e[i] < Len(w)
    <3> DEFINE lh == Len(h)
               lw == Len(w)
               x == c[i - 1]
               y == c[i]
               z == c[N]
               u == e[i - 1]
               v == e[i]
    <3>1. /\ lh \in Nat /\ z \in Nat /\ lw = lh + z + 2 /\ L \in Nat /\ v = lh + y
          /\ u = lh + x /\ y = x + 1 + L /\ y <= z /\ x \in Nat /\ y \in Nat
      BY <1>10, <1>11, <2>1, <2>2, <2>3
    <3> HIDE DEF lh, lw, x, y, z, u, v
    <3>2. v = u + 1 + L /\ v < lw
      BY ONLY <3>1
    <3> QED BY <3>2 DEF lw, u, v
  <2>5. w[e[i - 1] + 1] = Line("public_key", ks[i])
    <3>1. 1 \in 1 .. Len(P[i])
      BY <2>1
    <3> QED BY <1>2, <1>12, <2>2, <3>1
  <2>6. ASSUME NEW m \in 1 .. L
        PROVE  w[e[i - 1] + 1 + m] = FieldLines(ks[i], all)[m]
    <3>1. 1 + m \in 1 .. Len(P[i]) /\ Len(h) + c[i - 1] + (1 + m) = e[i - 1] + 1 + m
      <4> DEFINE lh == Len(h)
                 lp == Len(P[i])
                 x == c[i - 1]
                 u == e[i - 1]
      <4>1. lh \in Nat /\ lp = 1 + L /\ L \in Nat /\ u = lh + x /\ x \in Nat /\ m \in 1 .. L
        BY <1>10, <2>1, <2>2, <2>3
      <4> HIDE DEF lh, lp, x, u
      <4>2. 1 + m \in 1 .. lp /\ lh + x + (1 + m) = u + 1 + m
        BY ONLY <4>1
      <4> QED BY <4>2 DEF lh, lp, x, u
    <3>2. w[Len(h) + c[i - 1] + (1 + m)] = P[i][1 + m]
      BY <1>12, <3>1
    <3>3. P[i][1 + m] = FieldLines(ks[i], all)[m]
      BY <1>2 DEF L
    <3> QED BY <3>1, <3>2, <3>3
  <2> QED BY <2>4, <2>5, <2>6 DEF L
<1>16. w[e[N] + 1] = Line("errno", 0) /\ w[e[N] + 2] = EmptyLine
  <2>1. e[N] = Len(a) /\ 1 \in 1 .. Len(r) /\ 2 \in 1 .. Len(r)
    BY <1>7, <1>11, <1>13
  <2> QED BY <1>7, <1>9, <2>1
<1>17. Len(w) = e[N] + 2
  BY <1>11, <1>13
<1>18. Places(ks, all, e)
  BY <1>1, <1>13, <1>14, <1>15, <1>16, <1>17 DEF Places, h, N
<1>19. ASSUME NEW j \in 1 .. Len(a) PROVE a[j] # EmptyLine
  <2>1. CASE j \in 1 .. Len(h)
    <3>1. HeaderLine(a[j])
      BY <1>4, <1>8, <2>1
    <3>2. a[j].key \in {"dev", "awg"}
      BY <3>1 DEF HeaderLine, Line
    <3> QED BY <3>2 DEF Line, EmptyLine
  <2>2. CASE j \notin 1 .. Len(h)
    <3>1. j - Len(h) \in 1 .. c[N] /\ j = Len(h) + (j - Len(h))
      BY <1>10, <1>11, <2>2
    <3>2. \E i \in 1 .. N : c[i - 1] < j - Len(h) /\ j - Len(h) <= c[i]
      <4> DEFINE x == j - Len(h)
                 T == {i \in 0 .. N : x <= c[i]}
      <4>0. x \in 1 .. c[N]
        BY <3>1
      <4> HIDE DEF x
      <4>1. T \in SUBSET Nat /\ N \in T
        BY <1>0, <1>10, <4>0
      <4>2. PICK i \in T : \A m \in T : i <= m
        <5> HIDE DEF T
        <5> QED BY <4>1, LeastMember
      <4>3. i \in 1 .. N /\ i - 1 \in 0 .. N /\ ~ (i <= i - 1)
        BY <1>0, <1>6, <4>0, <4>2
      <4>4. c[i - 1] < x
        <5>1. c[i - 1] \in Nat
          BY <1>6, <4>3
        <5>2. ~ (x <= c[i - 1])
          BY <4>2, <4>3
        <5> QED BY <4>0, <5>1, <5>2
      <4> QED BY <4>2, <4>3, <4>4 DEF x
    <3>3. PICK i \in 1 .. N : c[i - 1] < j - Len(h) /\ j - Len(h) <= c[i]
      BY <3>2
    <3> DEFINE q == j - Len(h) - c[i - 1]
               L == Len(FieldLines(ks[i], all))
    <3>4. c[i] = c[i - 1] + 1 + L /\ c[i - 1] \in Nat /\ c[i] \in Nat /\ L \in Nat /\ Len(P[i]) = 1 + L
      BY <1>2, <1>12
    <3> HIDE DEF L
    <3>5. q \in 1 .. Len(P[i]) /\ Len(h) + c[i - 1] + q = j
      <4>1. j \in Nat
        OBVIOUS
      <4> DEFINE lh == Len(h)
                 lp == Len(P[i])
                 x == c[i - 1]
                 y == c[i]
      <4>2. /\ lh \in Nat /\ lp = 1 + L /\ L \in Nat /\ x \in Nat /\ y \in Nat /\ y = x + 1 + L
            /\ x < j - lh /\ j - lh <= y
        BY <1>10, <3>3, <3>4
      <4> HIDE DEF lh, lp, x, y
      <4>3. j - lh - x \in 1 .. lp /\ lh + x + (j - lh - x) = j
        BY ONLY <4>1, <4>2
      <4> QED BY <4>3 DEF lh, lp, x
    <3> HIDE DEF q
    <3>6. a[j] = P[i][q]
      BY <1>12, <3>5
    <3>7. CASE q = 1
      <4>1. a[j].key = "public_key"
        <5>1. P[i][1] = Line("public_key", ks[i])
          BY <1>2
        <5>2. a[j] = Line("public_key", ks[i])
          BY <3>6, <3>7, <5>1
        <5> QED BY <5>2 DEF Line
      <4> QED BY <4>1 DEF Line, EmptyLine
    <3>8. CASE q # 1
      <4>1. q - 1 \in 1 .. L /\ 1 + (q - 1) = q
        BY <3>4, <3>5, <3>8
      <4>2. P[i][1 + (q - 1)] = FieldLines(ks[i], all)[q - 1]
        BY <1>2, <4>1 DEF L
      <4>3. \/ OtherLine(ks[i], FieldLines(ks[i], all)[q - 1])
            \/ \E n \in 1 .. Len(IPOrder(ks[i])) :
                 FieldLines(ks[i], all)[q - 1] = Line("allowed_ip", IPOrder(ks[i])[n])
        <5>1. ks[i] \in DOMAIN device.peers
          BY <1>0
        <5>2. q - 1 \in 1 .. Len(FieldLines(ks[i], all))
          BY <4>1 DEF L
        <5> QED BY <5>1, <5>2, FieldLinesAre
      <4>4. a[j].key \in {"opts", "sec", "nsec", "allowed_ip"}
        <5>1. a[j] = FieldLines(ks[i], all)[q - 1]
          BY <3>6, <4>1, <4>2
        <5>2. \/ OtherLine(ks[i], a[j])
              \/ \E n \in 1 .. Len(IPOrder(ks[i])) : a[j] = Line("allowed_ip", IPOrder(ks[i])[n])
          BY <4>3, <5>1
        <5>3. CASE OtherLine(ks[i], a[j])
          BY <5>3, OtherKey
        <5>4. CASE \E n \in 1 .. Len(IPOrder(ks[i])) : a[j] = Line("allowed_ip", IPOrder(ks[i])[n])
          BY ONLY <5>4 DEF Line
        <5> QED BY <5>2, <5>3, <5>4
      <4> QED BY <4>4 DEF Line, EmptyLine
    <3> QED BY <3>7, <3>8
  <2> QED BY <2>1, <2>2
<1> QED BY <1>1, <1>8, <1>9, <1>18, <1>19

-----------------------------------------------------------------------------
(* UAPI: what the client has read.                                         *)

ParsedPeer == [key : Keys, opts : Opts \union {Nil}, ips : Seq(IPs), time : Nat \X Nat]
ParserOver(V, P) == [dev : V, awg : V, peers : Seq(P), sec : Nat, nsec : Nat, err : BOOLEAN]
ParserState == ParserOver(Values \union {Nil}, ParsedPeer)

\* The peer whose lines are being read, and the parser once it is y instead.
LastPeer(p) == p.peers[Len(p.peers)]
WithLast(p, y, s, ns) ==
  [dev |-> p.dev, awg |-> p.awg, peers |-> [p.peers EXCEPT ![Len(p.peers)] = y],
   sec |-> s, nsec |-> ns, err |-> FALSE]

LEMMA WithLastIs ==
  ASSUME NEW p \in ParserState, p.peers # <<>>, NEW y \in ParsedPeer, NEW s \in Nat, NEW ns \in Nat
  PROVE  /\ WithLast(p, y, s, ns) \in ParserState
         /\ WithLast(p, y, s, ns).dev = p.dev /\ WithLast(p, y, s, ns).awg = p.awg
         /\ WithLast(p, y, s, ns).sec = s /\ WithLast(p, y, s, ns).nsec = ns
         /\ ~ WithLast(p, y, s, ns).err
         /\ Len(WithLast(p, y, s, ns).peers) = Len(p.peers)
         /\ LastPeer(WithLast(p, y, s, ns)) = y
         /\ \A j \in 1 .. (Len(p.peers) - 1) : WithLast(p, y, s, ns).peers[j] = p.peers[j]
<1> DEFINE ps == p.peers
           n == Len(ps)
           t == [ps EXCEPT ![n] = y]
<1>1. ps \in Seq(ParsedPeer) /\ ps # <<>> /\ p.dev \in Values \union {Nil} /\ p.awg \in Values \union {Nil}
  BY DEF ParserState, ParserOver
<1>2. n \in Nat /\ n \in 1 .. n /\ DOMAIN ps = 1 .. n
  BY <1>1
<1>3. /\ t \in Seq(ParsedPeer) /\ Len(t) = n /\ t[n] = y
      /\ \A j \in 1 .. (n - 1) : t[j] = ps[j]
  BY <1>1, <1>2
<1> DEFINE q == WithLast(p, y, s, ns)
<1>4. /\ q = [dev |-> p.dev, awg |-> p.awg, peers |-> t, sec |-> s, nsec |-> ns, err |-> FALSE]
      /\ q.peers = t /\ q.dev = p.dev /\ q.awg = p.awg /\ q.sec = s /\ q.nsec = ns /\ q.err = FALSE
  BY DEF WithLast
<1> HIDE DEF ps, n, t, q
<1>5. q \in ParserState
  BY <1>1, <1>3, <1>4 DEF ParserState, ParserOver
<1>6. LastPeer(q) = y
  BY <1>3, <1>4 DEF LastPeer
<1> QED BY <1>3, <1>4, <1>5, <1>6 DEF ps, n, q
\* A parser with other peers, or another time.
Parser(d, a, ps, s, ns, e) ==
  [dev |-> d, awg |-> a, peers |-> ps, sec |-> s, nsec |-> ns, err |-> e]
WithPeers(p, t) == [p EXCEPT !.peers = t]
WithSec(p, x)   == [p EXCEPT !.sec = x]
WithNsec(p, x)  == [p EXCEPT !.nsec = x]

LEMMA ParserIs ==
  ASSUME NEW p \in ParserState
  PROVE  p = Parser(p.dev, p.awg, p.peers, p.sec, p.nsec, p.err)
BY DEF ParserState, ParserOver, Parser

LEMMA WithPeersIs ==
  ASSUME NEW p \in ParserState, NEW t \in Seq(ParsedPeer)
  PROVE  WithPeers(p, t) = Parser(p.dev, p.awg, t, p.sec, p.nsec, p.err)
<1>1. /\ WithPeers(p, t) \in ParserState
      /\ WithPeers(p, t).dev = p.dev /\ WithPeers(p, t).awg = p.awg /\ WithPeers(p, t).peers = t
      /\ WithPeers(p, t).sec = p.sec /\ WithPeers(p, t).nsec = p.nsec /\ WithPeers(p, t).err = p.err
  BY DEF WithPeers, ParserState, ParserOver
<1> QED BY ONLY <1>1, ParserIs

LEMMA WithSecIs ==
  ASSUME NEW p \in ParserState, NEW x \in Nat
  PROVE  /\ WithSec(p, x) \in ParserState
         /\ WithSec(p, x).dev = p.dev /\ WithSec(p, x).awg = p.awg /\ WithSec(p, x).peers = p.peers
         /\ WithSec(p, x).sec = x /\ WithSec(p, x).nsec = p.nsec /\ WithSec(p, x).err = p.err
BY DEF WithSec, ParserState, ParserOver

LEMMA WithNsecIs ==
  ASSUME NEW p \in ParserState, NEW x \in Nat
  PROVE  /\ WithNsec(p, x) \in ParserState
         /\ WithNsec(p, x).dev = p.dev /\ WithNsec(p, x).awg = p.awg /\ WithNsec(p, x).peers = p.peers
         /\ WithNsec(p, x).sec = p.sec /\ WithNsec(p, x).nsec = x /\ WithNsec(p, x).err = p.err
BY DEF WithNsec, ParserState, ParserOver

\* Each kind of a peer's lines.
LEMMA ParseField ==
  ASSUME NEW p \in ParserState, ~ p.err, p.peers # <<>>, NEW v, v # Garbled
  PROVE  /\ v \in Opts =>
              Parse(p, Line("opts", v)) = WithLast(p, [LastPeer(p) EXCEPT !.opts = v], p.sec, p.nsec)
         /\ v \in Nat =>
              Parse(p, Line("sec", v)) = WithLast(p, [LastPeer(p) EXCEPT !.time = <<v, p.nsec>>], v, p.nsec)
         /\ v \in Nat =>
              Parse(p, Line("nsec", v)) = WithLast(p, [LastPeer(p) EXCEPT !.time = <<p.sec, v>>], p.sec, v)
         /\ v \in IPs =>
              Parse(p, Line("allowed_ip", v))
                = WithLast(p, [LastPeer(p) EXCEPT !.ips = Append(@, v)], p.sec, p.nsec)
<1> DEFINE n == Len(p.peers)
           x == LastPeer(p)
           o == [x EXCEPT !.opts = v]
           i == [x EXCEPT !.ips = Append(@, v)]
           u == [x EXCEPT !.time = <<v, p.nsec>>]
           w == [x EXCEPT !.time = <<p.sec, v>>]
           L(y) == [p.peers EXCEPT ![n] = y]
<1>1. ASSUME NEW key \in {"opts", "sec", "nsec", "allowed_ip"}
      PROVE  Parse(p, Line(key, v)) = PeerParse(p, Line(key, v))
  BY <1>1 DEF Parse, Line
<1>2. Parse(p, Line("opts", v)) = WithPeers(p, L(o))
  <2>1. PeerParse(p, Line("opts", v)) = WithPeers(p, L(o))
    BY DEF PeerParse, Line, LastPeer, ParserState, ParserOver, WithPeers
  <2> QED BY <1>1, <2>1
<1>3. Parse(p, Line("allowed_ip", v)) = WithPeers(p, L(i))
  <2>1. PeerParse(p, Line("allowed_ip", v)) = WithPeers(p, L(i))
    BY DEF PeerParse, Line, LastPeer, ParserState, ParserOver, WithPeers
  <2> QED BY <1>1, <2>1
<1>4. Parse(p, Line("sec", v)) = WithPeers(WithSec(p, v), L(u))
  <2>1. PeerParse(p, Line("sec", v)) = WithPeers(WithSec(p, v), L(u))
    BY DEF PeerParse, Line, LastPeer, ParserState, ParserOver, SetHandshake, WithPeers, WithSec
  <2> QED BY <1>1, <2>1
<1>5. Parse(p, Line("nsec", v)) = WithPeers(WithNsec(p, v), L(w))
  <2>1. PeerParse(p, Line("nsec", v)) = WithPeers(WithNsec(p, v), L(w))
    BY DEF PeerParse, Line, LastPeer, ParserState, ParserOver, SetHandshake, WithPeers, WithNsec
  <2> QED BY <1>1, <2>1
<1>6. \A y, s, ns : WithLast(p, y, s, ns) = Parser(p.dev, p.awg, L(y), s, ns, FALSE)
  BY DEF WithLast, Parser
<1>7. x \in ParsedPeer /\ \A y \in ParsedPeer : L(y) \in Seq(ParsedPeer)
  BY DEF LastPeer, ParserState, ParserOver
<1>8. p.sec \in Nat /\ p.nsec \in Nat /\ p.err = FALSE
  BY DEF ParserState, ParserOver
<1> HIDE DEF n, x, L
<1>9. ASSUME v \in Opts
      PROVE  Parse(p, Line("opts", v)) = WithLast(p, o, p.sec, p.nsec)
  <2>1. o \in ParsedPeer
    BY <1>7, <1>9 DEF ParsedPeer
  <2> HIDE DEF o
  <2>2. L(o) \in Seq(ParsedPeer)
    BY <1>7, <2>1
  <2>3. WithPeers(p, L(o)) = Parser(p.dev, p.awg, L(o), p.sec, p.nsec, p.err)
    BY <2>2, WithPeersIs
  <2> QED BY <1>2, <1>6, <1>8, <2>3
<1>10. ASSUME v \in IPs
       PROVE  Parse(p, Line("allowed_ip", v)) = WithLast(p, i, p.sec, p.nsec)
  <2> DEFINE a == Append(x.ips, v)
  <2>1. a \in Seq(IPs)
    BY <1>7, <1>10 DEF ParsedPeer
  <2> HIDE DEF a
  <2>2. [x EXCEPT !.ips = a] \in ParsedPeer
    BY <1>7, <2>1 DEF ParsedPeer
  <2>3. i \in ParsedPeer
    BY <2>2 DEF a
  <2> HIDE DEF i
  <2>4. L(i) \in Seq(ParsedPeer)
    BY <1>7, <2>3
  <2>5. WithPeers(p, L(i)) = Parser(p.dev, p.awg, L(i), p.sec, p.nsec, p.err)
    BY <2>4, WithPeersIs
  <2> QED BY <1>3, <1>6, <1>8, <2>5
<1>11. ASSUME v \in Nat
       PROVE  Parse(p, Line("sec", v)) = WithLast(p, u, v, p.nsec)
  <2>1. u \in ParsedPeer
    BY <1>7, <1>8, <1>11 DEF ParsedPeer
  <2> HIDE DEF u
  <2>2. L(u) \in Seq(ParsedPeer)
    BY <1>7, <2>1
  <2> DEFINE q == WithSec(p, v)
  <2>3. /\ q \in ParserState /\ q.dev = p.dev /\ q.awg = p.awg /\ q.sec = v
        /\ q.nsec = p.nsec /\ q.err = p.err
    BY <1>11, WithSecIs
  <2> HIDE DEF q
  <2>4. WithPeers(q, L(u)) = Parser(q.dev, q.awg, L(u), q.sec, q.nsec, q.err)
    BY <2>2, <2>3, WithPeersIs
  <2> QED BY <1>4, <1>6, <1>8, <2>3, <2>4 DEF q
<1>12. ASSUME v \in Nat
       PROVE  Parse(p, Line("nsec", v)) = WithLast(p, w, p.sec, v)
  <2>1. w \in ParsedPeer
    BY <1>7, <1>8, <1>12 DEF ParsedPeer
  <2> HIDE DEF w
  <2>2. L(w) \in Seq(ParsedPeer)
    BY <1>7, <2>1
  <2> DEFINE q == WithNsec(p, v)
  <2>3. /\ q \in ParserState /\ q.dev = p.dev /\ q.awg = p.awg /\ q.sec = p.sec
        /\ q.nsec = v /\ q.err = p.err
    BY <1>12, WithNsecIs
  <2> HIDE DEF q
  <2>4. WithPeers(q, L(w)) = Parser(q.dev, q.awg, L(w), q.sec, q.nsec, q.err)
    BY <2>2, <2>3, WithPeersIs
  <2> QED BY <1>5, <1>6, <1>8, <2>3, <2>4 DEF q
<1> QED BY <1>9, <1>10, <1>11, <1>12 DEF x

\* The line that begins a peer.
Begun(k) == [key |-> k, opts |-> Nil, ips |-> <<>>, time |-> NoTime]

LEMMA ParseKey ==
  ASSUME NEW p \in ParserState, ~ p.err, NEW k \in Keys
  PROVE  Parse(p, Line("public_key", k))
           = Parser(p.dev, p.awg, Append(p.peers, Begun(k)), 0, 0, FALSE)
<1>1. k # Garbled
  BY GarbledAssumption
<1>2. Parse(p, Line("public_key", k)) = StartPeer(p, k)
  BY <1>1 DEF Parse, Line
<1> DEFINE ps == Append(p.peers, Begun(k))
<1>3. StartPeer(p, k) = WithPeers(WithNsec(WithSec(p, 0), 0), ps)
  BY DEF StartPeer, Begun, WithPeers, WithNsec, WithSec, ParserState, ParserOver
<1>4. Begun(k) \in ParsedPeer
  BY DEF Begun, ParsedPeer, NoTime
<1>5. ps \in Seq(ParsedPeer)
  BY <1>4 DEF ParserState, ParserOver
<1> HIDE DEF ps
<1> DEFINE q == WithSec(p, 0)
           r == WithNsec(q, 0)
<1>6. q \in ParserState /\ q.dev = p.dev /\ q.awg = p.awg /\ q.sec = 0 /\ q.err = p.err
  BY WithSecIs
<1> HIDE DEF q
<1>7. r \in ParserState /\ r.dev = q.dev /\ r.awg = q.awg /\ r.sec = q.sec /\ r.nsec = 0 /\ r.err = q.err
  BY <1>6, WithNsecIs
<1> HIDE DEF r
<1>8. WithPeers(r, ps) = Parser(r.dev, r.awg, ps, r.sec, r.nsec, r.err)
  BY <1>5, <1>7, WithPeersIs
<1>9. p.err = FALSE
  BY DEF ParserState, ParserOver
<1> QED BY <1>2, <1>3, <1>6, <1>7, <1>8, <1>9 DEF ps, q, r

\* A line of the device's own.
LEMMA ParseHeader ==
  ASSUME NEW p \in ParserState, ~ p.err, p.peers = <<>>, NEW v \in Values
  PROVE  /\ Parse(p, Line("dev", v)) = Parser(v, p.awg, <<>>, p.sec, p.nsec, FALSE)
         /\ Parse(p, Line("awg", v)) = Parser(p.dev, v, <<>>, p.sec, p.nsec, FALSE)
<1>1. v # Garbled
  BY GarbledAssumption
<1>2. /\ Parse(p, Line("dev", v)) = [p EXCEPT !.dev = v]
      /\ Parse(p, Line("awg", v)) = [p EXCEPT !.awg = v]
  BY <1>1 DEF Parse, Line
<1> DEFINE q == [p EXCEPT !.dev = v]
           r == [p EXCEPT !.awg = v]
<1>3. /\ q \in ParserState /\ q.dev = v /\ q.awg = p.awg /\ q.peers = p.peers
      /\ q.sec = p.sec /\ q.nsec = p.nsec /\ q.err = FALSE
  BY DEF ParserState, ParserOver
<1>4. /\ r \in ParserState /\ r.dev = p.dev /\ r.awg = v /\ r.peers = p.peers
      /\ r.sec = p.sec /\ r.nsec = p.nsec /\ r.err = FALSE
  BY DEF ParserState, ParserOver
<1> HIDE DEF q, r
<1>5. q = Parser(v, p.awg, <<>>, p.sec, p.nsec, FALSE)
  BY <1>3, ParserIs
<1>6. r = Parser(p.dev, v, <<>>, p.sec, p.nsec, FALSE)
  BY <1>4, ParserIs
<1> QED BY <1>2, <1>5, <1>6 DEF q, r

\* "errno=0" tells nothing.
LEMMA ParseErrno ==
  ASSUME NEW p \in ParserState, ~ p.err
  PROVE  Parse(p, Line("errno", 0)) = p
<1>1. Garbled # 0
  BY GarbledAssumption
<1> QED BY <1>1 DEF Parse, PeerParse, Line

-----------------------------------------------------------------------------
(* UAPI: how far the client has come with a peer.                          *)

\* What is known after the first m of the lines that a line of this key
\* tells.
KnownBy(fields, m, key, told, none) ==
  IF \E q \in 1 .. m : fields[q].key = key THEN told ELSE none

\* So many of its allowed IPs are among its first m lines.
TakenIPs(k, all, m) ==
  IF m <= BeforeIPs(k, all) THEN 0
  ELSE IF m <= BeforeIPs(k, all) + Len(IPOrder(k)) THEN m - BeforeIPs(k, all)
  ELSE Len(IPOrder(k))

\* The last peer of the parser p is the daemon's k after its first m lines.
Partly(k, all, m, p) ==
  LET x == LastPeer(p)
      F == FieldLines(k, all)
  IN  /\ x.key = k
      /\ x.opts = KnownBy(F, m, "opts", device.peers[k].opts, Nil)
      /\ p.sec = KnownBy(F, m, "sec", shake[k][1], 0)
      /\ p.nsec = KnownBy(F, m, "nsec", shake[k][2], 0)
      /\ x.time = <<p.sec, p.nsec>>
      /\ Len(x.ips) = TakenIPs(k, all, m)
      /\ \A j \in 1 .. Len(x.ips) : x.ips[j] = IPOrder(k)[j]

\* What is known after one more line.
KnownOnceMore(fields, m, key, told, none) ==
  /\ fields[m + 1].key = key => KnownBy(fields, m + 1, key, told, none) = told
  /\ fields[m + 1].key # key =>
       KnownBy(fields, m + 1, key, told, none) = KnownBy(fields, m, key, told, none)

LEMMA KnownNext ==
  ASSUME NEW m \in Nat, NEW fields, NEW key, NEW told, NEW none
  PROVE  KnownOnceMore(fields, m, key, told, none)
<1>1. \A q : q \in 1 .. (m + 1) <=> q \in 1 .. m \/ q = m + 1
  OBVIOUS
<1> QED BY <1>1, Zenon DEF KnownBy, KnownOnceMore

LEMMA TakenNext ==
  ASSUME Held, NEW k \in DOMAIN device.peers, NEW all \in BOOLEAN, NEW m \in Nat
  PROVE  /\ \A j \in 1 .. Len(IPOrder(k)) :
              m + 1 = BeforeIPs(k, all) + j
                => TakenIPs(k, all, m) = j - 1 /\ TakenIPs(k, all, m + 1) = j
         /\ (~ \E j \in 1 .. Len(IPOrder(k)) : m + 1 = BeforeIPs(k, all) + j)
              => TakenIPs(k, all, m + 1) = TakenIPs(k, all, m)
         /\ TakenIPs(k, all, m) \in Nat
<1> DEFINE b == BeforeIPs(k, all)
           l == Len(IPOrder(k))
           T(n) == IF n <= b THEN 0 ELSE IF n <= b + l THEN n - b ELSE l
<1>1. b \in Nat /\ l \in Nat
  BY FieldLinesAre, IPOrderIs
<1>2. \A n : TakenIPs(k, all, n) = T(n)
  BY DEF TakenIPs
<1> HIDE DEF b, l
<1>3. ASSUME NEW j \in 1 .. l, m + 1 = b + j PROVE T(m) = j - 1 /\ T(m + 1) = j
  BY <1>1, <1>3
<1>4. ASSUME ~ \E j \in 1 .. l : m + 1 = b + j PROVE T(m + 1) = T(m)
  <2>1. m + 1 <= b \/ m + 1 > b + l
    <3> SUFFICES ASSUME m + 1 > b, m + 1 <= b + l PROVE FALSE
      BY <1>1
    <3>1. m + 1 - b \in 1 .. l /\ m + 1 = b + (m + 1 - b)
      BY <1>1
    <3> QED BY <1>4, <3>1
  <2> QED BY <1>1, <2>1
<1>5. T(m) \in Nat
  BY <1>1
<1> HIDE DEF T
<1> QED BY <1>2, <1>3, <1>4, <1>5 DEF b, l

\* What the parser makes of the peer's next line.
LEMMA PartlyStep ==
  ASSUME Held, NEW k \in DOMAIN device.peers, NEW all \in BOOLEAN,
         NEW m \in Nat, m < Len(FieldLines(k, all)),
         NEW p \in ParserState, ~ p.err, p.peers # <<>>, Partly(k, all, m, p)
  PROVE  LET q == Parse(p, FieldLines(k, all)[m + 1])
         IN  /\ q \in ParserState /\ ~ q.err /\ q.dev = p.dev /\ q.awg = p.awg
             /\ Len(q.peers) = Len(p.peers)
             /\ \A j \in 1 .. (Len(p.peers) - 1) : q.peers[j] = p.peers[j]
             /\ Partly(k, all, m + 1, q)
<1> DEFINE F == FieldLines(k, all)
           line == F[m + 1]
           x == LastPeer(p)
           q == Parse(p, line)
           O(n) == KnownBy(F, n, "opts", device.peers[k].opts, Nil)
           S(n) == KnownBy(F, n, "sec", shake[k][1], 0)
           N(n) == KnownBy(F, n, "nsec", shake[k][2], 0)
           T(n) == TakenIPs(k, all, n)
           Goal == /\ q \in ParserState /\ ~ q.err /\ q.dev = p.dev /\ q.awg = p.awg
                   /\ Len(q.peers) = Len(p.peers)
                   /\ \A j \in 1 .. (Len(p.peers) - 1) : q.peers[j] = p.peers[j]
                   /\ Partly(k, all, m + 1, q)
<1>1. /\ x.key = k /\ x.opts = O(m) /\ p.sec = S(m) /\ p.nsec = N(m)
      /\ x.time = <<p.sec, p.nsec>> /\ Len(x.ips) = T(m)
      /\ \A j \in 1 .. Len(x.ips) : x.ips[j] = IPOrder(k)[j]
  BY DEF Partly
<1>2. x \in ParsedPeer /\ p.sec \in Nat /\ p.nsec \in Nat
  BY DEF LastPeer, ParserState, ParserOver
<1>3. shake[k][1] \in Nat /\ shake[k][2] \in Nat
  BY DEF Held
<1>4. /\ line.key = "opts" => O(m + 1) = device.peers[k].opts
      /\ line.key # "opts" => O(m + 1) = O(m)
      /\ line.key = "sec" => S(m + 1) = shake[k][1]
      /\ line.key # "sec" => S(m + 1) = S(m)
      /\ line.key = "nsec" => N(m + 1) = shake[k][2]
      /\ line.key # "nsec" => N(m + 1) = N(m)
  <2> HIDE DEF F
  <2>1. KnownOnceMore(F, m, "opts", device.peers[k].opts, Nil)
    BY KnownNext
  <2>2. KnownOnceMore(F, m, "sec", shake[k][1], 0)
    BY KnownNext
  <2>3. KnownOnceMore(F, m, "nsec", shake[k][2], 0)
    BY KnownNext
  <2> QED BY <2>1, <2>2, <2>3, Zenon DEF KnownOnceMore
<1>5. Len(F) \in Nat /\ m + 1 \in 1 .. Len(F)
  BY FieldLinesAre
<1>6. /\ OtherLine(k, line) \/ \E j \in 1 .. Len(IPOrder(k)) : m + 1 = BeforeIPs(k, all) + j
      /\ \A j \in 1 .. Len(IPOrder(k)) :
           m + 1 = BeforeIPs(k, all) + j => line = Line("allowed_ip", IPOrder(k)[j])
  BY <1>5, FieldLinesAre
<1>7. /\ \A j \in 1 .. Len(IPOrder(k)) :
           m + 1 = BeforeIPs(k, all) + j => T(m) = j - 1 /\ T(m + 1) = j
      /\ (~ \E j \in 1 .. Len(IPOrder(k)) : m + 1 = BeforeIPs(k, all) + j) => T(m + 1) = T(m)
  BY TakenNext
<1>8. ASSUME NEW y \in ParsedPeer, NEW s \in Nat, NEW ns \in Nat, q = WithLast(p, y, s, ns),
             /\ y.key = k /\ y.opts = O(m + 1) /\ s = S(m + 1) /\ ns = N(m + 1)
             /\ y.time = <<s, ns>> /\ Len(y.ips) = T(m + 1)
             /\ \A j \in 1 .. Len(y.ips) : y.ips[j] = IPOrder(k)[j]
      PROVE  Goal
  <2>1. /\ q \in ParserState /\ q.dev = p.dev /\ q.awg = p.awg /\ q.sec = s /\ q.nsec = ns
        /\ ~ q.err /\ Len(q.peers) = Len(p.peers) /\ LastPeer(q) = y
        /\ \A j \in 1 .. (Len(p.peers) - 1) : q.peers[j] = p.peers[j]
    BY <1>8, WithLastIs
  <2> HIDE DEF q
  <2>2. Partly(k, all, m + 1, q)
    BY <1>8, <2>1, Zenon DEF Partly
  <2> QED BY <2>1, <2>2
<1> SUFFICES Goal
  OBVIOUS
<1> HIDE DEF x, O, S, N, T, Goal, F
<1>9. ASSUME NEW j \in 1 .. Len(IPOrder(k)), m + 1 = BeforeIPs(k, all) + j
      PROVE  Goal
  <2> DEFINE v == IPOrder(k)[j]
             a == Append(x.ips, v)
             y == [x EXCEPT !.ips = a]
  <2>1. v \in IPs /\ v # Garbled
    BY IPOrderIs, GarbledAssumption
  <2>2. line = Line("allowed_ip", v) /\ T(m) = j - 1 /\ T(m + 1) = j
    BY <1>6, <1>7, <1>9
  <2> HIDE DEF v
  <2>3. q = WithLast(p, y, p.sec, p.nsec)
    BY <2>1, <2>2, ParseField DEF x
  <2>4. /\ a \in Seq(IPs) /\ Len(a) = j
        /\ \A i \in 1 .. Len(a) : a[i] = IPOrder(k)[i]
    <3>1. x.ips \in Seq(IPs) /\ Len(x.ips) = j - 1 /\ j \in Nat
      BY <1>1, <1>2, <2>2 DEF ParsedPeer
    <3>2. a \in Seq(IPs) /\ Len(a) = j
      BY <2>1, <3>1
    <3>3. ASSUME NEW i \in 1 .. j PROVE a[i] = IPOrder(k)[i]
      <4>1. CASE i = j
        BY <3>1, <4>1 DEF v
      <4>2. CASE i # j
        <5>1. i \in 1 .. Len(x.ips)
          BY <3>1, <4>2
        <5> QED BY <1>1, <3>1, <5>1
      <4> QED BY <4>1, <4>2
    <3> QED BY <3>2, <3>3
  <2> HIDE DEF a
  <2>5. /\ y \in ParsedPeer /\ y.key = x.key /\ y.opts = x.opts /\ y.time = x.time /\ y.ips = a
    BY <1>2, <2>4 DEF ParsedPeer
  <2>6. line.key = "allowed_ip"
    BY <2>2 DEF Line
  <2> HIDE DEF y, q, line
  <2>7. O(m + 1) = O(m) /\ S(m + 1) = S(m) /\ N(m + 1) = N(m)
    BY <1>4, <2>6
  <2>8. /\ y.key = k /\ y.opts = O(m + 1) /\ p.sec = S(m + 1) /\ p.nsec = N(m + 1)
        /\ y.time = <<p.sec, p.nsec>> /\ Len(y.ips) = T(m + 1)
        /\ \A i \in 1 .. Len(y.ips) : y.ips[i] = IPOrder(k)[i]
    BY <1>1, <2>2, <2>4, <2>5, <2>7
  <2> QED BY <1>2, <1>8, <2>3, <2>5, <2>8
<1>10. ASSUME OtherLine(k, line), ~ \E j \in 1 .. Len(IPOrder(k)) : m + 1 = BeforeIPs(k, all) + j
       PROVE  Goal
  <2>1. T(m + 1) = T(m)
    BY <1>7, <1>10
  <2>2. CASE line = Line("opts", device.peers[k].opts) /\ device.peers[k].opts \in Opts
    <3> DEFINE v == device.peers[k].opts
               y == [x EXCEPT !.opts = v]
    <3>1. v \in Opts /\ v # Garbled
      BY <2>2, GarbledAssumption
    <3> HIDE DEF v
    <3>2. q = WithLast(p, y, p.sec, p.nsec)
      BY <2>2, <3>1, ParseField DEF x, v
    <3>3. y \in ParsedPeer /\ y.key = x.key /\ y.opts = v /\ y.time = x.time /\ y.ips = x.ips
      BY <1>2, <3>1 DEF ParsedPeer
    <3>4. line.key = "opts"
      BY <2>2 DEF Line
    <3> HIDE DEF y, q, line
    <3>5. O(m + 1) = v /\ S(m + 1) = S(m) /\ N(m + 1) = N(m)
      BY <1>4, <3>4 DEF v
    <3>6. /\ y.key = k /\ y.opts = O(m + 1) /\ p.sec = S(m + 1) /\ p.nsec = N(m + 1)
          /\ y.time = <<p.sec, p.nsec>> /\ Len(y.ips) = T(m + 1)
          /\ \A i \in 1 .. Len(y.ips) : y.ips[i] = IPOrder(k)[i]
      BY <1>1, <2>1, <3>3, <3>5
    <3> QED BY <1>2, <1>8, <3>2, <3>3, <3>6
  <2>3. CASE line = Line("sec", shake[k][1])
    <3> DEFINE v == shake[k][1]
               y == [x EXCEPT !.time = <<v, p.nsec>>]
    <3>1. v \in Nat /\ v # Garbled
      BY <1>3, GarbledAssumption
    <3> HIDE DEF v
    <3>2. q = WithLast(p, y, v, p.nsec)
      BY <2>3, <3>1, ParseField DEF x, v
    <3>3. /\ y \in ParsedPeer /\ y.key = x.key /\ y.opts = x.opts
          /\ y.time = <<v, p.nsec>> /\ y.ips = x.ips
      BY <1>2, <3>1 DEF ParsedPeer
    <3>4. line.key = "sec"
      BY <2>3 DEF Line
    <3> HIDE DEF y, q, line
    <3>5. O(m + 1) = O(m) /\ S(m + 1) = v /\ N(m + 1) = N(m)
      BY <1>4, <3>4 DEF v
    <3>6. /\ y.key = k /\ y.opts = O(m + 1) /\ v = S(m + 1) /\ p.nsec = N(m + 1)
          /\ y.time = <<v, p.nsec>> /\ Len(y.ips) = T(m + 1)
          /\ \A i \in 1 .. Len(y.ips) : y.ips[i] = IPOrder(k)[i]
      BY <1>1, <2>1, <3>3, <3>5
    <3> QED BY <1>2, <1>8, <3>1, <3>2, <3>3, <3>6
  <2>4. CASE line = Line("nsec", shake[k][2])
    <3> DEFINE v == shake[k][2]
               y == [x EXCEPT !.time = <<p.sec, v>>]
    <3>1. v \in Nat /\ v # Garbled
      BY <1>3, GarbledAssumption
    <3> HIDE DEF v
    <3>2. q = WithLast(p, y, p.sec, v)
      <4>1. Parse(p, Line("nsec", v)) = WithLast(p, y, p.sec, v)
        BY <3>1, ParseField DEF x
      <4> QED BY <2>4, <4>1 DEF v
    <3>3. /\ y \in ParsedPeer /\ y.key = x.key /\ y.opts = x.opts
          /\ y.time = <<p.sec, v>> /\ y.ips = x.ips
      BY <1>2, <3>1 DEF ParsedPeer
    <3>4. line.key = "nsec"
      BY <2>4 DEF Line
    <3> HIDE DEF y, q, line
    <3>5. O(m + 1) = O(m) /\ S(m + 1) = S(m) /\ N(m + 1) = v
      BY <1>4, <3>4 DEF v
    <3>6. /\ y.key = k /\ y.opts = O(m + 1) /\ p.sec = S(m + 1) /\ v = N(m + 1)
          /\ y.time = <<p.sec, v>> /\ Len(y.ips) = T(m + 1)
          /\ \A i \in 1 .. Len(y.ips) : y.ips[i] = IPOrder(k)[i]
      BY <1>1, <2>1, <3>3, <3>5
    <3> QED BY <1>2, <1>8, <3>1, <3>2, <3>3, <3>6
  <2> QED BY <1>10, <2>2, <2>3, <2>4 DEF OtherLine
<1> QED BY <1>6, <1>9, <1>10

\* A peer as the daemon holds it.
WholePeer(k, x) ==
  /\ x.key = k
  /\ x.opts = device.peers[k].opts
  /\ x.time = shake[k]
  /\ ToSet(x.ips) = device.peers[k].ips
  /\ Len(x.ips) = Cardinality(device.peers[k].ips)

\* All of its lines make it whole.
LEMMA PartlyWhole ==
  ASSUME Held, NEW k \in DOMAIN device.peers, NEW all \in BOOLEAN,
         NEW p \in ParserState, p.peers # <<>>,
         Partly(k, all, Len(FieldLines(k, all)), p)
  PROVE  WholePeer(k, LastPeer(p))
<1> DEFINE F == FieldLines(k, all)
           M == Len(F)
           x == LastPeer(p)
           L == Len(IPOrder(k))
           v == device.peers[k].opts
           s == shake[k][1]
           n == shake[k][2]
<1>1. /\ x.key = k /\ x.opts = KnownBy(F, M, "opts", v, Nil)
      /\ p.sec = KnownBy(F, M, "sec", s, 0) /\ p.nsec = KnownBy(F, M, "nsec", n, 0)
      /\ x.time = <<p.sec, p.nsec>> /\ Len(x.ips) = TakenIPs(k, all, M)
      /\ \A j \in 1 .. Len(x.ips) : x.ips[j] = IPOrder(k)[j]
  BY DEF Partly
<1>2. /\ v # Nil => \E q \in 1 .. M : F[q].key = "opts"
      /\ s # 0 => \E q \in 1 .. M : F[q].key = "sec"
      /\ n # 0 => \E q \in 1 .. M : F[q].key = "nsec"
      /\ M \in Nat
      /\ \A j \in 1 .. L : BeforeIPs(k, all) + j \in 1 .. M
      /\ BeforeIPs(k, all) \in Nat
  BY FieldLinesAre
<1>3. /\ IPOrder(k) \in Seq(IPs) /\ L = Cardinality(device.peers[k].ips) /\ L \in Nat
      /\ ToSet(IPOrder(k)) = device.peers[k].ips
  BY IPOrderIs
<1>4. shake[k] = <<s, n>>
  BY DEF Held
<1>5. x \in ParsedPeer
  BY DEF LastPeer, ParserState, ParserOver
<1>6. x.ips \in Seq(IPs)
  BY <1>5 DEF ParsedPeer
<1> HIDE DEF F, M, x, v, s, n
<1>7. x.opts = v /\ p.sec = s /\ p.nsec = n
  BY <1>1, <1>2, Zenon DEF KnownBy
<1>8. TakenIPs(k, all, M) = L
  <2> DEFINE b == BeforeIPs(k, all)
             l == L
  <2>1. b \in Nat /\ l \in Nat /\ M \in Nat /\ (l = 0 \/ b + l <= M)
    <3>1. L = 0 \/ L \in 1 .. L
      BY <1>3
    <3>2. L \in 1 .. L => BeforeIPs(k, all) + L \in 1 .. M
      BY <1>2
    <3> QED BY <1>2, <1>3, <3>1, <3>2
  <2>2. TakenIPs(k, all, M) = IF M <= b THEN 0 ELSE IF M <= b + l THEN M - b ELSE l
    BY DEF TakenIPs
  <2> HIDE DEF b, l
  <2>3. TakenIPs(k, all, M) = l
    BY <2>1, <2>2
  <2> QED BY <2>3 DEF l
<1>9. x.ips = IPOrder(k)
  <2>1. Len(x.ips) = L
    BY <1>1, <1>8
  <2>2. \A j \in 1 .. L : x.ips[j] = IPOrder(k)[j]
    BY <1>1, <2>1
  <2> QED BY <1>3, <1>6, <2>1, <2>2
<1> QED BY <1>1, <1>3, <1>4, <1>7, <1>9 DEF WholePeer, x, v

-----------------------------------------------------------------------------
(* UAPI: how far the client has come with the answer.                      *)

\* After m lines of the header.
InHeader(m, p) ==
  /\ p.peers = <<>> /\ ~ p.err
  /\ p.dev = KnownBy(HeaderLines, m, "dev", device.dev, Nil)
  /\ p.awg = KnownBy(HeaderLines, m, "awg", device.awg, Nil)

\* Device and the first i peers are read.
UpTo(ks, i, p) ==
  /\ ~ p.err /\ p.dev = device.dev /\ p.awg = device.awg
  /\ Len(p.peers) = i
  /\ \A j \in 1 .. i : WholePeer(ks[j], p.peers[j])

\* And m lines of the i-th.
InPeer(ks, all, i, m, p) ==
  /\ ~ p.err /\ p.dev = device.dev /\ p.awg = device.awg
  /\ Len(p.peers) = i
  /\ \A j \in 1 .. (i - 1) : WholePeer(ks[j], p.peers[j])
  /\ Partly(ks[i], all, m, p)

LEMMA HeaderStep ==
  ASSUME Held, NEW m \in Nat, m < Len(HeaderLines), NEW p \in ParserState, InHeader(m, p)
  PROVE  LET q == Parse(p, HeaderLines[m + 1])
         IN  q \in ParserState /\ InHeader(m + 1, q)
<1> DEFINE h == HeaderLines
           line == h[m + 1]
           q == Parse(p, line)
           D(n) == KnownBy(h, n, "dev", device.dev, Nil)
           A(n) == KnownBy(h, n, "awg", device.awg, Nil)
<1>1. p.peers = <<>> /\ ~ p.err /\ p.dev = D(m) /\ p.awg = A(m)
  BY DEF InHeader
<1>2. HeaderLine(line)
  <2>1. m + 1 \in 1 .. Len(HeaderLines)
    BY HeaderLinesAre
  <2> QED BY <2>1, HeaderLinesAre
<1> HIDE DEF h
<1>3. /\ line.key = "dev" => D(m + 1) = device.dev
      /\ line.key # "dev" => D(m + 1) = D(m)
      /\ line.key = "awg" => A(m + 1) = device.awg
      /\ line.key # "awg" => A(m + 1) = A(m)
  <2>1. KnownOnceMore(h, m, "dev", device.dev, Nil)
    BY KnownNext
  <2>2. KnownOnceMore(h, m, "awg", device.awg, Nil)
    BY KnownNext
  <2> QED BY <2>1, <2>2, Zenon DEF KnownOnceMore
<1>4. p.sec \in Nat /\ p.nsec \in Nat /\ p.dev \in Values \union {Nil} /\ p.awg \in Values \union {Nil}
  BY DEF ParserState, ParserOver
<1> SUFFICES q \in ParserState /\ InHeader(m + 1, q)
  BY DEF h
<1>5. CASE line = Line("dev", device.dev) /\ device.dev \in Values
  <2>1. q = Parser(device.dev, p.awg, <<>>, p.sec, p.nsec, FALSE)
    BY <1>1, <1>5, ParseHeader
  <2>2. line.key = "dev"
    BY <1>5 DEF Line
  <2> HIDE DEF q, line, D, A
  <2>3. /\ q \in ParserState /\ q.peers = <<>> /\ ~ q.err /\ q.dev = device.dev /\ q.awg = p.awg
    BY <1>4, <1>5, <2>1 DEF Parser, ParserState, ParserOver
  <2> QED BY <1>1, <1>3, <2>2, <2>3 DEF InHeader, D, A, h
<1>6. CASE line = Line("awg", device.awg) /\ device.awg \in Values
  <2>1. q = Parser(p.dev, device.awg, <<>>, p.sec, p.nsec, FALSE)
    BY <1>1, <1>6, ParseHeader
  <2>2. line.key = "awg"
    BY <1>6 DEF Line
  <2> HIDE DEF q, line, D, A
  <2>3. /\ q \in ParserState /\ q.peers = <<>> /\ ~ q.err /\ q.dev = p.dev /\ q.awg = device.awg
    BY <1>4, <1>6, <2>1 DEF Parser, ParserState, ParserOver
  <2> QED BY <1>1, <1>3, <2>2, <2>3 DEF InHeader, D, A, h
<1> QED BY <1>2, <1>5, <1>6 DEF HeaderLine

LEMMA HeaderEnd ==
  ASSUME Held, NEW ks, NEW p, InHeader(Len(HeaderLines), p)
  PROVE  UpTo(ks, 0, p)
<1>1. p.dev = device.dev /\ p.awg = device.awg
  BY HeaderLinesAre, Zenon DEF InHeader, KnownBy
<1>2. p.peers = <<>> /\ ~ p.err
  BY DEF InHeader
<1> QED BY <1>1, <1>2 DEF UpTo

\* The next peer begins.
LEMMA PeerStart ==
  ASSUME Held, NEW ks, Order(ks), NEW all, NEW i \in Nat, i < Len(ks),
         NEW p \in ParserState, UpTo(ks, i, p)
  PROVE  LET q == Parse(p, Line("public_key", ks[i + 1]))
         IN  q \in ParserState /\ InPeer(ks, all, i + 1, 0, q)
<1> DEFINE k == ks[i + 1]
           q == Parse(p, Line("public_key", k))
           ps == Append(p.peers, Begun(k))
<1>1. k \in DOMAIN device.peers
  <2>1. ks \in Seq(DOMAIN device.peers)
    BY DEF Order
  <2> QED BY <2>1
<1>2. k \in Keys
  BY <1>1 DEF Held, DeviceState, PeerStates
<1> HIDE DEF k
<1>3. q = Parser(p.dev, p.awg, ps, 0, 0, FALSE)
  BY <1>2, ParseKey DEF UpTo
<1>4. Begun(k) \in ParsedPeer
  BY <1>2 DEF Begun, ParsedPeer, NoTime
<1>5. p.peers \in Seq(ParsedPeer) /\ Len(p.peers) = i
  BY DEF ParserState, ParserOver, UpTo
<1>6. /\ ps \in Seq(ParsedPeer) /\ Len(ps) = i + 1 /\ ps[i + 1] = Begun(k)
      /\ \A j \in 1 .. i : ps[j] = p.peers[j]
  BY <1>4, <1>5
<1> HIDE DEF q, ps
<1>7. /\ q.dev = p.dev /\ q.awg = p.awg /\ q.peers = ps /\ q.sec = 0 /\ q.nsec = 0 /\ q.err = FALSE
  BY <1>3 DEF Parser
<1>8. q \in ParserState
  BY <1>3, <1>6 DEF Parser, ParserState, ParserOver
<1>9. LastPeer(q) = Begun(k)
  BY <1>6, <1>7 DEF LastPeer
<1>10. Partly(k, all, 0, q)
  <2>1. /\ Begun(k).key = k /\ Begun(k).opts = Nil /\ Begun(k).time = <<0, 0>> /\ Begun(k).ips = <<>>
    BY DEF Begun, NoTime
  <2>2. \A key, told, none : KnownBy(FieldLines(k, all), 0, key, told, none) = none
    BY DEF KnownBy
  <2>3. TakenIPs(k, all, 0) = 0
    <3>1. BeforeIPs(k, all) \in Nat
      <4>1. Len(OptsLine(k)) \in Nat
        BY <1>1, PiecesAre DEF k
      <4> QED BY <4>1 DEF BeforeIPs
    <3> QED BY <3>1 DEF TakenIPs
  <2> QED BY <1>7, <1>9, <2>1, <2>2, <2>3 DEF Partly
<1>11. \A j \in 1 .. (i + 1 - 1) : WholePeer(ks[j], q.peers[j])
  BY <1>6, <1>7 DEF UpTo
<1>12. q.dev = device.dev /\ q.awg = device.awg /\ ~ q.err /\ Len(q.peers) = i + 1
  BY <1>6, <1>7 DEF UpTo
<1>13. InPeer(ks, all, i + 1, 0, q)
  BY <1>10, <1>11, <1>12 DEF InPeer, k
<1> QED BY <1>8, <1>13 DEF q, k

LEMMA PeerStep ==
  ASSUME Held, NEW ks, Order(ks), NEW all \in BOOLEAN, NEW i \in 1 .. Len(ks),
         NEW m \in Nat, m < Len(FieldLines(ks[i], all)),
         NEW p \in ParserState, InPeer(ks, all, i, m, p)
  PROVE  LET q == Parse(p, FieldLines(ks[i], all)[m + 1])
         IN  q \in ParserState /\ InPeer(ks, all, i, m + 1, q)
<1> DEFINE k == ks[i]
           q == Parse(p, FieldLines(k, all)[m + 1])
<1>1. k \in DOMAIN device.peers
  BY DEF Order
<1>2. p.peers # <<>> /\ ~ p.err /\ Len(p.peers) = i /\ Partly(k, all, m, p)
  BY DEF InPeer
<1>3. m < Len(FieldLines(k, all))
  OBVIOUS
<1> HIDE DEF k
<1>4. /\ q \in ParserState /\ ~ q.err /\ q.dev = p.dev /\ q.awg = p.awg
      /\ Len(q.peers) = Len(p.peers)
      /\ \A j \in 1 .. (Len(p.peers) - 1) : q.peers[j] = p.peers[j]
      /\ Partly(k, all, m + 1, q)
  BY <1>1, <1>2, <1>3, PartlyStep
<1> HIDE DEF q
<1>5. InPeer(ks, all, i, m + 1, q)
  BY <1>2, <1>4 DEF InPeer, k
<1> QED BY <1>4, <1>5 DEF q, k

LEMMA PeerEnd ==
  ASSUME Held, NEW ks, Order(ks), NEW all \in BOOLEAN, NEW i \in 1 .. Len(ks),
         NEW p \in ParserState, InPeer(ks, all, i, Len(FieldLines(ks[i], all)), p)
  PROVE  UpTo(ks, i, p)
<1>1. ks[i] \in DOMAIN device.peers
  BY DEF Order
<1>2. p.peers # <<>> /\ Len(p.peers) = i /\ Partly(ks[i], all, Len(FieldLines(ks[i], all)), p)
  BY DEF InPeer
<1>3. WholePeer(ks[i], p.peers[i])
  BY <1>1, <1>2, PartlyWhole DEF LastPeer
<1>4. \A j \in 1 .. i : WholePeer(ks[j], p.peers[j])
  BY <1>3 DEF InPeer
<1> QED BY <1>4 DEF UpTo, InPeer

\* The place pos of the answer, and what the parser p then holds.
ReadTo(ks, all, e, pos, p) ==
  \/ pos \in 0 .. e[0] /\ InHeader(pos, p)
  \/ \E i \in 1 .. Len(ks) : \E m \in 0 .. Len(FieldLines(ks[i], all)) :
       pos = e[i - 1] + 1 + m /\ InPeer(ks, all, i, m, p)

\* The client goes on, or has it all.
GoesOn(ks, all, e, pos, p) ==
  \/ /\ pos + 1 < Len(Wire(ks, all))
     /\ Wire(ks, all)[pos + 1].key \notin {"empty", "malformed"}
     /\ Parse(p, Wire(ks, all)[pos + 1]) \in ParserState
     /\ ReadTo(ks, all, e, pos + 1, Parse(p, Wire(ks, all)[pos + 1]))
  \/ pos = e[Len(ks)] /\ UpTo(ks, Len(ks), p)

\* Behind a peer's last line, or the header's.
LEMMA SectionEnd ==
  ASSUME Held, NEW ks, Order(ks), NEW all \in BOOLEAN, NEW e, Places(ks, all, e),
         NEW i \in 0 .. Len(ks), NEW p \in ParserState, UpTo(ks, i, p)
  PROVE  GoesOn(ks, all, e, e[i], p)
<1> DEFINE N == Len(ks)
           w == Wire(ks, all)
<1>1. N \in Nat
  BY DEF Order
<1>2. CASE i = N
  BY <1>2 DEF GoesOn
<1>3. CASE i # N
  <2> DEFINE k == ks[i + 1]
             q == Parse(p, Line("public_key", k))
             l == Len(FieldLines(k, all))
  <2>1. i \in Nat /\ i + 1 \in 1 .. N /\ i < N /\ i + 1 - 1 = i
    BY <1>1, <1>3
  <2>2. k \in DOMAIN device.peers
    BY <2>1 DEF Order
  <2>3. l \in Nat
    BY <2>2, FieldLinesAre
  <2>4. /\ e[i + 1] = e[i + 1 - 1] + 1 + l /\ e[i + 1] < Len(w)
        /\ w[e[i + 1 - 1] + 1] = Line("public_key", k)
    BY <2>1 DEF Places
  <2>5. e[i] \in Nat /\ Len(w) \in Nat
    <3>1. e \in [0 .. N -> Nat] /\ Len(w) = e[N] + 2
      BY DEF Places
    <3>2. N \in 0 .. N
      BY <1>1
    <3> QED BY <3>1, <3>2
  <2>6. e[i] + 1 < Len(w) /\ w[e[i] + 1] = Line("public_key", k)
    <3> DEFINE x == e[i]
               y == e[i + 1]
               z == Len(w)
    <3>1. y = x + 1 + l /\ y < z /\ x \in Nat /\ z \in Nat /\ l \in Nat
      BY <2>1, <2>3, <2>4, <2>5
    <3> HIDE DEF x, y, z, l
    <3>2. x + 1 < z
      BY ONLY <3>1
    <3> QED BY <2>1, <2>4, <3>2 DEF x, z
  <2>7. q \in ParserState /\ InPeer(ks, all, i + 1, 0, q)
    BY <2>1, PeerStart
  <2>8. w[e[i] + 1].key \notin {"empty", "malformed"}
    BY <2>6 DEF Line
  <2> HIDE DEF q, w, k, l
  <2>9. ReadTo(ks, all, e, e[i] + 1, q)
    <3>1. e[i] + 1 = e[i + 1 - 1] + 1 + 0
      BY <2>1, <2>5
    <3>2. 0 \in 0 .. Len(FieldLines(ks[i + 1], all))
      BY <2>3 DEF l, k
    <3> QED BY <2>1, <2>7, <3>1, <3>2 DEF ReadTo
  <2> QED BY <2>6, <2>7, <2>8, <2>9 DEF GoesOn, q, w
<1> QED BY <1>2, <1>3

LEMMA WireStep ==
  ASSUME Held, NEW ks, Order(ks), NEW all \in BOOLEAN, NEW e, Places(ks, all, e),
         NEW pos \in Nat, NEW p \in ParserState, ReadTo(ks, all, e, pos, p)
  PROVE  GoesOn(ks, all, e, pos, p)
<1> DEFINE N == Len(ks)
           w == Wire(ks, all)
<1>1. N \in Nat /\ 0 \in 0 .. N /\ N \in 0 .. N
  BY DEF Order
<1>2. /\ e \in [0 .. N -> Nat] /\ e[0] = Len(HeaderLines) /\ e[0] \in Nat
      /\ Len(w) = e[N] + 2 /\ e[N] \in Nat
  BY <1>1 DEF Places
<1>3. CASE pos \in 0 .. e[0] /\ InHeader(pos, p)
  <2>1. CASE pos = e[0]
    BY <1>1, <1>2, <1>3, <2>1, HeaderEnd, SectionEnd
  <2>2. CASE pos # e[0]
    <3> DEFINE line == HeaderLines[pos + 1]
               q == Parse(p, line)
    <3>1. pos + 1 \in 1 .. e[0] /\ pos < Len(HeaderLines) /\ pos + 1 \in 1 .. Len(HeaderLines)
      BY <1>2, <1>3, <2>2
    <3>2. pos + 1 < Len(w) /\ w[pos + 1] = line
      BY <3>1 DEF Places
    <3>3. q \in ParserState /\ InHeader(pos + 1, q)
      BY <1>3, <3>1, HeaderStep
    <3>4. HeaderLine(line)
      BY <3>1, HeaderLinesAre
    <3> HIDE DEF line, w
    <3>5. line.key \notin {"empty", "malformed"}
      BY <3>4 DEF HeaderLine, Line
    <3>6. pos + 1 \in 0 .. e[0]
      BY <3>1
    <3> HIDE DEF q
    <3>7. ReadTo(ks, all, e, pos + 1, q)
      BY <3>3, <3>6 DEF ReadTo
    <3> QED BY <3>2, <3>3, <3>5, <3>7 DEF GoesOn, q, w
  <2> QED BY <2>1, <2>2
<1>4. ASSUME NEW i \in 1 .. N, NEW m \in 0 .. Len(FieldLines(ks[i], all)),
             pos = e[i - 1] + 1 + m, InPeer(ks, all, i, m, p)
      PROVE  GoesOn(ks, all, e, pos, p)
  <2> DEFINE k == ks[i]
             F == FieldLines(k, all)
             l == Len(F)
  <2>1. k \in DOMAIN device.peers
    BY DEF Order
  <2>2. l \in Nat /\ m \in Nat /\ m <= l
    BY <2>1, FieldLinesAre
  <2>3. /\ e[i] = e[i - 1] + 1 + l /\ e[i] < Len(w)
        /\ \A n \in 1 .. l : w[e[i - 1] + 1 + n] = F[n]
    BY DEF Places
  <2>4. e[i - 1] \in Nat /\ e[i] \in Nat /\ i \in 0 .. N
    <3>1. i - 1 \in 0 .. N /\ i \in 0 .. N
      BY <1>1
    <3> QED BY <1>2, <3>1
  <2>5. CASE m = l
    <3>1. pos = e[i]
      BY <1>4, <2>3, <2>5
    <3>2. UpTo(ks, i, p)
      BY <1>4, <2>5, PeerEnd
    <3> QED BY <2>4, <3>1, <3>2, SectionEnd
  <2>6. CASE m # l
    <3> DEFINE line == F[m + 1]
               q == Parse(p, line)
    <3>1. m + 1 \in 1 .. l /\ m < l /\ m + 1 \in 0 .. l
      BY <2>2, <2>6
    <3>2. q \in ParserState /\ InPeer(ks, all, i, m + 1, q)
      BY <1>4, <2>2, <3>1, PeerStep
    <3>3. \/ OtherLine(k, line)
          \/ \E j \in 1 .. Len(IPOrder(k)) : line = Line("allowed_ip", IPOrder(k)[j])
      BY <2>1, <3>1, FieldLinesAre
    <3> HIDE DEF k, F
    <3>4. pos + 1 = e[i - 1] + 1 + (m + 1) /\ pos + 1 < Len(w)
      <4> DEFINE x == e[i - 1]
                 y == e[i]
                 z == Len(w)
      <4>1. /\ pos = x + 1 + m /\ y = x + 1 + l /\ y < z /\ m < l
            /\ x \in Nat /\ y \in Nat /\ z \in Nat /\ m \in Nat /\ l \in Nat
        BY <1>2, <1>4, <2>2, <2>3, <2>4, <3>1
      <4> HIDE DEF x, y, z, l
      <4>2. pos + 1 = x + 1 + (m + 1) /\ pos + 1 < z
        BY ONLY <4>1
      <4> QED BY <4>2 DEF x, z
    <3>5. w[pos + 1] = line
      BY <2>3, <3>1, <3>4
    <3> HIDE DEF line
    <3>6. line.key \notin {"empty", "malformed"}
      <4>1. CASE OtherLine(k, line)
        BY <4>1, OtherKey
      <4>2. CASE \E j \in 1 .. Len(IPOrder(k)) : line = Line("allowed_ip", IPOrder(k)[j])
        BY ONLY <4>2 DEF Line
      <4> QED BY <3>3, <4>1, <4>2
    <3> HIDE DEF q, w
    <3>7. ReadTo(ks, all, e, pos + 1, q)
      BY <3>1, <3>2, <3>4 DEF ReadTo, k, F, l
    <3> QED BY <3>2, <3>4, <3>5, <3>6, <3>7 DEF GoesOn, q, w
  <2> QED BY <2>5, <2>6
<1> QED BY <1>3, <1>4 DEF ReadTo

-----------------------------------------------------------------------------
(* UAPI: reading a device.                                                 *)

\* What is still to come of the answer, once the parser is p: the rest of a
\* whole one; its empty line; or the errno of a daemon that failed.
InAnswer(p, lines) ==
  \E ks : \E all \in BOOLEAN : \E e : \E pos \in Nat :
    /\ Order(ks) /\ Places(ks, all, e) /\ ReadTo(ks, all, e, pos, p)
    /\ lines = SubSeq(Wire(ks, all), pos + 1, Len(Wire(ks, all)))
AllTold(p) == p \in ParserState /\ \E ks : Order(ks) /\ UpTo(ks, Len(ks), p)
AllRead(p, lines) == AllTold(p) /\ lines = <<EmptyLine>>
Doomed(p, lines) ==
  \/ p.err
  \/ \E j \in 1 .. Len(lines) : /\ lines[j] = Line("errno", 1)
                                /\ \A i \in 1 .. (j - 1) : lines[i] # EmptyLine

ToRead(p, lines) ==
  /\ "err" \in DOMAIN p /\ lines \in Seq(Lines)
  /\ \/ Doomed(p, lines)
     \/ p \in ParserState /\ (InAnswer(p, lines) \/ AllRead(p, lines))

Getting ==
  /\ Held
  /\ req = <<>>
  /\ stage \in {"dial", "check", "write"} => dp = NewParser
  /\ alive /\ stage = "read" => ToRead(dp, ans)
  /\ outcome = "ok" => stage = "done"
  /\ alive /\ outcome = "ok" => AllTold(dp)

GetInv == verb = "get" => Getting

-----------------------------------------------------------------------------
(* UAPI: none of this changes while the daemon's device does not.          *)

LEMMA SameLines ==
  ASSUME UNCHANGED <<device, shake>>
  PROVE  /\ \A k, all : FieldLines(k, all)' = FieldLines(k, all)
         /\ \A k : IPOrder(k)' = IPOrder(k)
         /\ \A k, all : BeforeIPs(k, all)' = BeforeIPs(k, all)
         /\ HeaderLines' = HeaderLines
         /\ \A k, all : AnswerPeer(k, all)' = AnswerPeer(k, all)
<1>1. device' = device /\ shake' = shake
  OBVIOUS
<1>2. \A k : OptsLine(k)' = OptsLine(k)
  BY <1>1 DEF OptsLine
<1>3. \A k, all : SecLine(k, all)' = SecLine(k, all)
  BY <1>1 DEF SecLine
<1>4. \A k, all : NsecLine(k, all)' = NsecLine(k, all)
  BY <1>1 DEF NsecLine
<1>5. \A k : IPOrder(k)' = IPOrder(k)
  BY <1>1 DEF IPOrder
<1>6. \A k : IPLines(k)' = IPLines(k)
  BY <1>5 DEF IPLines
<1>7. \A k, all : FieldLines(k, all)' = FieldLines(k, all)
  BY <1>2, <1>3, <1>4, <1>6, Zenon DEF FieldLines
<1>8. \A k, all : BeforeIPs(k, all)' = BeforeIPs(k, all)
  BY <1>2, Zenon DEF BeforeIPs
<1>9. HeaderLines' = HeaderLines
  BY <1>1 DEF HeaderLines, DevLine, AwgLine
<1>10. \A k, all : AnswerPeer(k, all) = <<Line("public_key", k)>> \o FieldLines(k, all)
  BY DEF AnswerPeer, FieldLines, OptsLine, SecLine, NsecLine, IPLines, IPOrder
<1>11. \A k, all : AnswerPeer(k, all)' = <<Line("public_key", k)>> \o FieldLines(k, all)'
  BY DEF AnswerPeer, FieldLines, OptsLine, SecLine, NsecLine, IPLines, IPOrder
<1> QED BY <1>5, <1>7, <1>8, <1>9, <1>10, <1>11, Zenon

LEMMA SameWire ==
  ASSUME UNCHANGED <<device, shake>>
  PROVE  \A ks, all : Wire(ks, all)' = Wire(ks, all)
<1>1. HeaderLines' = HeaderLines /\ \A k, all : AnswerPeer(k, all)' = AnswerPeer(k, all)
  BY SameLines
<1>2. \A ks, all : [i \in DOMAIN ks |-> AnswerPeer(ks[i], all)]' = [i \in DOMAIN ks |-> AnswerPeer(ks[i], all)]
  BY <1>1
<1>3. \A ks, all : Answer(ks, all) = HeaderLines \o FlattenSeq([i \in DOMAIN ks |-> AnswerPeer(ks[i], all)])
  BY DEF Answer, HeaderLines, DevLine, AwgLine
<1>4. \A ks, all : Answer(ks, all)' = HeaderLines' \o FlattenSeq([i \in DOMAIN ks |-> AnswerPeer(ks[i], all)]')
  BY DEF Answer, HeaderLines, DevLine, AwgLine
<1>5. \A ks, all : Answer(ks, all)' = Answer(ks, all)
  BY <1>1, <1>2, <1>3, <1>4, Zenon
<1> QED BY <1>5, Zenon DEF Wire

LEMMA SameReading ==
  ASSUME UNCHANGED <<device, shake>>
  PROVE  \A p : /\ \A lines : InAnswer(p, lines)' <=> InAnswer(p, lines)
                /\ AllTold(p)' <=> AllTold(p)
<1>1. device' = device /\ shake' = shake
  OBVIOUS
<1>2. /\ \A k, all : FieldLines(k, all)' = FieldLines(k, all)
      /\ \A k : IPOrder(k)' = IPOrder(k)
      /\ \A k, all : BeforeIPs(k, all)' = BeforeIPs(k, all)
      /\ HeaderLines' = HeaderLines
      /\ \A ks, all : Wire(ks, all)' = Wire(ks, all)
  BY SameLines, SameWire
<1>3. \A k, all, m : TakenIPs(k, all, m)' = TakenIPs(k, all, m)
  BY <1>2, Zenon DEF TakenIPs
<1>4. \A k, all, m, p : Partly(k, all, m, p)' <=> Partly(k, all, m, p)
  BY <1>1, <1>2, <1>3 DEF Partly
<1>5. \A k, x : WholePeer(k, x)' <=> WholePeer(k, x)
  BY <1>1, Zenon DEF WholePeer
<1>6. \A m, p : InHeader(m, p)' <=> InHeader(m, p)
  BY <1>1, <1>2, Zenon DEF InHeader
<1>7. \A ks, i, p : UpTo(ks, i, p)' <=> UpTo(ks, i, p)
  BY <1>1, <1>5, Zenon DEF UpTo
<1>8. \A ks, all, i, m, p : InPeer(ks, all, i, m, p)' <=> InPeer(ks, all, i, m, p)
  BY <1>1, <1>4, <1>5 DEF InPeer
<1>9. \A ks : Order(ks)' <=> Order(ks)
  BY <1>1, Zenon DEF Order
<1>10. \A ks, all, e : Places(ks, all, e)' <=> Places(ks, all, e)
  <2> TAKE ks, all, e
  <2>1. Wire(ks, all)' = Wire(ks, all) /\ HeaderLines' = HeaderLines
    BY <1>2
  <2>2. \A i : FieldLines(ks[i], all)' = FieldLines(ks[i], all)
    BY <1>2
  <2> QED BY <2>1, <2>2, SMTT(20) DEF Places
<1>11. \A ks, all, e, pos, p : ReadTo(ks, all, e, pos, p)' <=> ReadTo(ks, all, e, pos, p)
  BY <1>2, <1>6, <1>8 DEF ReadTo
<1>12. \A p : AllTold(p)' <=> AllTold(p)
  BY <1>7, <1>9, Zenon DEF AllTold
<1>13. \A p, lines : InAnswer(p, lines)' <=> InAnswer(p, lines)
  BY <1>2, <1>9, <1>10, <1>11, Zenon DEF InAnswer
<1> QED BY <1>12, <1>13

\* The rest of a sequence.
LEMMA RestIs ==
  ASSUME NEW X, NEW w \in Seq(X), NEW n \in Nat, n < Len(w)
  PROVE  LET r == SubSeq(w, n + 1, Len(w))
         IN  r \in Seq(X) /\ r # <<>> /\ Head(r) = w[n + 1] /\ Tail(r) = SubSeq(w, n + 2, Len(w))
<1> DEFINE L == Len(w)
           r == SubSeq(w, n + 1, L)
           t == SubSeq(w, n + 2, L)
<1>1. L \in Nat /\ n + 1 \in 1 .. L /\ L - n \in Nat /\ L - n >= 1
  OBVIOUS
<1>2. /\ r \in Seq(X) /\ Len(r) = L - n /\ \A j \in 1 .. (L - n) : r[j] = w[n + j]
  BY <1>1
<1>3. /\ t \in Seq(X) /\ Len(t) = L - n - 1 /\ \A j \in 1 .. (L - n - 1) : t[j] = w[n + 1 + j]
  BY <1>1
<1> HIDE DEF r, t
<1>4. r # <<>> /\ Head(r) = r[1] /\ r[1] = w[n + 1]
  BY <1>1, <1>2
<1>5. /\ Tail(r) \in Seq(X) /\ Len(Tail(r)) = L - n - 1
      /\ \A j \in 1 .. (L - n - 1) : Tail(r)[j] = r[j + 1]
  BY <1>1, <1>2, <1>4
<1>6. Tail(r) = t
  <2>1. ASSUME NEW j \in 1 .. (L - n - 1) PROVE Tail(r)[j] = t[j]
    <3>1. j + 1 \in 1 .. (L - n) /\ n + (j + 1) = n + 1 + j
      BY <1>1
    <3> QED BY <1>2, <1>3, <1>5, <3>1
  <2> DEFINE u == Tail(r)
             M == L - n - 1
  <2>2. /\ u \in Seq(X) /\ t \in Seq(X) /\ M \in Nat /\ Len(u) = M /\ Len(t) = M
        /\ \A j \in 1 .. M : u[j] = t[j]
    <3>1. M \in Nat
      BY <1>1
    <3>2. t \in Seq(X) /\ Len(t) = M
      BY <1>3
    <3>3. u \in Seq(X) /\ Len(u) = M
      BY <1>5
    <3> QED BY <2>1, <3>1, <3>2, <3>3
  <2> HIDE DEF u, M
  <2> QED BY <2>2 DEF u
<1> QED BY <1>2, <1>4, <1>6 DEF r, t

LEMMA GetInit == ExchangeInit => GetInv
<1> SUFFICES ASSUME ExchangeInit, verb = "get" PROVE Getting
  BY DEF GetInv
<1>1. device \in DeviceState
  BY HeldAssumption DEF ExchangeInit
<1>2. shake \in [DOMAIN device.peers -> Nat \X Nat]
  BY HeldAssumption DEF ExchangeInit
<1> QED BY <1>1, <1>2 DEF ExchangeInit, Getting, Held

\* What the daemon's answer may be.
LEMMA AnswerStep == ASSUME Getting, verb = "get", WriteGet PROVE Getting'
<1>1. /\ stage = "write" /\ stage' = "read" /\ dp' = dp /\ dp = NewParser
      /\ UNCHANGED <<device, shake, req, outcome, alive>>
  BY DEF WriteGet, daemonVars, Getting
<1>2. Held' /\ req' = <<>> /\ outcome # "ok"
  BY <1>1 DEF Getting, Held
<1>3. dp \in ParserState /\ "err" \in DOMAIN dp
  BY <1>1 DEF NewParser, ParserState, ParserOver
<1>4. PICK a \in Answers : \/ ans' = a \o Errno(0)
                           \/ \E n \in 0 .. Len(a) : ans' = SubSeq(a, 1, n) \o Errno(1)
  BY DEF WriteGet
<1>5. PICK ks \in SetToSeqs(DOMAIN device.peers), all \in BOOLEAN : a = Answer(ks, all)
  BY <1>4 DEF Answers
<1>6. Order(ks)
  <2>1. IsFiniteSet(DOMAIN device.peers)
    <3>1. DOMAIN device.peers \subseteq Keys
      BY DEF Getting, Held, DeviceState, PeerStates
    <3> QED BY <3>1, FiniteAssumption, FS_Subset
  <2> QED BY <2>1, SetToSeqsAre DEF Order
<1>7. /\ Answer(ks, all) \in Seq(Lines) /\ Wire(ks, all) \in Seq(Lines)
      /\ \A j \in 1 .. Len(Answer(ks, all)) : Answer(ks, all)[j] # EmptyLine
      /\ \E e : Places(ks, all, e)
  BY <1>6, WireIs DEF Getting
<1>8. CASE ans' = a \o Errno(0)
  <2>1. PICK e : Places(ks, all, e)
    BY <1>7
  <2> DEFINE w == Wire(ks, all)
  <2>2. ans' = w
    BY <1>5, <1>8 DEF Wire
  <2>3. w = SubSeq(w, 0 + 1, Len(w))
    <3> HIDE DEF w
    <3>1. w \in Seq(Lines)
      BY <1>7 DEF w
    <3> QED BY <3>1
  <2>4. InHeader(0, dp)
    BY <1>1 DEF InHeader, NewParser, KnownBy
  <2>5. 0 \in 0 .. e[0]
    <3>1. e \in [0 .. Len(ks) -> Nat] /\ Len(ks) \in Nat
      BY <1>6, <2>1 DEF Places, Order
    <3> QED BY <3>1
  <2>6. ReadTo(ks, all, e, 0, dp)
    BY <2>4, <2>5 DEF ReadTo
  <2>7. InAnswer(dp, w)
    <3> HIDE DEF w
    <3>1. /\ Order(ks) /\ Places(ks, all, e) /\ ReadTo(ks, all, e, 0, dp)
          /\ w = SubSeq(Wire(ks, all), 0 + 1, Len(Wire(ks, all)))
      BY <1>6, <2>1, <2>3, <2>6 DEF w
    <3>2. 0 \in Nat
      OBVIOUS
    <3> QED BY <3>1, <3>2 DEF InAnswer
  <2>8. InAnswer(dp', ans')
    BY <1>1, <2>2, <2>7
  <2>9. InAnswer(dp, ans)'
    <3>1. \A p, lines : InAnswer(p, lines)' <=> InAnswer(p, lines)
      BY <1>1, SameReading
    <3> QED BY ONLY <2>8, <3>1
  <2>10. ans' \in Seq(Lines)
    BY <1>7, <2>2
  <2>11. ToRead(dp, ans)'
    BY <1>1, <1>3, <2>9, <2>10 DEF ToRead, ParserState, ParsedPeer, ParserOver
  <2> QED BY <1>1, <1>2, <2>11 DEF Getting
<1>9. ASSUME NEW n \in 0 .. Len(a), ans' = SubSeq(a, 1, n) \o Errno(1)
      PROVE  Getting'
  <2> DEFINE b == SubSeq(a, 1, n)
             r == Errno(1)
  <2>1. a \in Seq(Lines) /\ \A j \in 1 .. Len(a) : a[j] # EmptyLine
    BY <1>5, <1>7
  <2>2. /\ b \in Seq(Lines) /\ Len(b) = n /\ n \in Nat
        /\ \A j \in 1 .. n : b[j] # EmptyLine
    BY <2>1
  <2>3. r \in Seq(Lines) /\ Len(r) = 2 /\ r[1] = Line("errno", 1)
    <3>1. Line("errno", 1) \in Lines /\ EmptyLine \in Lines
      BY DEF Line, EmptyLine, Lines, LineKeys, LineVals
    <3> QED BY <3>1 DEF Errno
  <2> HIDE DEF b, r
  <2>4. /\ b \o r \in Seq(Lines) /\ Len(b \o r) = Len(b) + Len(r)
        /\ \A j \in 1 .. Len(b) : (b \o r)[j] = b[j]
        /\ \A j \in 1 .. Len(r) : (b \o r)[Len(b) + j] = r[j]
    <3>1. b \in Seq(Lines) /\ r \in Seq(Lines)
      BY <2>2, <2>3
    <3> QED BY ONLY <3>1, Concatenation
  <2>5. ans' = b \o r
    BY <1>9 DEF b, r
  <2>6. /\ n + 1 \in 1 .. Len(ans') /\ ans'[n + 1] = Line("errno", 1)
        /\ \A j \in 1 .. (n + 1 - 1) : ans'[j] # EmptyLine
    BY <2>2, <2>3, <2>4, <2>5
  <2>7. Doomed(dp, ans)'
    BY <2>6 DEF Doomed
  <2>8. ToRead(dp, ans)'
    BY <1>1, <1>3, <2>4, <2>5, <2>7 DEF ToRead, ParserState, ParsedPeer, ParserOver
  <2> QED BY <1>1, <1>2, <2>8 DEF Getting
<1> QED BY <1>4, <1>8, <1>9

\* Once an error is certain it stays.
LEMMA ParseDomain ==
  ASSUME NEW p, NEW line
  PROVE  DOMAIN Parse(p, line) = DOMAIN p
<1>1. \A f, k, v : DOMAIN [f EXCEPT ![k] = v] = DOMAIN f
  OBVIOUS
<1>2. DOMAIN Fail(p) = DOMAIN p /\ DOMAIN StartPeer(p, line.val) = DOMAIN p
  BY DEF Fail, StartPeer
<1>3. DOMAIN PeerParse(p, line) = DOMAIN p
  BY DEF PeerParse, SetHandshake
<1>4. DOMAIN [p EXCEPT ![line.key] = line.val] = DOMAIN p
  OBVIOUS
<1> QED BY <1>2, <1>3, <1>4 DEF Parse

LEMMA DoomedStep ==
  ASSUME NEW p, "err" \in DOMAIN p, NEW lines \in Seq(Lines), Doomed(p, lines),
         lines # <<>>, Head(lines) # EmptyLine
  PROVE  Doomed(Parse(p, Head(lines)), Tail(lines))
<1> DEFINE h == Head(lines)
           q == Parse(p, h)
           t == Tail(lines)
<1>1. \A x : "err" \in DOMAIN x => Fail(x).err
  BY DEF Fail
<1>2. CASE p.err \/ h = Line("errno", 1)
  <2>1. q = Fail(p)
    BY <1>2 DEF Parse, Line
  <2>2. q.err
    BY <1>1, <2>1
  <2> QED BY <2>2 DEF Doomed
<1>3. CASE ~ (p.err \/ h = Line("errno", 1))
  <2>1. PICK j \in 1 .. Len(lines) : /\ lines[j] = Line("errno", 1)
                                     /\ \A i \in 1 .. (j - 1) : lines[i] # EmptyLine
    BY <1>3 DEF Doomed
  <2>2. h = lines[1] /\ j # 1
    BY <1>3, <2>1
  <2>3. /\ t \in Seq(Lines) /\ Len(t) = Len(lines) - 1
        /\ \A i \in 1 .. (Len(lines) - 1) : t[i] = lines[i + 1]
    OBVIOUS
  <2> HIDE DEF t
  <2>4. j - 1 \in 1 .. Len(t) /\ t[j - 1] = lines[j]
    BY <2>2, <2>3
  <2>5. \A i \in 1 .. (j - 1 - 1) : t[i] # EmptyLine
    BY <2>1, <2>3
  <2> QED BY <2>1, <2>4, <2>5 DEF Doomed, t
<1> QED BY <1>2, <1>3

\* The client reads one line.
LEMMA ReadStep == ASSUME Getting, verb = "get", ReadLine PROVE Getting'
<1>1. /\ stage = "read" /\ ans # <<>> /\ Head(ans) # EmptyLine /\ ans' = Tail(ans)
      /\ UNCHANGED <<device, shake, req, alive>>
  BY DEF ReadLine, daemonVars
<1>2. Held' /\ req' = <<>>
  BY <1>1 DEF Getting, Held
<1>3. CASE Head(ans).key = "malformed"
  <2>1. stage' = "done" /\ outcome' = "parse"
    BY <1>3 DEF ReadLine, Ends
  <2> QED BY <1>2, <2>1 DEF Getting
<1>4. CASE Head(ans).key # "malformed"
  <2>1. dp' = Parse(dp, Head(ans)) /\ stage' = "read" /\ outcome' = outcome /\ outcome # "ok"
    BY <1>1, <1>4 DEF ReadLine, Getting
  <2> SUFFICES ASSUME alive PROVE ToRead(dp, ans)'
    BY <1>1, <1>2, <2>1 DEF Getting
  <2>2. "err" \in DOMAIN dp /\ ans \in Seq(Lines)
    BY <1>1 DEF Getting, ToRead
  <2>3. "err" \in DOMAIN dp' /\ ans' \in Seq(Lines)
    BY <1>1, <2>1, <2>2, ParseDomain
  <2>4. CASE Doomed(dp, ans)
    <3>1. Doomed(dp, ans)'
      BY <1>1, <2>1, <2>2, <2>4, DoomedStep DEF Doomed
    <3> QED BY <2>3, <3>1 DEF ToRead
  <2>5. CASE dp \in ParserState /\ InAnswer(dp, ans)
    <3>1. PICK ks : \E all \in BOOLEAN : \E e : \E pos \in Nat :
             /\ Order(ks) /\ Places(ks, all, e) /\ ReadTo(ks, all, e, pos, dp)
             /\ ans = SubSeq(Wire(ks, all), pos + 1, Len(Wire(ks, all)))
      BY <2>5 DEF InAnswer
    <3>2. PICK all \in BOOLEAN : \E e : \E pos \in Nat :
             /\ Order(ks) /\ Places(ks, all, e) /\ ReadTo(ks, all, e, pos, dp)
             /\ ans = SubSeq(Wire(ks, all), pos + 1, Len(Wire(ks, all)))
      BY <3>1
    <3>3. PICK e : \E pos \in Nat :
             /\ Order(ks) /\ Places(ks, all, e) /\ ReadTo(ks, all, e, pos, dp)
             /\ ans = SubSeq(Wire(ks, all), pos + 1, Len(Wire(ks, all)))
      BY <3>2
    <3>4. PICK pos \in Nat :
             /\ Order(ks) /\ Places(ks, all, e) /\ ReadTo(ks, all, e, pos, dp)
             /\ ans = SubSeq(Wire(ks, all), pos + 1, Len(Wire(ks, all)))
      BY <3>3
    <3> DEFINE w == Wire(ks, all)
    <3>5. w \in Seq(Lines)
      BY <3>4, WireIs DEF Getting
    <3>6. GoesOn(ks, all, e, pos, dp)
      BY <2>5, <3>4, WireStep DEF Getting
    <3>7. /\ Len(w) = e[Len(ks)] + 2
          /\ w[e[Len(ks)] + 1] = Line("errno", 0) /\ w[e[Len(ks)] + 2] = EmptyLine
      BY <3>4 DEF Places
    <3>8. CASE /\ pos + 1 < Len(w)
               /\ Parse(dp, w[pos + 1]) \in ParserState
               /\ ReadTo(ks, all, e, pos + 1, Parse(dp, w[pos + 1]))
      <4>1. pos < Len(w)
        BY <3>5, <3>8
      <4>2. Head(ans) = w[pos + 1] /\ ans' = SubSeq(w, pos + 2, Len(w))
        <5> HIDE DEF w
        <5>1. /\ Head(SubSeq(w, pos + 1, Len(w))) = w[pos + 1]
              /\ Tail(SubSeq(w, pos + 1, Len(w))) = SubSeq(w, pos + 2, Len(w))
          BY <3>5, <4>1, RestIs
        <5> QED BY <1>1, <3>4, <5>1 DEF w
      <4>3. dp' \in ParserState /\ ReadTo(ks, all, e, pos + 1, dp')
        BY <2>1, <3>8, <4>2
      <4>4. InAnswer(dp', ans')
        <5>1. pos + 1 \in Nat /\ pos + 1 + 1 = pos + 2
          OBVIOUS
        <5> QED BY <3>4, <4>2, <4>3, <5>1 DEF InAnswer
      <4>5. InAnswer(dp, ans)'
        <5>1. \A p, lines : InAnswer(p, lines)' <=> InAnswer(p, lines)
          BY <1>1, SameReading
        <5> QED BY ONLY <4>4, <5>1
      <4>6. (dp \in ParserState)'
        BY <4>3 DEF ParserState, ParserOver, ParsedPeer
      <4> QED BY <2>3, <4>5, <4>6 DEF ToRead
    <3>9. CASE pos = e[Len(ks)] /\ UpTo(ks, Len(ks), dp)
      <4>1. pos < Len(w) /\ pos + 1 < Len(w) /\ Len(w) = pos + 2
        BY <3>7, <3>9
      <4>2. Head(ans) = w[pos + 1] /\ ans' = SubSeq(w, pos + 2, Len(w))
        <5> HIDE DEF w
        <5>1. /\ Head(SubSeq(w, pos + 1, Len(w))) = w[pos + 1]
              /\ Tail(SubSeq(w, pos + 1, Len(w))) = SubSeq(w, pos + 2, Len(w))
          BY <3>5, <4>1, RestIs
        <5> QED BY <1>1, <3>4, <5>1 DEF w
      <4>3. Head(ans) = Line("errno", 0)
        BY <3>7, <3>9, <4>2
      <4>4. dp' = dp
        BY <2>1, <2>5, <3>9, <4>3, ParseErrno DEF UpTo
      <4>5. ans' = <<EmptyLine>>
        <5>1. w[pos + 2] = EmptyLine
          BY <3>7, <3>9
        <5> HIDE DEF w
        <5> DEFINE n == pos + 2
                   r == SubSeq(w, n, Len(w))
        <5>2. w \in Seq(Lines) /\ Len(w) = n /\ n \in Nat /\ n >= 1
          BY <3>5, <4>1
        <5> HIDE DEF n
        <5>3. r \in Seq(Lines) /\ Len(r) = 1 /\ r[1] = w[n]
          BY <5>2
        <5> HIDE DEF r
        <5>4. r = <<w[n]>>
          BY <5>3
        <5> QED BY <4>2, <5>1, <5>4 DEF n, r
      <4>6. AllTold(dp')
        BY <2>5, <3>4, <3>9, <4>4 DEF AllTold
      <4>7. AllTold(dp)'
        <5>1. \A p : AllTold(p)' <=> AllTold(p)
          BY <1>1, SameReading
        <5> QED BY ONLY <4>6, <5>1
      <4>8. AllRead(dp, ans)'
        BY <4>5, <4>7 DEF AllRead
      <4>9. (dp \in ParserState)'
        BY <2>5, <4>4 DEF ParserState, ParserOver, ParsedPeer
      <4> QED BY <2>3, <4>8, <4>9 DEF ToRead
    <3> QED BY <3>6, <3>8, <3>9 DEF GoesOn
  <2>6. CASE AllRead(dp, ans)
    BY <1>1, <2>6 DEF AllRead
  <2> QED BY <1>1, <2>4, <2>5, <2>6 DEF Getting, ToRead
<1> QED BY <1>3, <1>4

\* The answer's end.
LEMMA ReadEnds == ASSUME Getting, verb = "get", EndOfAnswer PROVE Getting'
<1>1. /\ stage = "read" /\ UNCHANGED <<device, shake, req, alive, dp>>
      /\ stage' = "done" /\ outcome' = IF dp.err THEN "parse" ELSE "ok"
      /\ IF ans = <<>> THEN ~ alive ELSE Head(ans) = EmptyLine
  BY DEF EndOfAnswer, daemonVars, Ends
<1>2. Held' /\ req' = <<>>
  BY <1>1 DEF Getting, Held
<1>3. ASSUME alive, ~ dp.err PROVE AllTold(dp)
  <2>1. ans # <<>> /\ Head(ans) = EmptyLine /\ ToRead(dp, ans) /\ ans \in Seq(Lines)
    BY <1>1, <1>3 DEF Getting, ToRead
  <2>2. Head(ans) = ans[1] /\ Head(ans).key = "empty"
    BY <2>1 DEF EmptyLine, Line
  <2>3. ~ Doomed(dp, ans)
    <3> SUFFICES ASSUME NEW j \in 1 .. Len(ans), ans[j] = Line("errno", 1),
                        \A i \in 1 .. (j - 1) : ans[i] # EmptyLine
                 PROVE  FALSE
      BY <1>3 DEF Doomed
    <3>1. CASE j = 1
      <4>1. ans[1].key = "errno"
        BY <3>1 DEF Line
      <4> QED BY <2>2, <4>1
    <3>2. CASE j # 1
      <4>1. 1 \in 1 .. (j - 1)
        BY <3>2
      <4> QED BY <2>1, <2>2, <4>1
    <3> QED BY <3>1, <3>2
  <2>4. CASE dp \in ParserState /\ InAnswer(dp, ans)
    <3>11. PICK ks : \E all \in BOOLEAN : \E e : \E pos \in Nat :
             /\ Order(ks) /\ Places(ks, all, e) /\ ReadTo(ks, all, e, pos, dp)
             /\ ans = SubSeq(Wire(ks, all), pos + 1, Len(Wire(ks, all)))
      BY <2>4 DEF InAnswer
    <3>12. PICK all \in BOOLEAN : \E e : \E pos \in Nat :
             /\ Order(ks) /\ Places(ks, all, e) /\ ReadTo(ks, all, e, pos, dp)
             /\ ans = SubSeq(Wire(ks, all), pos + 1, Len(Wire(ks, all)))
      BY <3>11
    <3>13. PICK e : \E pos \in Nat :
             /\ Order(ks) /\ Places(ks, all, e) /\ ReadTo(ks, all, e, pos, dp)
             /\ ans = SubSeq(Wire(ks, all), pos + 1, Len(Wire(ks, all)))
      BY <3>12
    <3>1. PICK pos \in Nat :
             /\ Order(ks) /\ Places(ks, all, e) /\ ReadTo(ks, all, e, pos, dp)
             /\ ans = SubSeq(Wire(ks, all), pos + 1, Len(Wire(ks, all)))
      BY <3>13
    <3> DEFINE w == Wire(ks, all)
    <3>2. w \in Seq(Lines)
      BY <3>1, WireIs DEF Getting
    <3>3. GoesOn(ks, all, e, pos, dp)
      BY <2>4, <3>1, WireStep DEF Getting
    <3>4. /\ Len(w) = e[Len(ks)] + 2 /\ w[e[Len(ks)] + 1] = Line("errno", 0)
      BY <3>1 DEF Places
    <3>5. pos < Len(w) => Head(ans) = w[pos + 1]
      <4> HIDE DEF w
      <4>1. pos < Len(w) => Head(SubSeq(w, pos + 1, Len(w))) = w[pos + 1]
        BY <3>2, RestIs
      <4> QED BY <3>1, <4>1 DEF w
    <3>6. CASE pos + 1 < Len(w) /\ w[pos + 1].key \notin {"empty", "malformed"}
      <4>1. pos < Len(w)
        BY <3>2, <3>6
      <4> QED BY <2>2, <3>5, <3>6, <4>1
    <3>7. CASE pos = e[Len(ks)] /\ UpTo(ks, Len(ks), dp)
      BY <2>4, <3>1, <3>7 DEF AllTold
    <3> QED BY <3>3, <3>6, <3>7 DEF GoesOn
  <2>5. CASE AllRead(dp, ans)
    BY <2>5 DEF AllRead
  <2> QED BY <2>1, <2>3, <2>4, <2>5 DEF ToRead
<1>4. ASSUME alive, ~ dp.err PROVE AllTold(dp)'
  <2>1. \A p : AllTold(p)' <=> AllTold(p)
    BY <1>1, SameReading
  <2>2. AllTold(dp')
    BY <1>1, <1>3, <1>4
  <2> QED BY ONLY <2>1, <2>2
<1> QED BY <1>1, <1>2, <1>4 DEF Getting

\* What is left alone stays as it is.
LEMMA KeptStep ==
  ASSUME Getting, UNCHANGED <<device, shake, dp>>, req' = <<>>,
         \/ UNCHANGED <<stage, outcome, alive, ans>>
         \/ UNCHANGED <<stage, outcome>> /\ ~ alive'
         \/ stage' \in {"check", "write"} /\ stage \in {"dial", "check"} /\ UNCHANGED outcome
         \/ stage' = "done" /\ outcome' \in {"dial", "linebreak", "io", "timeout"}
  PROVE  Getting'
<1>2. UNCHANGED <<device, shake, dp>> /\ req' = <<>>
  OBVIOUS
<1>3. Held'
  BY <1>2 DEF Getting, Held
<1>4. \A p : /\ \A lines : InAnswer(p, lines)' <=> InAnswer(p, lines)
             /\ AllTold(p)' <=> AllTold(p)
  BY <1>2, SameReading
<1>5. AllTold(dp) => AllTold(dp)'
  <2> SUFFICES ASSUME AllTold(dp) PROVE AllTold(dp)'
    OBVIOUS
  <2>1. AllTold(dp')
    BY <1>2
  <2> QED BY ONLY <1>4, <2>1
<1>6. CASE UNCHANGED <<stage, outcome, alive, ans>>
  <2>1. ASSUME ToRead(dp, ans) PROVE ToRead(dp, ans)'
    <3>1. "err" \in DOMAIN dp' /\ ans' \in Seq(Lines)
      BY <1>2, <1>6, <2>1 DEF ToRead
    <3>2. CASE Doomed(dp, ans)
      <4>1. Doomed(dp, ans)'
        BY <1>2, <1>6, <3>2 DEF Doomed
      <4> QED BY <3>1, <4>1 DEF ToRead
    <3>3. CASE dp \in ParserState /\ (InAnswer(dp, ans) \/ AllRead(dp, ans))
      <4>1. InAnswer(dp, ans) => InAnswer(dp, ans)'
        <5> SUFFICES ASSUME InAnswer(dp, ans) PROVE InAnswer(dp, ans)'
          OBVIOUS
        <5>1. InAnswer(dp', ans')
          BY <1>2, <1>6
        <5> QED BY ONLY <1>4, <5>1
      <4>2. AllRead(dp, ans) => AllRead(dp, ans)'
        BY <1>5, <1>6 DEF AllRead
      <4>3. (dp \in ParserState)'
        BY <1>2, <3>3 DEF ParserState, ParserOver, ParsedPeer
      <4> QED BY <3>1, <3>3, <4>1, <4>2, <4>3 DEF ToRead
    <3> QED BY <2>1, <3>2, <3>3 DEF ToRead
  <2> QED BY <1>2, <1>3, <1>5, <1>6, <2>1 DEF Getting
<1>7. CASE UNCHANGED <<stage, outcome>> /\ ~ alive'
  BY <1>2, <1>3, <1>7 DEF Getting
<1>8. CASE stage' \in {"check", "write"} /\ stage \in {"dial", "check"} /\ UNCHANGED outcome
  BY <1>2, <1>3, <1>8 DEF Getting
<1>9. CASE stage' = "done" /\ outcome' \in {"dial", "linebreak", "io", "timeout"}
  BY <1>2, <1>3, <1>9 DEF Getting
<1> QED BY <1>6, <1>7, <1>8, <1>9

\* Steps of the exchange that concern neither the answer nor the parser.
LEMMA OtherStep ==
  ASSUME Getting, verb = "get",
         \/ Dial \/ Check \/ WriteFails \/ WriteSet \/ DaemonSets \/ DaemonDone
         \/ DaemonRefuses \/ DaemonDies \/ TimePasses \/ ReadReply \/ Timeout
  PROVE  Getting'
<1>1. req = <<>>
  BY DEF Getting
<1> DEFINE onward == stage' \in {"check", "write"} /\ stage \in {"dial", "check"} /\ UNCHANGED outcome
           failed == stage' = "done" /\ outcome' \in {"dial", "linebreak", "io", "timeout"}
           still  == UNCHANGED <<stage, outcome, alive, ans>>
           dead   == UNCHANGED <<stage, outcome>> /\ ~ alive'
           rest   == UNCHANGED <<device, shake, dp>> /\ req' = <<>>
<1>2. rest /\ (still \/ dead \/ onward \/ failed)
  <2> HIDE DEF onward, failed, still, dead, rest
  <2>1. CASE Dial
    <3>1. rest
      BY <1>1, <2>1 DEF Dial, daemonVars, rest
    <3>2. onward \/ failed
      BY <2>1 DEF Dial, Ends, onward, failed
    <3> QED BY <3>1, <3>2
  <2>2. CASE Check
    <3>1. rest
      BY <1>1, <2>2 DEF Check, daemonVars, rest
    <3>2. onward \/ failed
      BY <2>2 DEF Check, Ends, onward, failed
    <3> QED BY <3>1, <3>2
  <2>3. CASE WriteFails
    <3>1. UNCHANGED <<device, shake, dp>>
      BY <2>3 DEF WriteFails, daemonVars
    <3>2. failed /\ (req' = req \/ req' \in {<<>>})
      BY <2>3 DEF WriteFails, Ends, failed
    <3> QED BY <1>1, <3>1, <3>2 DEF rest
  <2>4. CASE WriteSet \/ ReadReply
    BY <2>4 DEF WriteSet, ReadReply
  <2>5. CASE DaemonSets \/ DaemonDone \/ DaemonRefuses
    <3>1. req # <<>>
      BY <2>5 DEF DaemonSets, DaemonDone, DaemonRefuses
    <3> QED BY <1>1, <3>1
  <2>6. CASE DaemonDies
    BY <2>6 DEF DaemonDies, clientVars, dead, rest
  <2>7. CASE TimePasses
    BY <1>1, <2>7 DEF TimePasses, clientVars, daemonVars, still, rest
  <2>8. CASE Timeout
    <3>1. rest
      BY <1>1, <2>8 DEF Timeout, daemonVars, rest
    <3>2. failed
      BY <2>8 DEF Timeout, Ends, failed
    <3> QED BY <3>1, <3>2
  <2> QED BY <2>1, <2>2, <2>3, <2>4, <2>5, <2>6, <2>7, <2>8
<1> HIDE DEF onward, failed, still, dead, rest
<1> QED BY ONLY <1>2, Getting, KeptStep DEF onward, failed, still, dead, rest

LEMMA GetStep == GetInv /\ [ExchangeNext]_exchangeVars => GetInv'
<1> SUFFICES ASSUME GetInv, [ExchangeNext]_exchangeVars PROVE GetInv'
  OBVIOUS
<1>1. verb' = verb
  BY DEF ExchangeNext, exchangeVars, clientVars, Dial, Check, WriteFails, WriteGet, WriteSet,
         DaemonSets, DaemonDone, DaemonRefuses, DaemonDies, TimePasses, ReadLine, EndOfAnswer,
         ReadReply, Timeout
<1> SUFFICES ASSUME verb = "get" PROVE Getting'
  BY <1>1 DEF GetInv
<1>2. Getting
  BY DEF GetInv
<1>3. CASE UNCHANGED exchangeVars
  <2>1. UNCHANGED <<stage, outcome, alive, ans, dp, device, shake, req>>
    BY <1>3 DEF exchangeVars, clientVars, daemonVars
  <2>2. req' = <<>>
    BY <1>2, <2>1 DEF Getting
  <2> QED BY <1>2, <2>1, <2>2, KeptStep
<1> QED BY <1>2, <1>3, AnswerStep, ReadStep, ReadEnds, OtherStep DEF ExchangeNext

\* A request to get a device that succeeds while the daemon lives tells the
\* whole of what the daemon holds: each of its peers once, with its own
\* handshake and allowed IPs, in whatever order the lines came.
THEOREM GetRight == ExchangeSpec => []GetAsIs
<1>1. GetInv => GetAsIs
  <2> SUFFICES ASSUME Getting, verb = "get", outcome = "ok", alive PROVE GetAsIs
    BY DEF GetInv, GetAsIs
  <2>0. AllTold(dp) /\ dp \in ParserState
    BY DEF Getting, AllTold
  <2>1. PICK ks : Order(ks) /\ UpTo(ks, Len(ks), dp)
    BY <2>0 DEF AllTold
  <2>2. /\ dp.dev = device.dev /\ dp.awg = device.awg
        /\ Len(dp.peers) = Cardinality(DOMAIN device.peers)
    BY <2>1 DEF Order, UpTo
  <2>3. ASSUME NEW k \in DOMAIN device.peers
        PROVE  \E i \in DOMAIN dp.peers : WholePeer(k, dp.peers[i])
    <3>1. PICK i \in DOMAIN ks : ks[i] = k
      BY <2>1 DEF Order
    <3>2. i \in 1 .. Len(ks) /\ Len(dp.peers) = Len(ks)
      BY <2>1, <3>1 DEF Order, UpTo
    <3>3. dp.peers \in Seq(ParsedPeer)
      BY <2>0 DEF ParserState, ParserOver
    <3>4. i \in DOMAIN dp.peers
      BY <3>2, <3>3
    <3>5. WholePeer(ks[i], dp.peers[i])
      BY <2>1, <3>2 DEF UpTo
    <3> QED BY <3>1, <3>4, <3>5
  <2> QED BY <2>2, <2>3 DEF GetAsIs, WholePeer
<1> QED BY <1>1, GetInit, GetStep, PTL DEF ExchangeSpec

-----------------------------------------------------------------------------
(* UAPI: a configuration is taken peer by peer.                            *)

\* What Configured says, by name.
BaseOf(d, x)   == IF x.ReplacePeers THEN {} ELSE DOMAIN d.peers
OldOf(d, x, k) == IF k \in BaseOf(d, x) THEN d.peers[k] ELSE NewPeer
Effective(d, x) ==
  {i \in DOMAIN x.Peers : /\ ~ x.Peers[i].Remove
                          /\ x.Peers[i].UpdateOnly => x.Peers[i].PublicKey \in BaseOf(d, x)}
EntriesOf(d, x, k) == {i \in Effective(d, x) : x.Peers[i].PublicKey = k}
ClaimsOn(d, x, a)  == {i \in Effective(d, x) : a \in ToSet(x.Peers[i].AllowedIPs)}
KeysAfter(d, x) ==
  (BaseOf(d, x) \ {x.Peers[i].PublicKey : i \in {j \in DOMAIN x.Peers : x.Peers[j].Remove}})
    \union {x.Peers[i].PublicKey : i \in Effective(d, x)}
OptsAfter(d, x, k) ==
  IF \E i \in EntriesOf(d, x, k) : x.Peers[i].opts # Nil
  THEN (CHOOSE p \in {x.Peers[i] : i \in EntriesOf(d, x, k)} : TRUE).opts
  ELSE OldOf(d, x, k).opts
AdvAfter(d, x, k) ==
  IF \E i \in EntriesOf(d, x, k) : x.Peers[i].AdvancedSecurity \/ x.Peers[i].DisableAdvancedSecurity
  THEN \E i \in EntriesOf(d, x, k) : x.Peers[i].AdvancedSecurity
  ELSE OldOf(d, x, k).adv
IPsAfter(d, x, k) ==
  {a \in IPs : IF ClaimsOn(d, x, a) # {} THEN x.Peers[Max(ClaimsOn(d, x, a))].PublicKey = k
               ELSE /\ a \in OldOf(d, x, k).ips
                    /\ ~ \E i \in EntriesOf(d, x, k) : x.Peers[i].ReplaceAllowedIPs}

LEMMA ConfiguredIs ==
  ASSUME NEW d, NEW x
  PROVE  Configured(d, x) =
           [dev   |-> IF x.dev = Nil THEN d.dev ELSE x.dev,
            awg   |-> IF x.awg = Nil THEN d.awg ELSE x.awg,
            peers |-> [k \in KeysAfter(d, x) |->
                         [opts |-> OptsAfter(d, x, k), adv |-> AdvAfter(d, x, k),
                          ips  |-> IPsAfter(d, x, k)]]]
BY DEF Configured, BaseOf, OldOf, Effective, EntriesOf, ClaimsOn, KeysAfter, OptsAfter, AdvAfter,
       IPsAfter

\* One entry of a configuration applied to a peer, and to the peers of a device.
Entry(old, p) ==
  [opts |-> IF p.opts # Nil THEN p.opts ELSE old.opts,
   adv  |-> IF p.AdvancedSecurity \/ p.DisableAdvancedSecurity THEN p.AdvancedSecurity ELSE old.adv,
   ips  |-> ToSet(p.AllowedIPs) \union (IF p.ReplaceAllowedIPs THEN {} ELSE old.ips)]

Takes(peers, p) == ~ p.Remove /\ (p.UpdateOnly => p.PublicKey \in DOMAIN peers)
HadBefore(peers, k) == IF k \in DOMAIN peers THEN peers[k] ELSE NewPeer

WithEntry(peers, p) ==
  IF Takes(peers, p)
  THEN [k \in DOMAIN peers \union {p.PublicKey} |->
          IF k = p.PublicKey THEN Entry(HadBefore(peers, k), p)
          ELSE [opts |-> peers[k].opts, adv |-> peers[k].adv,
                ips  |-> peers[k].ips \ ToSet(p.AllowedIPs)]]
  ELSE [k \in DOMAIN peers \ {p.PublicKey} |-> peers[k]]

\* The last of the entries that claim an allowed IP.
LEMMA LastClaim ==
  ASSUME NEW n \in Nat, NEW S \in SUBSET (1 .. n), S # {}
  PROVE  Max(S) \in S /\ \A y \in S : Max(S) >= y
<1> DEFINE T == {n - i : i \in S}
<1>1. T \in SUBSET Nat /\ T # {}
  <2>1. \A i \in S : i \in Nat /\ n - i \in Nat
    OBVIOUS
  <2> QED BY <2>1
<1>2. PICK t \in T : \A m \in T : t <= m
  BY <1>1, LeastMember
<1>3. PICK s \in S : t = n - s
  BY <1>2
<1>4. \A y \in S : n - s <= n - y
  BY <1>2, <1>3
<1>5. \A y \in S : s >= y
  BY <1>4
<1>6. S \in SUBSET Int
  OBVIOUS
<1> QED BY <1>5, <1>6, MaxIs

\* A configuration with one more peer.
OneMore(x, p) == [x EXCEPT !.Peers = Append(@, p)]

LEMMA OneMoreIs ==
  ASSUME NEW x \in Config, NEW p \in PeerConfig
  PROVE  /\ OneMore(x, p) \in Config
         /\ OneMore(x, p).dev = x.dev /\ OneMore(x, p).awg = x.awg
         /\ OneMore(x, p).ReplacePeers = x.ReplacePeers
         /\ Len(x.Peers) \in Nat /\ DOMAIN x.Peers = 1 .. Len(x.Peers)
         /\ DOMAIN OneMore(x, p).Peers = 1 .. (Len(x.Peers) + 1)
         /\ OneMore(x, p).Peers[Len(x.Peers) + 1] = p
         /\ \A i \in 1 .. Len(x.Peers) : OneMore(x, p).Peers[i] = x.Peers[i]
<1> DEFINE s == x.Peers
           t == Append(s, p)
<1>1. s \in Seq(PeerConfig)
  BY DEF Config
<1>2. /\ t \in Seq(PeerConfig) /\ Len(s) \in Nat /\ DOMAIN s = 1 .. Len(s)
      /\ DOMAIN t = 1 .. (Len(s) + 1) /\ t[Len(s) + 1] = p
      /\ \A i \in 1 .. Len(s) : t[i] = s[i]
  BY <1>1
<1> HIDE DEF t
<1>3. /\ OneMore(x, p) \in Config /\ OneMore(x, p).Peers = t
      /\ OneMore(x, p).dev = x.dev /\ OneMore(x, p).awg = x.awg
      /\ OneMore(x, p).ReplacePeers = x.ReplacePeers
  BY <1>2 DEF OneMore, Config, t
<1> QED BY <1>2, <1>3

\* One more entry, whose key is new, changes what is configured by just that
\* entry.
LEMMA ConfiguredStep ==
  ASSUME NEW d \in DeviceState, NEW x \in Config, NEW p \in PeerConfig,
         \A i \in DOMAIN x.Peers : x.Peers[i].PublicKey # p.PublicKey
  PROVE  Configured(d, OneMore(x, p))
           = [dev |-> Configured(d, x).dev, awg |-> Configured(d, x).awg,
              peers |-> WithEntry(Configured(d, x).peers, p)]
<1> DEFINE z == OneMore(x, p)
           n == Len(x.Peers)
           k == p.PublicKey
           now == Configured(d, x).peers
           takes == ~ p.Remove /\ (p.UpdateOnly => k \in BaseOf(d, x))
           more == IF takes THEN {n + 1} ELSE {}
<1>1. /\ z.dev = x.dev /\ z.awg = x.awg /\ z.ReplacePeers = x.ReplacePeers
      /\ n \in Nat /\ DOMAIN x.Peers = 1 .. n /\ DOMAIN z.Peers = 1 .. (n + 1)
      /\ z.Peers[n + 1] = p /\ \A i \in 1 .. n : z.Peers[i] = x.Peers[i]
  BY OneMoreIs
<1>2. p.PublicKey \in Keys /\ p.AllowedIPs \in Seq(IPs)
  BY DEF PeerConfig
<1> HIDE DEF z, n
<1>3. BaseOf(d, z) = BaseOf(d, x) /\ \A y : OldOf(d, z, y) = OldOf(d, x, y)
  BY <1>1 DEF BaseOf, OldOf
<1>4. /\ \A i : i \in 1 .. (n + 1) <=> i \in 1 .. n \/ i = n + 1
      /\ n + 1 \notin 1 .. n
  BY <1>1
<1>5. Effective(d, z) = Effective(d, x) \union more /\ Effective(d, x) \subseteq 1 .. n
  BY <1>1, <1>3, <1>4 DEF Effective
<1>6. \A i \in Effective(d, x) : x.Peers[i].PublicKey # k /\ z.Peers[i] = x.Peers[i]
  BY <1>1, <1>5
<1>7. EntriesOf(d, x, k) = {} /\ EntriesOf(d, z, k) = more
  BY <1>1, <1>5, <1>6 DEF EntriesOf
<1>8. \A y : y # k => EntriesOf(d, z, y) = EntriesOf(d, x, y)
  BY <1>1, <1>5, <1>6 DEF EntriesOf
<1>9. \A y : \A i \in EntriesOf(d, x, y) : z.Peers[i] = x.Peers[i]
  BY <1>6 DEF EntriesOf
<1>10. ASSUME NEW y, y # k
       PROVE  OptsAfter(d, z, y) = OptsAfter(d, x, y) /\ AdvAfter(d, z, y) = AdvAfter(d, x, y)
  <2>1. EntriesOf(d, z, y) = EntriesOf(d, x, y)
    BY <1>8, <1>10
  <2>2. {z.Peers[i] : i \in EntriesOf(d, z, y)} = {x.Peers[i] : i \in EntriesOf(d, x, y)}
    BY <1>9, <2>1
  <2>3. \A i \in EntriesOf(d, x, y) : z.Peers[i] = x.Peers[i]
    BY <1>9
  <2>4. /\ (\E i \in EntriesOf(d, x, y) : z.Peers[i].opts # Nil)
              <=> (\E i \in EntriesOf(d, x, y) : x.Peers[i].opts # Nil)
        /\ (\E i \in EntriesOf(d, x, y) : z.Peers[i].AdvancedSecurity \/ z.Peers[i].DisableAdvancedSecurity)
             <=> (\E i \in EntriesOf(d, x, y) : x.Peers[i].AdvancedSecurity \/ x.Peers[i].DisableAdvancedSecurity)
        /\ (\E i \in EntriesOf(d, x, y) : z.Peers[i].AdvancedSecurity)
             = (\E i \in EntriesOf(d, x, y) : x.Peers[i].AdvancedSecurity)
    BY <2>3
  <2>5. OldOf(d, z, y) = OldOf(d, x, y)
    BY <1>3
  <2>6. OptsAfter(d, z, y) = OptsAfter(d, x, y)
    <3>1. (CHOOSE q \in {z.Peers[i] : i \in EntriesOf(d, z, y)} : TRUE)
            = (CHOOSE q \in {x.Peers[i] : i \in EntriesOf(d, x, y)} : TRUE)
      BY ONLY <2>2
    <3>2. (\E i \in EntriesOf(d, z, y) : z.Peers[i].opts # Nil)
            <=> (\E i \in EntriesOf(d, x, y) : x.Peers[i].opts # Nil)
      BY ONLY <2>1, <2>4
    <3> QED BY ONLY <2>5, <3>1, <3>2, Zenon DEF OptsAfter
  <2>7. AdvAfter(d, z, y) = AdvAfter(d, x, y)
    BY ONLY <2>1, <2>4, <2>5, Zenon DEF AdvAfter
  <2> QED BY <2>6, <2>7
<1>11. ASSUME NEW a
       PROVE  /\ ClaimsOn(d, z, a) = ClaimsOn(d, x, a)
                                       \union (IF takes /\ a \in ToSet(p.AllowedIPs) THEN {n + 1} ELSE {})
              /\ ClaimsOn(d, x, a) \subseteq 1 .. n
  BY <1>1, <1>5, <1>6 DEF ClaimsOn
<1>12. ASSUME NEW a, ClaimsOn(d, x, a) # {}
       PROVE  Max(ClaimsOn(d, x, a)) \in 1 .. n /\ x.Peers[Max(ClaimsOn(d, x, a))].PublicKey # k
              /\ z.Peers[Max(ClaimsOn(d, x, a))] = x.Peers[Max(ClaimsOn(d, x, a))]
  <2>1. Max(ClaimsOn(d, x, a)) \in ClaimsOn(d, x, a)
    BY <1>1, <1>11, <1>12, LastClaim
  <2> QED BY <1>6, <1>11, <2>1 DEF ClaimsOn
<1>13. ASSUME NEW a, takes, a \in ToSet(p.AllowedIPs)
       PROVE  ClaimsOn(d, z, a) # {} /\ z.Peers[Max(ClaimsOn(d, z, a))] = p
  <2> DEFINE S == ClaimsOn(d, z, a)
             m == n + 1
  <2>1. m \in S /\ S \subseteq 1 .. n \union {m}
    BY <1>11, <1>13
  <2> HIDE DEF S
  <2>2. S \in SUBSET Int /\ \A y \in S : m >= y
    <3>1. n \in Nat
      BY <1>1
    <3> QED BY ONLY <2>1, <3>1
  <2>3. Max(S) = m
    BY ONLY <2>1, <2>2, MaxIs
  <2> QED BY <1>1, <2>1, <2>3 DEF S
<1>14. ASSUME NEW a, ~ (takes /\ a \in ToSet(p.AllowedIPs))
       PROVE  ClaimsOn(d, z, a) = ClaimsOn(d, x, a)
  BY <1>11, <1>14
<1>15. ASSUME NEW y, y # k
       PROVE  IPsAfter(d, z, y) = IPsAfter(d, x, y) \ (IF takes THEN ToSet(p.AllowedIPs) ELSE {})
  <2>1. ASSUME NEW a \in IPs
        PROVE  a \in IPsAfter(d, z, y)
                 <=> a \in IPsAfter(d, x, y) /\ ~ (takes /\ a \in ToSet(p.AllowedIPs))
    <3>1. CASE takes /\ a \in ToSet(p.AllowedIPs)
      <4>1. ClaimsOn(d, z, a) # {} /\ z.Peers[Max(ClaimsOn(d, z, a))].PublicKey # y
        BY <1>13, <1>15, <3>1
      <4> QED BY <3>1, <4>1 DEF IPsAfter
    <3>2. CASE ~ (takes /\ a \in ToSet(p.AllowedIPs))
      <4>1. ClaimsOn(d, z, a) = ClaimsOn(d, x, a)
        BY <1>14, <3>2
      <4>2. ClaimsOn(d, x, a) # {} =>
              z.Peers[Max(ClaimsOn(d, x, a))] = x.Peers[Max(ClaimsOn(d, x, a))]
        BY <1>12
      <4>3. EntriesOf(d, z, y) = EntriesOf(d, x, y)
            /\ \A i \in EntriesOf(d, x, y) : z.Peers[i] = x.Peers[i]
        BY <1>8, <1>9, <1>15
      <4> HIDE DEF takes
      <4> QED BY <1>3, <3>2, <4>1, <4>2, <4>3 DEF IPsAfter
    <3> QED BY <3>1, <3>2
  <2>2. \A a : a \in IPsAfter(d, z, y) \/ a \in IPsAfter(d, x, y) => a \in IPs
    BY DEF IPsAfter
  <2> HIDE DEF takes
  <2> QED BY <2>1, <2>2
<1>16. IPsAfter(d, x, k) = {a \in IPs : ClaimsOn(d, x, a) = {} /\ a \in OldOf(d, x, k).ips}
  BY <1>7, <1>12 DEF IPsAfter
<1>17. OptsAfter(d, x, k) = OldOf(d, x, k).opts /\ AdvAfter(d, x, k) = OldOf(d, x, k).adv
  BY <1>7 DEF OptsAfter, AdvAfter
<1>18. ASSUME takes
       PROVE  [opts |-> OptsAfter(d, z, k), adv |-> AdvAfter(d, z, k), ips |-> IPsAfter(d, z, k)]
                = Entry([opts |-> OptsAfter(d, x, k), adv |-> AdvAfter(d, x, k),
                         ips |-> IPsAfter(d, x, k)], p)
  <2>1. EntriesOf(d, z, k) = {n + 1}
    BY <1>7, <1>18
  <2>2. {z.Peers[i] : i \in EntriesOf(d, z, k)} = {p}
    BY <1>1, <2>1
  <2>3. (CHOOSE q \in {z.Peers[i] : i \in EntriesOf(d, z, k)} : TRUE) = p
    BY <2>2
  <2>4. OptsAfter(d, z, k) = IF p.opts # Nil THEN p.opts ELSE OptsAfter(d, x, k)
    <3>1. (\E i \in EntriesOf(d, z, k) : z.Peers[i].opts # Nil) <=> p.opts # Nil
      BY <1>1, <2>1
    <3>2. OldOf(d, z, k) = OldOf(d, x, k)
      BY <1>3
    <3> QED BY ONLY <1>17, <2>3, <3>1, <3>2, Zenon DEF OptsAfter
  <2>5. AdvAfter(d, z, k) = IF p.AdvancedSecurity \/ p.DisableAdvancedSecurity
                            THEN p.AdvancedSecurity ELSE AdvAfter(d, x, k)
    <3>1. p.AdvancedSecurity \in BOOLEAN
      BY DEF PeerConfig
    <3>2. \A i \in EntriesOf(d, z, k) : z.Peers[i] = p
      BY <1>1, <2>1
    <3>3. \E i : i \in EntriesOf(d, z, k)
      BY <2>1
    <3>4. (\E i \in EntriesOf(d, z, k) : z.Peers[i].AdvancedSecurity) <=> p.AdvancedSecurity
      BY <3>2, <3>3
    <3>5. (\E i \in EntriesOf(d, z, k) : z.Peers[i].AdvancedSecurity \/ z.Peers[i].DisableAdvancedSecurity)
            <=> p.AdvancedSecurity \/ p.DisableAdvancedSecurity
      BY <3>2, <3>3
    <3>6. (\E i \in EntriesOf(d, z, k) : z.Peers[i].AdvancedSecurity) = p.AdvancedSecurity
      BY <3>1, <3>4, Zenon
    <3>7. OldOf(d, z, k) = OldOf(d, x, k)
      BY <1>3
    <3> QED BY ONLY <1>17, <3>5, <3>6, <3>7, Zenon DEF AdvAfter
  <2>6. IPsAfter(d, z, k) = ToSet(p.AllowedIPs) \union
                              (IF p.ReplaceAllowedIPs THEN {} ELSE IPsAfter(d, x, k))
    <3>1. ToSet(p.AllowedIPs) \subseteq IPs
      BY <1>2 DEF ToSet
    <3>2. ASSUME NEW a \in IPs
          PROVE  a \in IPsAfter(d, z, k)
                   <=> a \in ToSet(p.AllowedIPs) \/ (~ p.ReplaceAllowedIPs /\ a \in IPsAfter(d, x, k))
      <4>1. CASE a \in ToSet(p.AllowedIPs)
        BY <1>13, <1>18, <4>1 DEF IPsAfter
      <4>2. CASE a \notin ToSet(p.AllowedIPs)
        <5>1. ClaimsOn(d, z, a) = ClaimsOn(d, x, a)
          BY <1>14, <4>2
        <5>2. ClaimsOn(d, x, a) # {} => z.Peers[Max(ClaimsOn(d, x, a))].PublicKey # k
          BY <1>12
        <5>3. (\E i \in EntriesOf(d, z, k) : z.Peers[i].ReplaceAllowedIPs) <=> p.ReplaceAllowedIPs
          BY <1>1, <2>1
        <5> QED BY <1>3, <1>16, <4>2, <5>1, <5>2, <5>3 DEF IPsAfter
      <4> QED BY <4>1, <4>2
    <3>3. \A a : a \in IPsAfter(d, z, k) \/ a \in IPsAfter(d, x, k) => a \in IPs
      BY DEF IPsAfter
    <3> QED BY <3>1, <3>2, <3>3
  <2> QED BY <2>4, <2>5, <2>6 DEF Entry
<1>19. k \in KeysAfter(d, x) <=> k \in BaseOf(d, x)
  <2>1. \A i \in 1 .. n : x.Peers[i].PublicKey # k
    BY <1>1
  <2> QED BY <1>1, <1>6, <2>1 DEF KeysAfter
<1>20. KeysAfter(d, z) = IF takes THEN KeysAfter(d, x) \union {k} ELSE KeysAfter(d, x) \ {k}
  <2>1. \A y : (\E j \in 1 .. (n + 1) : z.Peers[j].Remove /\ y = z.Peers[j].PublicKey)
                 <=> (\E j \in 1 .. n : x.Peers[j].Remove /\ y = x.Peers[j].PublicKey)
                     \/ (p.Remove /\ y = k)
    BY <1>1, <1>4
  <2>2. \A y : (\E i \in Effective(d, z) : y = z.Peers[i].PublicKey)
                 <=> (\E i \in Effective(d, x) : y = x.Peers[i].PublicKey) \/ (takes /\ y = k)
    BY <1>1, <1>5, <1>6
  <2>3. \A y : y \in KeysAfter(d, z) <=>
          \/ y \in BaseOf(d, x) /\ ~ \E j \in 1 .. (n + 1) : z.Peers[j].Remove /\ y = z.Peers[j].PublicKey
          \/ \E i \in Effective(d, z) : y = z.Peers[i].PublicKey
    BY <1>1, <1>3 DEF KeysAfter
  <2>4. \A y : y \in KeysAfter(d, x) <=>
          \/ y \in BaseOf(d, x) /\ ~ \E j \in 1 .. n : x.Peers[j].Remove /\ y = x.Peers[j].PublicKey
          \/ \E i \in Effective(d, x) : y = x.Peers[i].PublicKey
    BY <1>1 DEF KeysAfter
  <2>5. k \notin BaseOf(d, x) => k \notin KeysAfter(d, x)
    BY <1>19
  <2>6. takes => ~ p.Remove
    OBVIOUS
  <2>7. ~ takes => p.Remove \/ k \notin BaseOf(d, x)
    OBVIOUS
  <2>8. ~ \E i \in Effective(d, x) : k = x.Peers[i].PublicKey
    BY <1>6
  <2> HIDE DEF takes
  <2>9. \A y : y \in KeysAfter(d, z)
                <=> IF takes THEN y \in KeysAfter(d, x) \/ y = k ELSE y \in KeysAfter(d, x) /\ y # k
    <3> TAKE y
    <3>1. CASE y = k
      BY <2>1, <2>2, <2>3, <2>5, <2>6, <2>7, <2>8, <3>1
    <3>2. CASE y # k
      BY <2>1, <2>2, <2>3, <2>4, <3>2
    <3> QED BY <3>1, <3>2
  <2> QED BY <2>9
<1> DEFINE F(y) == [opts |-> OptsAfter(d, x, y), adv |-> AdvAfter(d, x, y), ips |-> IPsAfter(d, x, y)]
           G(y) == [opts |-> OptsAfter(d, z, y), adv |-> AdvAfter(d, z, y), ips |-> IPsAfter(d, z, y)]
           K == KeysAfter(d, x)
<1>21. now = [y \in K |-> F(y)] /\ Configured(d, z).peers = [y \in KeysAfter(d, z) |-> G(y)]
  BY ConfiguredIs
<1>22. /\ Configured(d, z).dev = Configured(d, x).dev
       /\ Configured(d, z).awg = Configured(d, x).awg
       /\ Configured(d, z) = [dev |-> Configured(d, z).dev, awg |-> Configured(d, z).awg,
                              peers |-> Configured(d, z).peers]
  BY <1>1, ConfiguredIs
<1>23. Takes(now, p) <=> takes
  BY <1>19, <1>21 DEF Takes
<1>24. CASE takes
  <2>1. \A y : y # k => G(y) = [opts |-> F(y).opts, adv |-> F(y).adv, ips |-> F(y).ips \ ToSet(p.AllowedIPs)]
    BY <1>10, <1>15, <1>24
  <2>2. G(k) = Entry(F(k), p)
    BY <1>18, <1>24
  <2>3. Entry(HadBefore(now, k), p) = Entry(F(k), p)
    <3>1. CASE k \in K
      BY <1>21, <3>1 DEF HadBefore
    <3>2. CASE k \notin K
      <4>1. OldOf(d, x, k) = NewPeer
        BY <1>19, <3>2 DEF OldOf
      <4>2. IPsAfter(d, x, k) = {}
        BY <1>16, <4>1 DEF NewPeer
      <4>3. OptsAfter(d, x, k) = Nil /\ AdvAfter(d, x, k) = FALSE
        BY <1>17, <4>1 DEF NewPeer
      <4>4. F(k) = NewPeer
        BY <4>2, <4>3 DEF NewPeer
      <4> QED BY <1>21, <3>2, <4>4 DEF HadBefore
    <3> QED BY <3>1, <3>2
  <2>4. KeysAfter(d, z) = K \union {k} /\ DOMAIN now = K
    BY <1>20, <1>21, <1>24
  <2>5. \A y \in K : now[y] = F(y)
    BY <1>21
  <2>6. WithEntry(now, p) = [y \in K \union {k} |->
          IF y = k THEN Entry(HadBefore(now, y), p)
          ELSE [opts |-> now[y].opts, adv |-> now[y].adv, ips |-> now[y].ips \ ToSet(p.AllowedIPs)]]
    BY <1>23, <1>24, <2>4 DEF WithEntry
  <2> HIDE DEF F, G, now, K
  <2> DEFINE H(y) == IF y = k THEN Entry(HadBefore(now, y), p)
                     ELSE [opts |-> now[y].opts, adv |-> now[y].adv,
                           ips |-> now[y].ips \ ToSet(p.AllowedIPs)]
  <2>7. \A y \in K \union {k} : G(y) = H(y)
    BY <2>1, <2>2, <2>3, <2>5
  <2>8. /\ Configured(d, z).peers = [y \in K \union {k} |-> G(y)]
        /\ WithEntry(now, p) = [y \in K \union {k} |-> H(y)]
    BY <1>21, <2>4, <2>6
  <2> HIDE DEF H
  <2>9. Configured(d, z).peers = WithEntry(now, p)
    BY ONLY <2>7, <2>8
  <2> QED BY <1>22, <2>9 DEF z, now
<1>25. CASE ~ takes
  <2>1. \A y : y # k => G(y) = F(y)
    BY <1>10, <1>15, <1>25
  <2>2. KeysAfter(d, z) = K \ {k} /\ DOMAIN now = K
    BY <1>20, <1>21, <1>25
  <2>3. \A y \in K : now[y] = F(y)
    BY <1>21
  <2>4. WithEntry(now, p) = [y \in K \ {k} |-> now[y]]
    BY <1>23, <1>25, <2>2 DEF WithEntry
  <2> HIDE DEF F, G, now, K
  <2>5. Configured(d, z).peers = WithEntry(now, p)
    BY <1>21, <2>1, <2>2, <2>3, <2>4
  <2> QED BY <1>22, <2>5 DEF z, now
<1> QED BY <1>24, <1>25
-----------------------------------------------------------------------------
(* UAPI: a peer's lines, and what the daemon has done after some of them.  *)

LinesOf(s) == {s[m] : m \in 1 .. Len(s)}
Opens(s, line, X) == Len(s) >= 1 /\ s[1] = line /\ {s[m] : m \in 2 .. Len(s)} = X

FieldsOf(p) ==
  (IF p.Remove THEN {Line("remove", "true")} ELSE {})
  \union (IF p.UpdateOnly THEN {Line("update_only", "true")} ELSE {})
  \union (IF p.opts # Nil THEN {Line("opts", p.opts)} ELSE {})
  \union (IF p.ReplaceAllowedIPs THEN {Line("replace_allowed_ips", "true")} ELSE {})
  \union {Line("allowed_ip", a) : a \in ToSet(p.AllowedIPs)}

\* No other line comes after an allowed IP.
IPsLast(s) ==
  \A m \in 1 .. Len(s) : \A j \in 1 .. (m - 1) :
    s[j].key = "allowed_ip" => s[m].key = "allowed_ip"

LEMMA Grow ==
  ASSUME NEW s \in Seq(Lines), NEW t \in Seq(Lines), NEW line, NEW X, Opens(s, line, X)
  PROVE  s \o t \in Seq(Lines) /\ Opens(s \o t, line, X \union LinesOf(t))
<1> DEFINE w == s \o t
<1>1. /\ w \in Seq(Lines) /\ Len(w) = Len(s) + Len(t)
      /\ \A i \in 1 .. Len(s) : w[i] = s[i]
      /\ \A j \in 1 .. Len(t) : w[Len(s) + j] = t[j]
  BY Concatenation
<1>2. Len(s) \in Nat /\ Len(t) \in Nat /\ Len(s) >= 1
  BY DEF Opens
<1> HIDE DEF w
<1>3. \A m \in 2 .. Len(w) : m \in 2 .. Len(s) \/ (m - Len(s) \in 1 .. Len(t) /\ m = Len(s) + (m - Len(s)))
  BY <1>1, <1>2
<1>4. \A m \in 2 .. Len(s) : m \in 2 .. Len(w) /\ m \in 1 .. Len(s)
  BY <1>1, <1>2
<1>5. \A j \in 1 .. Len(t) : Len(s) + j \in 2 .. Len(w)
  BY <1>1, <1>2
<1>6. {w[m] : m \in 2 .. Len(w)} = {s[m] : m \in 2 .. Len(s)} \union {t[j] : j \in 1 .. Len(t)}
  <2>1. ASSUME NEW v
        PROVE  (\E m \in 2 .. Len(w) : v = w[m])
                 <=> (\E m \in 2 .. Len(s) : v = s[m]) \/ (\E j \in 1 .. Len(t) : v = t[j])
    <3>1. ASSUME NEW m \in 2 .. Len(w), v = w[m]
          PROVE  (\E i \in 2 .. Len(s) : v = s[i]) \/ (\E j \in 1 .. Len(t) : v = t[j])
      BY <1>1, <1>3, <1>4, <3>1
    <3>2. ASSUME NEW m \in 2 .. Len(s), v = s[m] PROVE \E i \in 2 .. Len(w) : v = w[i]
      BY <1>1, <1>4, <3>2
    <3>3. ASSUME NEW j \in 1 .. Len(t), v = t[j] PROVE \E i \in 2 .. Len(w) : v = w[i]
      BY <1>1, <1>5, <3>3
    <3> QED BY <3>1, <3>2, <3>3
  <2> QED BY <2>1
<1>7. Len(w) >= 1 /\ w[1] = line
  BY <1>1, <1>2 DEF Opens
<1> QED BY <1>1, <1>6, <1>7 DEF Opens, LinesOf, w

LEMMA OptionalLines ==
  ASSUME NEW given \in BOOLEAN, NEW line \in Lines
  PROVE  /\ Optional(given, line) \in Seq(Lines)
         /\ LinesOf(Optional(given, line)) = IF given THEN {line} ELSE {}
<1> DEFINE o == Optional(given, line)
           n == IF given THEN 1 ELSE 0
<1>1. o \in Seq(Lines) /\ Len(o) = n /\ \A m \in 1 .. Len(o) : o[m] = line
  BY OptionalIs
<1> HIDE DEF o
<1>2. CASE given
  <2>1. Len(o) = 1
    BY <1>1, <1>2
  <2>2. \A m : m \in 1 .. Len(o) <=> m = 1
    BY <2>1
  <2>3. LinesOf(o) = {line}
    BY <1>1, <2>2 DEF LinesOf
  <2> QED BY <1>1, <1>2, <2>3 DEF o
<1>3. CASE ~ given
  <2>1. Len(o) = 0
    BY <1>1, <1>3
  <2>2. LinesOf(o) = {}
    BY <2>1 DEF LinesOf
  <2> QED BY <1>1, <1>3, <2>2 DEF o
<1> QED BY <1>2, <1>3

\* The lines of an entry: its key, its fields, the allowed IPs last.
LEMMA PeerLinesAre ==
  ASSUME NEW p \in PeerConfig
  PROVE  /\ PeerLines(p) \in Seq(Lines)
         /\ Opens(PeerLines(p), Line("public_key", p.PublicKey), FieldsOf(p))
         /\ IPsLast(PeerLines(p))
<1> DEFINE open == <<Line("public_key", p.PublicKey)>>
           rem  == Optional(p.Remove, Line("remove", "true"))
           upd  == Optional(p.UpdateOnly, Line("update_only", "true"))
           opt  == Optional(p.opts # Nil, Line("opts", p.opts))
           rep  == Optional(p.ReplaceAllowedIPs, Line("replace_allowed_ips", "true"))
           list == [i \in DOMAIN p.AllowedIPs |-> Line("allowed_ip", p.AllowedIPs[i])]
           flags == open \o rem \o upd \o opt \o rep
           R == IF p.Remove THEN {Line("remove", "true")} ELSE {}
           U == IF p.UpdateOnly THEN {Line("update_only", "true")} ELSE {}
           O == IF p.opts # Nil THEN {Line("opts", p.opts)} ELSE {}
           A == IF p.ReplaceAllowedIPs THEN {Line("replace_allowed_ips", "true")} ELSE {}
           I == {Line("allowed_ip", a) : a \in ToSet(p.AllowedIPs)}
           first == Line("public_key", p.PublicKey)
<1>1. /\ first \in Lines /\ Line("remove", "true") \in Lines /\ Line("update_only", "true") \in Lines
      /\ Line("replace_allowed_ips", "true") \in Lines /\ Line("opts", p.opts) \in Lines
      /\ p.Remove \in BOOLEAN /\ p.UpdateOnly \in BOOLEAN /\ p.ReplaceAllowedIPs \in BOOLEAN
      /\ (p.opts # Nil) \in BOOLEAN /\ p.AllowedIPs \in Seq(IPs)
  BY DEF PeerConfig, Line, Lines, LineKeys, LineVals
<1>2. rem \in Seq(Lines) /\ LinesOf(rem) = R
  BY ONLY <1>1, OptionalLines DEF rem, R
<1>3. upd \in Seq(Lines) /\ LinesOf(upd) = U
  BY ONLY <1>1, OptionalLines DEF upd, U
<1>4. opt \in Seq(Lines) /\ LinesOf(opt) = O
  BY ONLY <1>1, OptionalLines DEF opt, O
<1>5. rep \in Seq(Lines) /\ LinesOf(rep) = A
  BY ONLY <1>1, OptionalLines DEF rep, A
<1>6. list \in Seq(Lines) /\ LinesOf(list) = I /\ \A j \in 1 .. Len(list) : list[j].key = "allowed_ip"
  <2>1. /\ DOMAIN p.AllowedIPs = 1 .. Len(p.AllowedIPs) /\ Len(p.AllowedIPs) \in Nat
        /\ \A i \in DOMAIN p.AllowedIPs : p.AllowedIPs[i] \in IPs
    BY <1>1
  <2>2. \A i \in DOMAIN p.AllowedIPs : Line("allowed_ip", p.AllowedIPs[i]) \in Lines
    BY <2>1 DEF Line, Lines, LineKeys, LineVals
  <2>3. list \in Seq(Lines) /\ Len(list) = Len(p.AllowedIPs)
    BY <2>1, <2>2
  <2>4. LinesOf(list) = I
    BY <2>1, <2>3 DEF LinesOf, ToSet
  <2> QED BY <2>1, <2>3, <2>4 DEF Line
<1>7. open \in Seq(Lines) /\ Opens(open, first, {})
  BY <1>1 DEF Opens
<1> HIDE DEF open, rem, upd, opt, rep, list, R, U, O, A, I, first
<1>8. open \o rem \in Seq(Lines) /\ Opens(open \o rem, first, {} \union R)
  BY ONLY <1>2, <1>7, Grow
<1>9. open \o rem \o upd \in Seq(Lines) /\ Opens(open \o rem \o upd, first, {} \union R \union U)
  BY ONLY <1>3, <1>8, Grow
<1>10. open \o rem \o upd \o opt \in Seq(Lines)
       /\ Opens(open \o rem \o upd \o opt, first, {} \union R \union U \union O)
  BY ONLY <1>4, <1>9, Grow
<1>11. flags \in Seq(Lines) /\ Opens(flags, first, {} \union R \union U \union O \union A)
  BY ONLY <1>5, <1>10, Grow DEF flags
<1> HIDE DEF flags
<1>12. /\ flags \o list \in Seq(Lines)
       /\ Opens(flags \o list, first, {} \union R \union U \union O \union A \union I)
  BY ONLY <1>6, <1>11, Grow
<1>13. PeerLines(p) = flags \o list
  BY DEF PeerLines, flags, open, rem, upd, opt, rep, list
<1>14. {} \union R \union U \union O \union A \union I = FieldsOf(p)
  BY DEF FieldsOf, R, U, O, A, I
<1>15. \A m \in 1 .. Len(flags) : flags[m].key # "allowed_ip"
  <2>1. \A v \in {} \union R \union U \union O \union A : v.key # "allowed_ip"
    BY DEF R, U, O, A, Line
  <2>2. flags[1].key # "allowed_ip"
    BY <1>11 DEF Opens, first, Line
  <2>3. \A m \in 2 .. Len(flags) : flags[m] \in {} \union R \union U \union O \union A
    BY <1>11 DEF Opens
  <2>4. \A m \in 1 .. Len(flags) : m = 1 \/ m \in 2 .. Len(flags)
    BY <1>11
  <2> QED BY <2>1, <2>2, <2>3, <2>4
<1>16. IPsLast(flags \o list)
  <2> DEFINE w == flags \o list
  <2>1. /\ Len(w) = Len(flags) + Len(list)
        /\ \A i \in 1 .. Len(flags) : w[i] = flags[i]
        /\ \A j \in 1 .. Len(list) : w[Len(flags) + j] = list[j]
    BY <1>6, <1>11, Concatenation
  <2>2. Len(flags) \in Nat /\ Len(list) \in Nat
    BY <1>6, <1>11
  <2> HIDE DEF w
  <2>3. ASSUME NEW m \in 1 .. Len(w), m > Len(flags) PROVE w[m].key = "allowed_ip"
    <3>1. m - Len(flags) \in 1 .. Len(list) /\ m = Len(flags) + (m - Len(flags))
      BY <2>1, <2>2, <2>3
    <3> QED BY <1>6, <2>1, <3>1
  <2>4. ASSUME NEW m \in 1 .. Len(w), NEW j \in 1 .. (m - 1), w[j].key = "allowed_ip"
        PROVE  w[m].key = "allowed_ip"
    <3>1. ~ j <= Len(flags)
      BY <1>15, <2>1, <2>2, <2>4
    <3>2. m > Len(flags)
      BY <2>1, <2>2, <3>1
    <3> QED BY <2>3, <3>2
  <2>5. IPsLast(w)
    BY <2>4 DEF IPsLast
  <2> QED BY <2>5 DEF w
<1> QED BY <1>12, <1>13, <1>14, <1>16 DEF first

Says(T, key) == \E line \in T : line.key = key
IPsSaid(T)   == {a \in IPs : Line("allowed_ip", a) \in T}

Dropped(peers, p, T) ==
  Says(T, "remove") \/ (Says(T, "update_only") /\ p.PublicKey \notin DOMAIN peers)

\* The daemon's peers after the fields T of an entry, in the order of its lines.
WithLines(peers, p, T) ==
  IF Dropped(peers, p, T) THEN [k \in DOMAIN peers \ {p.PublicKey} |-> peers[k]]
  ELSE [k \in DOMAIN peers \union {p.PublicKey} |->
          IF k = p.PublicKey
          THEN [opts |-> IF Says(T, "opts") THEN p.opts ELSE HadBefore(peers, k).opts,
                adv  |-> HadBefore(peers, k).adv,
                ips  |-> IPsSaid(T) \union (IF Says(T, "replace_allowed_ips") THEN {}
                                            ELSE HadBefore(peers, k).ips)]
          ELSE [opts |-> peers[k].opts, adv |-> peers[k].adv, ips |-> peers[k].ips \ IPsSaid(T)]]

\* All of an entry's lines make the entry, but for AdvancedSecurity.
LEMMA AllLines ==
  ASSUME NEW peers, NEW p \in PeerConfig, ~ p.AdvancedSecurity, ~ p.DisableAdvancedSecurity
  PROVE  WithLines(peers, p, FieldsOf(p)) = WithEntry(peers, p)
<1> DEFINE T == FieldsOf(p)
<1>0. \A line : line \in T
        <=> \/ p.Remove /\ line = Line("remove", "true")
            \/ p.UpdateOnly /\ line = Line("update_only", "true")
            \/ p.opts # Nil /\ line = Line("opts", p.opts)
            \/ p.ReplaceAllowedIPs /\ line = Line("replace_allowed_ips", "true")
            \/ \E a \in ToSet(p.AllowedIPs) : line = Line("allowed_ip", a)
  <2>1. \A c, y, line : line \in (IF c THEN {y} ELSE {}) <=> c /\ line = y
    OBVIOUS
  <2>2. \A line : line \in {Line("allowed_ip", a) : a \in ToSet(p.AllowedIPs)}
                   <=> \E a \in ToSet(p.AllowedIPs) : line = Line("allowed_ip", a)
    OBVIOUS
  <2> QED BY ONLY <2>1, <2>2, Zenon DEF T, FieldsOf
<1> HIDE DEF T
<1>5. \A k, v : Line(k, v).key = k /\ Line(k, v).val = v
  BY DEF Line
<1>1. /\ Says(T, "remove") <=> p.Remove
      /\ Says(T, "update_only") <=> p.UpdateOnly
      /\ Says(T, "opts") <=> p.opts # Nil
      /\ Says(T, "replace_allowed_ips") <=> p.ReplaceAllowedIPs
  <2>1. /\ "remove" # "update_only" /\ "remove" # "opts" /\ "remove" # "replace_allowed_ips"
        /\ "remove" # "allowed_ip" /\ "update_only" # "opts" /\ "update_only" # "replace_allowed_ips"
        /\ "update_only" # "allowed_ip" /\ "opts" # "replace_allowed_ips" /\ "opts" # "allowed_ip"
        /\ "replace_allowed_ips" # "allowed_ip"
    OBVIOUS
  <2>2. \A line \in T :
          /\ line.key = "remove" => p.Remove
          /\ line.key = "update_only" => p.UpdateOnly
          /\ line.key = "opts" => p.opts # Nil
          /\ line.key = "replace_allowed_ips" => p.ReplaceAllowedIPs
    BY ONLY <1>0, <1>5, <2>1
  <2>3. /\ p.Remove => Line("remove", "true") \in T
        /\ p.UpdateOnly => Line("update_only", "true") \in T
        /\ p.opts # Nil => Line("opts", p.opts) \in T
        /\ p.ReplaceAllowedIPs => Line("replace_allowed_ips", "true") \in T
    BY ONLY <1>0
  <2>4. \A key, v : Line(key, v) \in T => Says(T, key)
    BY ONLY <1>5 DEF Says
  <2>5. \A key : Says(T, key) => \E line \in T : line.key = key
    BY ONLY DEF Says
  <2>6. Says(T, "remove") <=> p.Remove
    BY ONLY <2>2, <2>3, <2>4, <2>5
  <2>7. Says(T, "update_only") <=> p.UpdateOnly
    BY ONLY <2>2, <2>3, <2>4, <2>5
  <2>8. Says(T, "opts") <=> p.opts # Nil
    BY ONLY <2>2, <2>3, <2>4, <2>5
  <2>9. Says(T, "replace_allowed_ips") <=> p.ReplaceAllowedIPs
    BY ONLY <2>2, <2>3, <2>4, <2>5
  <2> QED BY <2>6, <2>7, <2>8, <2>9
<1>2. IPsSaid(T) = ToSet(p.AllowedIPs)
  <2>1. ToSet(p.AllowedIPs) \subseteq IPs
    BY DEF PeerConfig, ToSet
  <2>2. \A a : Line("allowed_ip", a) \in T => a \in ToSet(p.AllowedIPs)
    BY ONLY <1>0, <1>5
  <2>3. \A a : a \in ToSet(p.AllowedIPs) => Line("allowed_ip", a) \in T
    BY ONLY <1>0
  <2> QED BY <2>1, <2>2, <2>3 DEF IPsSaid
<1> HIDE DEF T
<1>3. Dropped(peers, p, T) <=> ~ Takes(peers, p)
  BY <1>1 DEF Dropped, Takes
<1>4. \A k : [opts |-> IF Says(T, "opts") THEN p.opts ELSE HadBefore(peers, k).opts,
              adv  |-> HadBefore(peers, k).adv,
              ips  |-> IPsSaid(T) \union (IF Says(T, "replace_allowed_ips") THEN {}
                                          ELSE HadBefore(peers, k).ips)]
             = Entry(HadBefore(peers, k), p)
  BY <1>1, <1>2 DEF Entry
<1> QED BY <1>2, <1>3, <1>4 DEF WithLines, WithEntry, T

\* The key alone: the peer is there.
LEMMA KeyLine ==
  ASSUME NEW peers \in PeerStates, NEW p \in PeerConfig
  PROVE  WithLines(peers, p, {}) = IF p.PublicKey \in DOMAIN peers THEN peers
                                   ELSE [k \in DOMAIN peers \union {p.PublicKey} |->
                                           IF k = p.PublicKey THEN NewPeer ELSE peers[k]]
<1> DEFINE K == DOMAIN peers
           x == p.PublicKey
           F(k) == IF k = x
                   THEN [opts |-> HadBefore(peers, k).opts, adv |-> HadBefore(peers, k).adv,
                         ips  |-> HadBefore(peers, k).ips]
                   ELSE [opts |-> peers[k].opts, adv |-> peers[k].adv, ips |-> peers[k].ips]
           G(k) == IF k = x /\ x \notin K THEN NewPeer ELSE peers[k]
<1>1. \A key : ~ Says({}, key)
  BY DEF Says
<1>2. IPsSaid({}) = {}
  BY DEF IPsSaid
<1>3. \A S : S \ {} = S /\ {} \union S = S
  OBVIOUS
<1>4. WithLines(peers, p, {}) = [k \in K \union {x} |-> F(k)]
  BY <1>1, <1>2, <1>3 DEF WithLines, Dropped
<1>5. peers = [k \in K |-> peers[k]] /\ \A k \in K : peers[k] \in PeerState
  BY DEF PeerStates
<1>6. \A q \in PeerState : q = [opts |-> q.opts, adv |-> q.adv, ips |-> q.ips]
  BY DEF PeerState
<1>7. NewPeer = [opts |-> NewPeer.opts, adv |-> NewPeer.adv, ips |-> NewPeer.ips]
  BY DEF NewPeer
<1>8. \A k \in K \union {x} : F(k) = G(k)
  BY <1>5, <1>6, <1>7 DEF HadBefore
<1>9. CASE x \in K
  <2>1. \A k \in K : F(k) = peers[k]
    BY <1>8, <1>9
  <2>2. K \union {x} = K
    BY <1>9
  <2> HIDE DEF F, G, K
  <2> QED BY <1>4, <1>5, <1>9, <2>1, <2>2 DEF K
<1>10. CASE x \notin K
  <2>1. \A k \in K \union {x} : F(k) = IF k = x THEN NewPeer ELSE peers[k]
    BY <1>8, <1>10
  <2> HIDE DEF F, G
  <2> QED BY <1>4, <1>10, <2>1
<1> QED BY <1>9, <1>10

LEMMA OneLineMore ==
  ASSUME NEW T, NEW line
  PROVE  /\ \A key : Says(T \union {line}, key) <=> Says(T, key) \/ line.key = key
         /\ IPsSaid(T \union {line}) = IPsSaid(T) \union {a \in IPs : line = Line("allowed_ip", a)}
<1>1. \A key : Says(T \union {line}, key) <=> Says(T, key) \/ line.key = key
  BY DEF Says
<1>2. \A a : Line("allowed_ip", a) \in T \union {line}
               <=> Line("allowed_ip", a) \in T \/ line = Line("allowed_ip", a)
  OBVIOUS
<1>3. IPsSaid(T \union {line}) = IPsSaid(T) \union {a \in IPs : line = Line("allowed_ip", a)}
  BY <1>2 DEF IPsSaid
<1> QED BY <1>1, <1>3

\* A line that is no allowed IP claims none.
LEMMA NoClaim ==
  ASSUME NEW T, NEW line, line.key # "allowed_ip"
  PROVE  IPsSaid(T \union {line}) = IPsSaid(T)
<1>1. \A a : line # Line("allowed_ip", a)
  BY DEF Line
<1>2. {a \in IPs : line = Line("allowed_ip", a)} = {}
  BY <1>1
<1>3. IPsSaid(T \union {line}) = IPsSaid(T) \union {a \in IPs : line = Line("allowed_ip", a)}
  BY OneLineMore
<1> QED BY <1>2, <1>3

Without(w, x) == [k \in DOMAIN w \ {x} |-> w[k]]
Claimed(w, x, a) ==
  [k \in DOMAIN w |-> [w[k] EXCEPT !.ips = IF k = x THEN @ \union {a} ELSE @ \ {a}]]

\* remove, or update_only for a peer that was not there: the peer goes.
LEMMA DropLine ==
  ASSUME NEW peers \in PeerStates, NEW p \in PeerConfig, NEW T, NEW U, IPsSaid(T) = {},
         ~ Dropped(peers, p, T), Dropped(peers, p, U)
  PROVE  WithLines(peers, p, U) = Without(WithLines(peers, p, T), p.PublicKey)
<1> DEFINE w == WithLines(peers, p, T)
           x == p.PublicKey
           K == DOMAIN peers
<1>1. \A k \in K : peers[k] \in PeerState
  BY DEF PeerStates
<1>2. \A q \in PeerState : q = [opts |-> q.opts, adv |-> q.adv, ips |-> q.ips \ {}]
  BY DEF PeerState
<1>3. DOMAIN w = K \union {x} /\ \A k \in K \ {x} : w[k] = peers[k]
  BY <1>1, <1>2 DEF WithLines
<1>4. WithLines(peers, p, U) = [k \in K \ {x} |-> peers[k]]
  BY DEF WithLines
<1> HIDE DEF w, K, x
<1>5. DOMAIN w \ {x} = K \ {x}
  BY <1>3
<1>6. [k \in DOMAIN w \ {x} |-> w[k]] = [k \in K \ {x} |-> peers[k]]
  BY <1>3, <1>5
<1> QED BY <1>4, <1>6 DEF w, K, x, Without

\* A line about a peer that is gone.
LEMMA GoneLine ==
  ASSUME NEW peers, NEW p, NEW T, NEW U, Dropped(peers, p, T), T \subseteq U
  PROVE  WithLines(peers, p, U) = WithLines(peers, p, T)
<1>1. Dropped(peers, p, U)
  BY DEF Dropped, Says
<1> QED BY <1>1 DEF WithLines

\* update_only for a peer that was there.
LEMMA IdleLine ==
  ASSUME NEW peers, NEW p, NEW T, NEW U, ~ Dropped(peers, p, T), ~ Dropped(peers, p, U),
         IPsSaid(U) = IPsSaid(T), Says(U, "opts") <=> Says(T, "opts"),
         Says(U, "replace_allowed_ips") <=> Says(T, "replace_allowed_ips")
  PROVE  WithLines(peers, p, U) = WithLines(peers, p, T)
  BY DEF WithLines

LEMMA OptsLineSaid ==
  ASSUME NEW peers, NEW p, NEW T, NEW U, ~ Dropped(peers, p, T), ~ Dropped(peers, p, U),
         IPsSaid(U) = IPsSaid(T), Says(U, "opts"),
         Says(U, "replace_allowed_ips") <=> Says(T, "replace_allowed_ips")
  PROVE  WithLines(peers, p, U) = [WithLines(peers, p, T) EXCEPT ![p.PublicKey].opts = p.opts]
<1> DEFINE x == p.PublicKey
           ips == IPsSaid(T) \union (IF Says(T, "replace_allowed_ips") THEN {}
                                     ELSE HadBefore(peers, x).ips)
           old == [opts |-> IF Says(T, "opts") THEN p.opts ELSE HadBefore(peers, x).opts,
                   adv  |-> HadBefore(peers, x).adv, ips |-> ips]
           now == [opts |-> p.opts, adv |-> HadBefore(peers, x).adv, ips |-> ips]
           F(k) == [opts |-> peers[k].opts, adv |-> peers[k].adv, ips |-> peers[k].ips \ IPsSaid(T)]
           K == DOMAIN peers \union {x}
<1>1. WithLines(peers, p, T) = [k \in K |-> IF k = x THEN old ELSE F(k)]
  BY DEF WithLines
<1>2. WithLines(peers, p, U) = [k \in K |-> IF k = x THEN now ELSE F(k)]
  BY DEF WithLines
<1>3. [old EXCEPT !.opts = p.opts] = now
  OBVIOUS
<1>4. x \in K
  OBVIOUS
<1> HIDE DEF old, now, F, K
<1>5. [[k \in K |-> IF k = x THEN old ELSE F(k)] EXCEPT ![x].opts = p.opts]
        = [k \in K |-> IF k = x THEN now ELSE F(k)]
  BY <1>3, <1>4
<1> QED BY <1>1, <1>2, <1>5

LEMMA ReplaceLineSaid ==
  ASSUME NEW peers, NEW p, NEW T, NEW U, ~ Dropped(peers, p, T), ~ Dropped(peers, p, U),
         IPsSaid(T) = {}, IPsSaid(U) = {}, Says(U, "replace_allowed_ips"),
         Says(U, "opts") <=> Says(T, "opts")
  PROVE  WithLines(peers, p, U) = [WithLines(peers, p, T) EXCEPT ![p.PublicKey].ips = {}]
<1> DEFINE x == p.PublicKey
           o == IF Says(T, "opts") THEN p.opts ELSE HadBefore(peers, x).opts
           old == [opts |-> o, adv |-> HadBefore(peers, x).adv,
                   ips |-> IPsSaid(T) \union (IF Says(T, "replace_allowed_ips") THEN {}
                                              ELSE HadBefore(peers, x).ips)]
           now == [opts |-> o, adv |-> HadBefore(peers, x).adv, ips |-> {} \union {}]
           F(k) == [opts |-> peers[k].opts, adv |-> peers[k].adv, ips |-> peers[k].ips \ {}]
           K == DOMAIN peers \union {x}
<1>1. WithLines(peers, p, T) = [k \in K |-> IF k = x THEN old ELSE F(k)]
  BY DEF WithLines
<1>2. WithLines(peers, p, U) = [k \in K |-> IF k = x THEN now ELSE F(k)]
  BY DEF WithLines
<1>3. [old EXCEPT !.ips = {}] = now
  OBVIOUS
<1>4. x \in K
  OBVIOUS
<1> HIDE DEF old, now, F, K
<1>5. [[k \in K |-> IF k = x THEN old ELSE F(k)] EXCEPT ![x].ips = {}]
        = [k \in K |-> IF k = x THEN now ELSE F(k)]
  BY <1>3, <1>4
<1> QED BY <1>1, <1>2, <1>5

LEMMA ClaimLineSaid ==
  ASSUME NEW peers, NEW p, NEW T, NEW U, ~ Dropped(peers, p, T), ~ Dropped(peers, p, U), NEW a,
         IPsSaid(U) = IPsSaid(T) \union {a},
         Says(U, "opts") <=> Says(T, "opts"),
         Says(U, "replace_allowed_ips") <=> Says(T, "replace_allowed_ips")
  PROVE  WithLines(peers, p, U) = Claimed(WithLines(peers, p, T), p.PublicKey, a)
<1> DEFINE x == p.PublicKey
           w == WithLines(peers, p, T)
           o == IF Says(T, "opts") THEN p.opts ELSE HadBefore(peers, x).opts
           v == HadBefore(peers, x).adv
           kept == IF Says(T, "replace_allowed_ips") THEN {} ELSE HadBefore(peers, x).ips
           old == [opts |-> o, adv |-> v, ips |-> IPsSaid(T) \union kept]
           now == [opts |-> o, adv |-> v, ips |-> IPsSaid(T) \union {a} \union kept]
           F(k) == [opts |-> peers[k].opts, adv |-> peers[k].adv, ips |-> peers[k].ips \ IPsSaid(T)]
           G(k) == [opts |-> peers[k].opts, adv |-> peers[k].adv,
                    ips |-> peers[k].ips \ (IPsSaid(T) \union {a})]
           K == DOMAIN peers \union {x}
<1>1. w = [k \in K |-> IF k = x THEN old ELSE F(k)]
  BY DEF WithLines
<1>2. WithLines(peers, p, U) = [k \in K |-> IF k = x THEN now ELSE G(k)]
  BY DEF WithLines
<1>3. [old EXCEPT !.ips = @ \union {a}] = now
  <2>1. (IPsSaid(T) \union kept) \union {a} = IPsSaid(T) \union {a} \union kept
    OBVIOUS
  <2> HIDE DEF kept, o, v
  <2> QED BY <2>1
<1>4. \A k : [F(k) EXCEPT !.ips = @ \ {a}] = G(k)
  <2> TAKE k
  <2>1. (peers[k].ips \ IPsSaid(T)) \ {a} = peers[k].ips \ (IPsSaid(T) \union {a})
    OBVIOUS
  <2> QED BY <2>1
<1> HIDE DEF old, now, F, G, K, w
<1>5. DOMAIN w = K
  BY <1>1
<1>6. \A k \in K : [w[k] EXCEPT !.ips = IF k = x THEN @ \union {a} ELSE @ \ {a}]
                     = IF k = x THEN now ELSE G(k)
  BY <1>1, <1>3, <1>4
<1> DEFINE L(k) == [w[k] EXCEPT !.ips = IF k = x THEN @ \union {a} ELSE @ \ {a}]
           R(k) == IF k = x THEN now ELSE G(k)
<1>7. \A k \in K : L(k) = R(k)
  BY <1>6
<1> HIDE DEF L, R
<1>8. [k \in DOMAIN w |-> L(k)] = [k \in K |-> R(k)]
  BY ONLY <1>5, <1>7
<1> QED BY <1>2, <1>8 DEF L, R, w, Claimed

-----------------------------------------------------------------------------
(* UAPI: one line of a peer.                                               *)

Holding(d, peers) == [dev |-> d.dev, awg |-> d.awg, peers |-> peers]

\* A daemon that had d, has now, and is amid the entry p, of whose fields it
\* has taken T.
Amid(d, p, T, now, at, new) ==
  /\ now = Holding(d, WithLines(d.peers, p, T))
  /\ at = IF Dropped(d.peers, p, T) THEN Nil ELSE p.PublicKey
  /\ new <=> p.PublicKey \notin DOMAIN d.peers

LEMMA HoldingSet ==
  ASSUME NEW d, NEW ps, NEW qs
  PROVE  [Holding(d, ps) EXCEPT !.peers = qs] = Holding(d, qs) /\ Holding(d, ps).peers = ps
  BY DEF Holding

LEMMA FieldStep ==
  ASSUME NEW d \in DeviceState, NEW p \in PeerConfig, NEW T,
         Amid(d, p, T, device, peer, made), DaemonSets, Head(req) \in FieldsOf(p),
         Head(req).key # "allowed_ip" => IPsSaid(T) = {}
  PROVE  Amid(d, p, T \union {Head(req)}, device', peer', made')
<1> DEFINE line == Head(req)
           U == T \union {line}
           x == p.PublicKey
           w == WithLines(d.peers, p, T)
           gone == Dropped(d.peers, p, T)
<1>0. d.peers \in PeerStates /\ x \in Keys /\ x # Nil
  BY NilKeyAssumption DEF DeviceState, PeerConfig
<1>1. /\ \A key : Says(U, key) <=> Says(T, key) \/ line.key = key
      /\ IPsSaid(U) = IPsSaid(T) \union {a \in IPs : line = Line("allowed_ip", a)}
      /\ line.key # "allowed_ip" => IPsSaid(U) = IPsSaid(T)
      /\ T \subseteq U
  <2>1. \A key : Says(U, key) <=> Says(T, key) \/ line.key = key
    BY OneLineMore
  <2>2. IPsSaid(U) = IPsSaid(T) \union {a \in IPs : line = Line("allowed_ip", a)}
    BY OneLineMore
  <2>3. line.key # "allowed_ip" => IPsSaid(U) = IPsSaid(T)
    BY NoClaim
  <2> QED BY <2>1, <2>2, <2>3
<1>2. \/ line.key \in {"remove", "update_only", "replace_allowed_ips"}
      \/ line.key = "opts" /\ line.val = p.opts
      \/ \E a \in ToSet(p.AllowedIPs) : line = Line("allowed_ip", a)
  <2>1. \A k, v : Line(k, v).key = k /\ Line(k, v).val = v
    BY DEF Line
  <2>2. \A c, y, l : l \in (IF c THEN {y} ELSE {}) <=> c /\ l = y
    OBVIOUS
  <2>3. \A l : l \in {Line("allowed_ip", a) : a \in ToSet(p.AllowedIPs)}
                 <=> \E a \in ToSet(p.AllowedIPs) : l = Line("allowed_ip", a)
    OBVIOUS
  <2>4. \/ line \in {Line("remove", "true"), Line("update_only", "true"), Line("opts", p.opts),
                     Line("replace_allowed_ips", "true")}
        \/ \E a \in ToSet(p.AllowedIPs) : line = Line("allowed_ip", a)
    BY <2>2, <2>3 DEF FieldsOf
  <2> HIDE DEF line
  <2> QED BY ONLY <2>1, <2>4
<1>3. /\ device = Holding(d, w) /\ device.peers = w
      /\ peer = IF gone THEN Nil ELSE x
      /\ made <=> x \notin DOMAIN d.peers
  BY DEF Amid, Holding
<1>4. ASSUME made' = made, peer' = IF Dropped(d.peers, p, U) THEN Nil ELSE x,
             device' = Holding(d, WithLines(d.peers, p, U))
      PROVE  Amid(d, p, T \union {Head(req)}, device', peer', made')
  BY <1>3, <1>4 DEF Amid
<1> HIDE DEF w, U, line, gone
<1>5. CASE line.key = "remove" \/ (line.key = "update_only" /\ made)
  <2>1. /\ device' = IF peer = Nil THEN device ELSE WithoutPeer(device, peer)
        /\ peer' = Nil /\ made' = made
    BY <1>5 DEF DaemonSets, line
  <2>2. Dropped(d.peers, p, U)
    BY <1>1, <1>3, <1>5 DEF Dropped
  <2>3. IPsSaid(T) = {}
    BY <1>5 DEF line
  <2>4. CASE gone
    <3>1. WithLines(d.peers, p, U) = w
      BY <1>1, <2>4, GoneLine DEF w, gone
    <3> QED BY <1>3, <1>4, <2>1, <2>2, <2>4, <3>1
  <2>5. CASE ~ gone
    <3>1. WithLines(d.peers, p, U) = Without(w, x)
      BY <1>0, <2>2, <2>3, <2>5, DropLine DEF w, gone
    <3>2. device' = Holding(d, Without(w, x))
      BY <1>0, <1>3, <2>1, <2>5, HoldingSet DEF WithoutPeer, Without
    <3> QED BY <1>4, <2>1, <2>2, <3>1, <3>2
  <2> QED BY <2>4, <2>5
<1>6. CASE line.key = "update_only" /\ ~ made
  <2>1. device' = device /\ peer' = peer /\ made' = made
    BY <1>6 DEF DaemonSets, line
  <2>2. Dropped(d.peers, p, U) <=> gone
    BY <1>1, <1>3, <1>6 DEF Dropped, gone
  <2>3. WithLines(d.peers, p, U) = w
    <3>1. /\ IPsSaid(U) = IPsSaid(T)
          /\ Says(U, "opts") <=> Says(T, "opts")
          /\ Says(U, "replace_allowed_ips") <=> Says(T, "replace_allowed_ips")
      BY <1>1, <1>6
    <3>2. CASE gone
      <4>1. Dropped(d.peers, p, T)
        BY <3>2 DEF gone
      <4> QED BY ONLY <1>1, <4>1, GoneLine DEF w
    <3>3. CASE ~ gone
      <4>1. ~ Dropped(d.peers, p, T) /\ ~ Dropped(d.peers, p, U)
        BY <2>2, <3>3 DEF gone
      <4> QED BY ONLY <3>1, <4>1, IdleLine DEF w
    <3> QED BY <3>2, <3>3
  <2> QED BY <1>3, <1>4, <2>1, <2>2, <2>3
<1>7. CASE line.key \notin {"remove", "update_only"}
  <2>1. /\ device' = IF peer = Nil THEN device ELSE SetPeerLine(device, peer, line)
        /\ peer' = peer /\ made' = made
    <3>1. line.key \in {"opts", "replace_allowed_ips", "allowed_ip"}
      BY <1>2, <1>7 DEF Line
    <3> QED BY <3>1 DEF DaemonSets, line
  <2>2. Dropped(d.peers, p, U) <=> gone
    BY <1>1, <1>7 DEF Dropped, gone
  <2>3. CASE gone
    <3>1. WithLines(d.peers, p, U) = w
      BY <1>1, <2>3, GoneLine DEF w, gone
    <3> QED BY <1>3, <1>4, <2>1, <2>2, <2>3, <3>1
  <2>4. CASE ~ gone
    <3> SUFFICES SetPeerLine(device, x, line) = Holding(d, WithLines(d.peers, p, U))
      BY <1>0, <1>3, <1>4, <2>1, <2>2, <2>4
    <3>0. device = Holding(d, w) /\ device.peers = w
      BY <1>3
    <3>1. CASE line.key = "opts"
      <4>1. /\ IPsSaid(U) = IPsSaid(T) /\ Says(U, "opts")
            /\ Says(U, "replace_allowed_ips") <=> Says(T, "replace_allowed_ips")
        BY <1>1, <3>1
      <4>2. WithLines(d.peers, p, U) = [w EXCEPT ![x].opts = p.opts]
        BY <2>2, <2>4, <4>1, OptsLineSaid DEF w, gone
      <4>3. line.val = p.opts
        BY <1>2, <3>1 DEF Line
      <4>4. SetPeerLine(device, x, line) = [device EXCEPT !.peers[x].opts = p.opts]
        BY <3>1, <4>3 DEF SetPeerLine
      <4>5. [device EXCEPT !.peers[x].opts = p.opts] = Holding(d, [w EXCEPT ![x].opts = p.opts])
        BY <3>0 DEF Holding
      <4> QED BY <4>2, <4>4, <4>5
    <3>2. CASE line.key = "replace_allowed_ips"
      <4>1. /\ IPsSaid(T) = {} /\ IPsSaid(U) = {} /\ Says(U, "replace_allowed_ips")
            /\ Says(U, "opts") <=> Says(T, "opts")
        BY <1>1, <3>2 DEF line
      <4>2. WithLines(d.peers, p, U) = [w EXCEPT ![x].ips = {}]
        BY <2>2, <2>4, <4>1, ReplaceLineSaid DEF w, gone
      <4>3. SetPeerLine(device, x, line) = [device EXCEPT !.peers[x].ips = {}]
        BY <3>2 DEF SetPeerLine
      <4>4. [device EXCEPT !.peers[x].ips = {}] = Holding(d, [w EXCEPT ![x].ips = {}])
        BY <3>0 DEF Holding
      <4> QED BY <4>2, <4>3, <4>4
    <3>3. CASE line.key = "allowed_ip"
      <4>1. PICK a \in ToSet(p.AllowedIPs) : line = Line("allowed_ip", a)
        BY <1>2, <3>3
      <4>2. a \in IPs
        BY <4>1 DEF PeerConfig, ToSet
      <4>3. {b \in IPs : line = Line("allowed_ip", b)} = {a} /\ line.val = a
        BY <4>1, <4>2 DEF Line
      <4>4. /\ IPsSaid(U) = IPsSaid(T) \union {a}
            /\ Says(U, "opts") <=> Says(T, "opts")
            /\ Says(U, "replace_allowed_ips") <=> Says(T, "replace_allowed_ips")
        BY <1>1, <3>3, <4>3
      <4>5. WithLines(d.peers, p, U) = Claimed(w, x, a)
        <5>1. ~ Dropped(d.peers, p, T) /\ ~ Dropped(d.peers, p, U)
          BY <2>2, <2>4 DEF gone
        <5> QED BY ONLY <4>4, <5>1, ClaimLineSaid DEF w, x
      <4>6. SetPeerLine(device, x, line) = [device EXCEPT !.peers = Claimed(w, x, a)]
        <5>1. SetPeerLine(device, x, line) = [device EXCEPT !.peers = Claimed(device.peers, x, line.val)]
          BY <3>3 DEF SetPeerLine, Claimed
        <5>2. line.val = a
          BY <4>3
        <5> QED BY ONLY <3>0, <5>1, <5>2
      <4>7. [device EXCEPT !.peers = Claimed(w, x, a)] = Holding(d, Claimed(w, x, a))
        BY <3>0, HoldingSet
      <4> QED BY <4>5, <4>6, <4>7
    <3> QED BY <1>2, <1>7, <3>1, <3>2, <3>3 DEF Line
  <2> QED BY <2>3, <2>4
<1> QED BY <1>5, <1>6, <1>7

\* The key of the next entry.
LEMMA KeyStep ==
  ASSUME NEW d \in DeviceState, NEW p \in PeerConfig, device = d, DaemonSets,
         Head(req) = Line("public_key", p.PublicKey)
  PROVE  Amid(d, p, {}, device', peer', made')
<1> DEFINE x == p.PublicKey
           K == DOMAIN d.peers
           more == [k \in K \union {x} |-> IF k = x THEN NewPeer ELSE d.peers[k]]
<1>1. Head(req).key = "public_key" /\ Head(req).val = x
  BY DEF Line
<1>2. peer' = x /\ (made' <=> x \notin K)
      /\ device' = IF made' THEN WithPeer(device, x, NewPeer) ELSE device
  BY <1>1 DEF DaemonSets
<1>3. d.peers \in PeerStates /\ d = Holding(d, d.peers)
  BY DEF DeviceState, Holding
<1>4. WithLines(d.peers, p, {}) = IF x \in K THEN d.peers ELSE more
  BY <1>3, KeyLine
<1>5. ~ Dropped(d.peers, p, {})
  BY DEF Dropped, Says
<1>6. WithPeer(d, x, NewPeer) = Holding(d, more)
  <2>1. WithPeer(d, x, NewPeer) = [d EXCEPT !.peers = more]
    BY DEF WithPeer
  <2> HIDE DEF more
  <2>2. [Holding(d, d.peers) EXCEPT !.peers = more] = Holding(d, more)
    BY HoldingSet
  <2> QED BY <1>3, <2>1, <2>2
<1> HIDE DEF more, K
<1>7. device' = Holding(d, WithLines(d.peers, p, {}))
  BY <1>2, <1>3, <1>4, <1>6
<1> QED BY <1>2, <1>5, <1>7 DEF Amid, K

-----------------------------------------------------------------------------
(* UAPI: the lines before the peers.                                       *)

HeadFields(c) ==
  (IF c.dev # Nil THEN {Line("dev", c.dev)} ELSE {})
  \union (IF c.awg # Nil THEN {Line("awg", c.awg)} ELSE {})
  \union (IF c.ReplacePeers THEN {Line("replace_peers", "true")} ELSE {})

WithHead(d, c, T) ==
  [dev   |-> IF Says(T, "dev") THEN c.dev ELSE d.dev,
   awg   |-> IF Says(T, "awg") THEN c.awg ELSE d.awg,
   peers |-> IF Says(T, "replace_peers") THEN NoPeers ELSE d.peers]

HeadLine(c, line) ==
  \/ line.key = "dev" /\ line.val = c.dev
  \/ line.key = "awg" /\ line.val = c.awg
  \/ line.key = "replace_peers"

LEMMA HeadStep ==
  ASSUME NEW d, NEW c, NEW T, device = WithHead(d, c, T), DaemonSets, HeadLine(c, Head(req))
  PROVE  device' = WithHead(d, c, T \union {Head(req)})
<1> DEFINE line == Head(req)
           U == T \union {line}
<1>1. \A key : Says(U, key) <=> Says(T, key) \/ line.key = key
  BY OneLineMore
<1> HIDE DEF U
<1>2. CASE line.key = "dev" /\ line.val = c.dev
  <2>1. device' = [device EXCEPT !.dev = c.dev]
    BY <1>2 DEF DaemonSets
  <2>2. Says(U, "dev")
    BY <1>1, <1>2
  <2>3. Says(U, "awg") <=> Says(T, "awg")
    BY <1>1, <1>2
  <2>4. Says(U, "replace_peers") <=> Says(T, "replace_peers")
    BY <1>1, <1>2
  <2>5. device' = WithHead(d, c, U)
    BY <2>1, <2>2, <2>3, <2>4 DEF WithHead
  <2> QED BY <2>5 DEF U
<1>3. CASE line.key = "awg" /\ line.val = c.awg
  <2>1. device' = [device EXCEPT !.awg = c.awg]
    BY <1>3 DEF DaemonSets
  <2>2. Says(U, "awg")
    BY <1>1, <1>3
  <2>3. Says(U, "dev") <=> Says(T, "dev")
    BY <1>1, <1>3
  <2>4. Says(U, "replace_peers") <=> Says(T, "replace_peers")
    BY <1>1, <1>3
  <2>5. device' = WithHead(d, c, U)
    BY <2>1, <2>2, <2>3, <2>4 DEF WithHead
  <2> QED BY <2>5 DEF U
<1>4. CASE line.key = "replace_peers"
  <2>1. device' = [device EXCEPT !.peers = NoPeers]
    BY <1>4 DEF DaemonSets
  <2>2. Says(U, "replace_peers")
    BY <1>1, <1>4
  <2>3. Says(U, "dev") <=> Says(T, "dev")
    BY <1>1, <1>4
  <2>4. Says(U, "awg") <=> Says(T, "awg")
    BY <1>1, <1>4
  <2>5. device' = WithHead(d, c, U)
    BY <2>1, <2>2, <2>3, <2>4 DEF WithHead
  <2> QED BY <2>5 DEF U
<1> QED BY <1>2, <1>3, <1>4 DEF HeadLine

LEMMA HeadFieldsAre ==
  ASSUME NEW c, NEW line \in HeadFields(c)
  PROVE  HeadLine(c, line)
<1>1. \A b, y, v : v \in (IF b THEN {y} ELSE {}) <=> b /\ v = y
  OBVIOUS
<1>2. line \in {Line("dev", c.dev), Line("awg", c.awg), Line("replace_peers", "true")}
  BY <1>1 DEF HeadFields
<1> QED BY <1>2 DEF HeadLine, Line

\* Before its peers, a configuration is taken field by field.
LEMMA HeadAll ==
  ASSUME NEW d \in DeviceState, NEW c \in Config, c.Peers = <<>>
  PROVE  WithHead(d, c, HeadFields(c)) = Configured(d, c)
<1> DEFINE T == HeadFields(c)
<1>1. \A line : line \in T
        <=> \/ c.dev # Nil /\ line = Line("dev", c.dev)
            \/ c.awg # Nil /\ line = Line("awg", c.awg)
            \/ c.ReplacePeers /\ line = Line("replace_peers", "true")
  <2>1. \A b, y, v : v \in (IF b THEN {y} ELSE {}) <=> b /\ v = y
    OBVIOUS
  <2> QED BY ONLY <2>1, Zenon DEF T, HeadFields
<1> HIDE DEF T
<1>2. /\ Says(T, "dev") <=> c.dev # Nil
      /\ Says(T, "awg") <=> c.awg # Nil
      /\ Says(T, "replace_peers") <=> c.ReplacePeers
  <2>1. \A k, v : Line(k, v).key = k
    BY DEF Line
  <2>2. /\ c.dev # Nil => Line("dev", c.dev) \in T
        /\ c.awg # Nil => Line("awg", c.awg) \in T
        /\ c.ReplacePeers => Line("replace_peers", "true") \in T
    BY ONLY <1>1
  <2>3. \A line \in T :
          /\ line.key = "dev" => c.dev # Nil
          /\ line.key = "awg" => c.awg # Nil
          /\ line.key = "replace_peers" => c.ReplacePeers
    BY <1>1, <2>1
  <2>4. \A key, v : Line(key, v) \in T => Says(T, key)
    BY ONLY <2>1 DEF Says
  <2>5. \A key : Says(T, key) => \E line \in T : line.key = key
    BY ONLY DEF Says
  <2>6. Says(T, "dev") <=> c.dev # Nil
    BY ONLY <2>2, <2>3, <2>4, <2>5
  <2>7. Says(T, "awg") <=> c.awg # Nil
    BY ONLY <2>2, <2>3, <2>4, <2>5
  <2>8. Says(T, "replace_peers") <=> c.ReplacePeers
    BY ONLY <2>2, <2>3, <2>4, <2>5
  <2> QED BY <2>6, <2>7, <2>8
<1>3. Effective(d, c) = {} /\ DOMAIN c.Peers = {}
  BY DEF Effective
<1>4. \A k, a : EntriesOf(d, c, k) = {} /\ ClaimsOn(d, c, a) = {}
  BY <1>3 DEF EntriesOf, ClaimsOn
<1>5. KeysAfter(d, c) = BaseOf(d, c)
  BY <1>3 DEF KeysAfter
<1>6. \A k : /\ OptsAfter(d, c, k) = OldOf(d, c, k).opts
            /\ AdvAfter(d, c, k) = OldOf(d, c, k).adv
            /\ IPsAfter(d, c, k) = {a \in IPs : a \in OldOf(d, c, k).ips}
  BY <1>4 DEF OptsAfter, AdvAfter, IPsAfter
<1> DEFINE F(k) == [opts |-> OptsAfter(d, c, k), adv |-> AdvAfter(d, c, k), ips |-> IPsAfter(d, c, k)]
<1>7. [k \in KeysAfter(d, c) |-> F(k)] = IF c.ReplacePeers THEN NoPeers ELSE d.peers
  <2>1. CASE c.ReplacePeers
    <3>1. KeysAfter(d, c) = {}
      BY <1>5, <2>1 DEF BaseOf
    <3> HIDE DEF F
    <3> QED BY <2>1, <3>1 DEF NoPeers
  <2>2. CASE ~ c.ReplacePeers
    <3>1. BaseOf(d, c) = DOMAIN d.peers
      BY <2>2 DEF BaseOf
    <3>2. d.peers = [k \in DOMAIN d.peers |-> d.peers[k]]
          /\ \A k \in DOMAIN d.peers : d.peers[k] \in PeerState
      BY DEF DeviceState, PeerStates
    <3>3. \A q \in PeerState : q = [opts |-> q.opts, adv |-> q.adv, ips |-> {a \in IPs : a \in q.ips}]
      <4>1. ASSUME NEW q \in PeerState PROVE {a \in IPs : a \in q.ips} = q.ips
        BY DEF PeerState
      <4> QED BY <4>1 DEF PeerState
    <3>4. \A k \in DOMAIN d.peers : F(k) = d.peers[k]
      <4> TAKE k \in DOMAIN d.peers
      <4>1. OldOf(d, c, k) = d.peers[k] /\ d.peers[k] \in PeerState
        BY <3>1, <3>2 DEF OldOf
      <4>2. F(k) = [opts |-> d.peers[k].opts, adv |-> d.peers[k].adv,
                    ips |-> {a \in IPs : a \in d.peers[k].ips}]
        BY <1>6, <4>1
      <4> QED BY <3>3, <4>1, <4>2
    <3> HIDE DEF F
    <3> QED BY <1>5, <2>2, <3>1, <3>2, <3>4
  <2> QED BY <2>1, <2>2
<1> HIDE DEF F
<1>8. Configured(d, c) = [dev   |-> IF c.dev = Nil THEN d.dev ELSE c.dev,
                          awg   |-> IF c.awg = Nil THEN d.awg ELSE c.awg,
                          peers |-> [k \in KeysAfter(d, c) |-> F(k)]]
  BY ConfiguredIs DEF F
<1> QED BY <1>2, <1>7, <1>8 DEF WithHead, T

-----------------------------------------------------------------------------
(* UAPI: a configuration up to one of its peers.                           *)

\* No key is named twice.
EachOnce(c) == \A i, j \in DOMAIN c.Peers : c.Peers[i].PublicKey = c.Peers[j].PublicKey => i = j

SaidPeer(p)     == [p EXCEPT !.AdvancedSecurity = FALSE, !.DisableAdvancedSecurity = FALSE]
FirstOf(c, i)   == [Sayable(c) EXCEPT !.Peers = SubSeq(@, 1, i)]
Behind(d, c, i) == Configured(d, FirstOf(c, i))

LEMMA SaidPeerIs ==
  ASSUME NEW p \in PeerConfig
  PROVE  /\ SaidPeer(p) \in PeerConfig /\ SaidPeer(p).PublicKey = p.PublicKey
         /\ ~ SaidPeer(p).AdvancedSecurity /\ ~ SaidPeer(p).DisableAdvancedSecurity
         /\ PeerLines(SaidPeer(p)) = PeerLines(p)
<1>1. SaidPeer(p) \in PeerConfig
  BY DEF SaidPeer, PeerConfig
<1>2. /\ SaidPeer(p).PublicKey = p.PublicKey /\ SaidPeer(p).Remove = p.Remove
      /\ SaidPeer(p).UpdateOnly = p.UpdateOnly /\ SaidPeer(p).opts = p.opts
      /\ SaidPeer(p).ReplaceAllowedIPs = p.ReplaceAllowedIPs /\ SaidPeer(p).AllowedIPs = p.AllowedIPs
  BY DEF SaidPeer, PeerConfig
<1>3. ~ SaidPeer(p).AdvancedSecurity /\ ~ SaidPeer(p).DisableAdvancedSecurity
  BY DEF SaidPeer, PeerConfig
<1> DEFINE q == SaidPeer(p)
<1> HIDE DEF q
<1>4. PeerLines(q) = PeerLines(p)
  BY <1>2 DEF PeerLines, q
<1> QED BY <1>1, <1>2, <1>3, <1>4 DEF q

LEMMA FirstIs ==
  ASSUME NEW c \in Config
  PROVE  /\ FirstOf(c, Len(c.Peers)) = Sayable(c)
         /\ FirstOf(c, 0).Peers = <<>>
         /\ \A i \in 0 .. Len(c.Peers) :
              /\ FirstOf(c, i) \in Config /\ DOMAIN FirstOf(c, i).Peers = 1 .. i
              /\ FirstOf(c, i).dev = c.dev /\ FirstOf(c, i).awg = c.awg
              /\ FirstOf(c, i).ReplacePeers = c.ReplacePeers
              /\ \A j \in 1 .. i : FirstOf(c, i).Peers[j] = SaidPeer(c.Peers[j])
         /\ \A i \in 1 .. Len(c.Peers) :
              FirstOf(c, i) = OneMore(FirstOf(c, i - 1), SaidPeer(c.Peers[i]))
<1> DEFINE n == Len(c.Peers)
           s == [i \in DOMAIN c.Peers |-> SaidPeer(c.Peers[i])]
           PC == PeerConfig
<1>1. n \in Nat /\ DOMAIN c.Peers = 1 .. n /\ \A i \in 1 .. n : c.Peers[i] \in PeerConfig
  BY DEF Config
<1>2. s \in Seq(PC) /\ Len(s) = n /\ \A i \in 1 .. n : s[i] = SaidPeer(c.Peers[i])
  <2>1. \A i \in 1 .. n : SaidPeer(c.Peers[i]) \in PeerConfig
    BY <1>1, SaidPeerIs
  <2> QED BY <1>1, <2>1
<1>3. Sayable(c) = [c EXCEPT !.Peers = s]
  BY DEF Sayable, SaidPeer
<1> HIDE DEF s, n, PC
<1>4. ASSUME NEW i \in 0 .. n
      PROVE  /\ SubSeq(s, 1, i) \in Seq(PC) /\ DOMAIN SubSeq(s, 1, i) = 1 .. i
             /\ Len(SubSeq(s, 1, i)) = i
             /\ \A j \in 1 .. i : SubSeq(s, 1, i)[j] = s[j]
  BY <1>1, <1>2
<1>5. c \in [dev : Values \union {Nil}, awg : Values \union {Nil}, ReplacePeers : BOOLEAN,
             Peers : Seq(PC)]
  BY DEF Config, PC
<1>6. \A i : FirstOf(c, i) = [c EXCEPT !.Peers = SubSeq(s, 1, i)]
  <2> TAKE i
  <2> DEFINE t == SubSeq(s, 1, i)
  <2>1. [c EXCEPT !.Peers = s].Peers = s
    BY <1>5
  <2>2. FirstOf(c, i) = [[c EXCEPT !.Peers = s] EXCEPT !.Peers = t]
    BY <1>3, <2>1 DEF FirstOf
  <2> HIDE DEF t
  <2>3. [[c EXCEPT !.Peers = s] EXCEPT !.Peers = t] = [c EXCEPT !.Peers = t]
    BY <1>5
  <2> QED BY <2>2, <2>3 DEF t
<1>7. \A t \in Seq(PC) : LET z == [c EXCEPT !.Peers = t]
                         IN  /\ z \in Config /\ z.Peers = t /\ z.dev = c.dev /\ z.awg = c.awg
                             /\ z.ReplacePeers = c.ReplacePeers
  BY <1>5 DEF Config, PC
<1>8. SubSeq(s, 1, n) = s
  BY <1>1, <1>2
<1>9. SubSeq(s, 1, 0) = <<>>
  BY <1>2
<1>10. ASSUME NEW i \in 1 .. n
       PROVE  SubSeq(s, 1, i) = Append(SubSeq(s, 1, i - 1), s[i])
  BY <1>1, <1>2
<1>11. ASSUME NEW i \in 1 .. n
       PROVE  FirstOf(c, i) = OneMore(FirstOf(c, i - 1), SaidPeer(c.Peers[i]))
  <2> DEFINE t == SubSeq(s, 1, i - 1)
             z == [c EXCEPT !.Peers = t]
  <2>1. i - 1 \in 0 .. n
    BY <1>1
  <2>2. t \in Seq(PC)
    BY <1>4, <2>1
  <2> HIDE DEF t
  <2>3. FirstOf(c, i - 1) = z /\ z.Peers = t
    BY <1>5, <1>6 DEF t
  <2>4. OneMore(z, s[i]) = [c EXCEPT !.Peers = Append(t, s[i])]
    BY <1>5, <2>3 DEF OneMore
  <2>5. FirstOf(c, i) = [c EXCEPT !.Peers = Append(t, s[i])]
    BY <1>6, <1>10 DEF t
  <2> QED BY <1>2, <2>3, <2>4, <2>5
<1>12. FirstOf(c, n) = Sayable(c)
  BY <1>3, <1>6, <1>8
<1>13. ASSUME NEW i \in 0 .. n
       PROVE  /\ FirstOf(c, i) \in Config /\ DOMAIN FirstOf(c, i).Peers = 1 .. i
              /\ FirstOf(c, i).dev = c.dev /\ FirstOf(c, i).awg = c.awg
              /\ FirstOf(c, i).ReplacePeers = c.ReplacePeers
              /\ \A j \in 1 .. i : FirstOf(c, i).Peers[j] = SaidPeer(c.Peers[j])
  <2> DEFINE t == SubSeq(s, 1, i)
  <2>1. t \in Seq(PC) /\ DOMAIN t = 1 .. i /\ \A j \in 1 .. i : t[j] = s[j]
    BY <1>4
  <2>2. FirstOf(c, i) = [c EXCEPT !.Peers = t]
    BY <1>6
  <2>3. \A j \in 1 .. i : s[j] = SaidPeer(c.Peers[j])
    BY <1>1, <1>2
  <2> HIDE DEF t
  <2>4. /\ FirstOf(c, i) \in Config /\ FirstOf(c, i).Peers = t /\ FirstOf(c, i).dev = c.dev
        /\ FirstOf(c, i).awg = c.awg /\ FirstOf(c, i).ReplacePeers = c.ReplacePeers
    BY <1>7, <2>1, <2>2
  <2> QED BY <2>1, <2>3, <2>4
<1>14. FirstOf(c, 0).Peers = <<>>
  <2>1. <<>> \in Seq(PC)
    OBVIOUS
  <2> QED BY <1>6, <1>7, <1>9, <2>1
<1> QED BY <1>11, <1>12, <1>13, <1>14 DEF n

\* Peer by peer.
LEMMA BehindStep ==
  ASSUME NEW d \in DeviceState, NEW c \in Config, EachOnce(c)
  PROVE  /\ Behind(d, c, Len(c.Peers)) = Configured(d, Sayable(c))
         /\ WithHead(d, c, HeadFields(c)) = Behind(d, c, 0)
         /\ \A i \in 0 .. Len(c.Peers) : Behind(d, c, i) \in DeviceState
         /\ \A i \in 1 .. Len(c.Peers) :
              Behind(d, c, i) = Holding(Behind(d, c, i - 1),
                                        WithEntry(Behind(d, c, i - 1).peers, SaidPeer(c.Peers[i])))
<1>1. Len(c.Peers) \in Nat /\ DOMAIN c.Peers = 1 .. Len(c.Peers)
      /\ \A i \in 1 .. Len(c.Peers) : c.Peers[i] \in PeerConfig
  BY DEF Config
<1>2. Behind(d, c, Len(c.Peers)) = Configured(d, Sayable(c))
  BY FirstIs DEF Behind
<1>3. \A i \in 0 .. Len(c.Peers) : Behind(d, c, i) \in DeviceState
  BY FirstIs, ConfiguredTyped DEF Behind
<1>4. WithHead(d, c, HeadFields(c)) = Behind(d, c, 0)
  <2> DEFINE z == FirstOf(c, 0)
  <2>1. 0 \in 0 .. Len(c.Peers)
    BY <1>1
  <2>2. /\ z \in Config /\ z.Peers = <<>> /\ z.dev = c.dev /\ z.awg = c.awg
        /\ z.ReplacePeers = c.ReplacePeers
    BY <2>1, FirstIs
  <2> HIDE DEF z
  <2>3. WithHead(d, z, HeadFields(z)) = Configured(d, z)
    BY <2>2, HeadAll
  <2>4. HeadFields(z) = HeadFields(c) /\ \A T : WithHead(d, z, T) = WithHead(d, c, T)
    BY <2>2 DEF HeadFields, WithHead
  <2> QED BY <2>3, <2>4 DEF Behind, z
<1>5. ASSUME NEW i \in 1 .. Len(c.Peers)
      PROVE  Behind(d, c, i) = Holding(Behind(d, c, i - 1),
                                       WithEntry(Behind(d, c, i - 1).peers, SaidPeer(c.Peers[i])))
  <2> DEFINE x == FirstOf(c, i - 1)
             p == SaidPeer(c.Peers[i])
  <2>1. i - 1 \in 0 .. Len(c.Peers)
    BY <1>1
  <2>2. x \in Config /\ DOMAIN x.Peers = 1 .. (i - 1)
        /\ \A j \in 1 .. (i - 1) : x.Peers[j] = SaidPeer(c.Peers[j])
    BY <2>1, FirstIs
  <2>3. p \in PeerConfig /\ p.PublicKey = c.Peers[i].PublicKey
    BY <1>1, SaidPeerIs
  <2>4. \A j \in 1 .. (i - 1) : /\ j \in DOMAIN c.Peers /\ i \in DOMAIN c.Peers /\ j # i
                                /\ SaidPeer(c.Peers[j]).PublicKey = c.Peers[j].PublicKey
    BY <1>1, SaidPeerIs
  <2>5. \A j \in 1 .. (i - 1) : c.Peers[j].PublicKey # c.Peers[i].PublicKey
    BY <2>4 DEF EachOnce
  <2>6. \A j \in DOMAIN x.Peers : x.Peers[j].PublicKey # p.PublicKey
    BY <2>2, <2>3, <2>4, <2>5
  <2>7. FirstOf(c, i) = OneMore(x, p)
    BY FirstIs
  <2> HIDE DEF x, p
  <2>8. Configured(d, OneMore(x, p)) = [dev |-> Configured(d, x).dev, awg |-> Configured(d, x).awg,
                                        peers |-> WithEntry(Configured(d, x).peers, p)]
    BY <2>2, <2>3, <2>6, ConfiguredStep
  <2> QED BY <2>7, <2>8 DEF Behind, Holding, x, p
<1> QED BY <1>2, <1>3, <1>4, <1>5

-----------------------------------------------------------------------------
(* UAPI: the lines of a request, by their places.                          *)

RequestOf(c) == WriteConfig(c) \o <<EmptyLine>>
From(c, pos) == SubSeq(RequestOf(c), pos + 1, Len(RequestOf(c)))
\* The first m lines of s, from its line n on.
Heard(s, n, m) == {s[j] : j \in n .. m}

PeerPlace(c, e, i) ==
  /\ e[i] = e[i - 1] + Len(PeerLines(c.Peers[i])) /\ e[i] <= e[Len(c.Peers)]
  /\ \A j \in 1 .. Len(PeerLines(c.Peers[i])) :
       RequestOf(c)[e[i - 1] + j] = PeerLines(c.Peers[i])[j]

PlacesIn(c, e) ==
  /\ RequestOf(c) \in Seq(Lines) /\ e \in [0 .. Len(c.Peers) -> Nat]
  /\ Len(RequestOf(c)) = e[Len(c.Peers)] + 1
  /\ RequestOf(c)[e[Len(c.Peers)] + 1] = EmptyLine
  /\ e[0] <= e[Len(c.Peers)] /\ Heard(RequestOf(c), 1, e[0]) = HeadFields(c)
  /\ \A i \in 1 .. Len(c.Peers) : PeerPlace(c, e, i)

LEMMA Join ==
  ASSUME NEW s \in Seq(Lines), NEW t \in Seq(Lines)
  PROVE  s \o t \in Seq(Lines) /\ LinesOf(s \o t) = LinesOf(s) \union LinesOf(t)
<1> DEFINE w == s \o t
<1>1. /\ w \in Seq(Lines) /\ Len(w) = Len(s) + Len(t)
      /\ \A i \in 1 .. Len(s) : w[i] = s[i]
      /\ \A j \in 1 .. Len(t) : w[Len(s) + j] = t[j]
  BY Concatenation
<1>2. Len(s) \in Nat /\ Len(t) \in Nat
  OBVIOUS
<1> HIDE DEF w
<1>3. \A m \in 1 .. Len(w) : m \in 1 .. Len(s) \/ (m - Len(s) \in 1 .. Len(t) /\ m = Len(s) + (m - Len(s)))
  BY <1>1, <1>2
<1>4. \A m \in 1 .. Len(s) : m \in 1 .. Len(w)
  BY <1>1, <1>2
<1>5. \A j \in 1 .. Len(t) : Len(s) + j \in 1 .. Len(w)
  BY <1>1, <1>2
<1>6. ASSUME NEW v
      PROVE  (\E m \in 1 .. Len(w) : v = w[m])
               <=> (\E m \in 1 .. Len(s) : v = s[m]) \/ (\E j \in 1 .. Len(t) : v = t[j])
  <2>1. ASSUME NEW m \in 1 .. Len(w), v = w[m]
        PROVE  (\E i \in 1 .. Len(s) : v = s[i]) \/ (\E j \in 1 .. Len(t) : v = t[j])
    BY <1>1, <1>3, <2>1
  <2>2. ASSUME NEW m \in 1 .. Len(s), v = s[m] PROVE \E i \in 1 .. Len(w) : v = w[i]
    BY <1>1, <1>4, <2>2
  <2>3. ASSUME NEW j \in 1 .. Len(t), v = t[j] PROVE \E i \in 1 .. Len(w) : v = w[i]
    BY <1>1, <1>5, <2>3
  <2> QED BY <2>1, <2>2, <2>3
<1> QED BY <1>1, <1>6 DEF LinesOf, w

LEMMA RequestIs ==
  ASSUME NEW c \in Config, NoLineBreak(c)
  PROVE  \E e : PlacesIn(c, e)
<1> DEFINE n == Len(c.Peers)
           P == [i \in DOMAIN c.Peers |-> PeerLines(c.Peers[i])]
           dl == Optional(c.dev # Nil, Line("dev", c.dev))
           al == Optional(c.awg # Nil, Line("awg", c.awg))
           rl == Optional(c.ReplacePeers, Line("replace_peers", "true"))
           h == dl \o al \o rl
           f == FlattenSeq(P)
           a == h \o f
           w == a \o <<EmptyLine>>
           LS == Seq(Lines)
<1>0. n \in Nat /\ DOMAIN c.Peers = 1 .. n /\ \A i \in 1 .. n : c.Peers[i] \in PeerConfig
  BY DEF Config
<1>1. RequestOf(c) = w
  <2>1. (IF c.awg = Nil THEN <<>> ELSE <<Line("awg", c.awg)>> \o AfterBreak(c.awg)) = al
    <3>1. CASE c.awg = Nil
      BY <3>1 DEF Optional
    <3>2. CASE c.awg # Nil
      <4>1. AfterBreak(c.awg) = <<>>
        BY <3>2 DEF NoLineBreak
      <4> DEFINE l == Line("awg", c.awg)
      <4>2. <<l>> \o <<>> = <<l>>
        OBVIOUS
      <4> QED BY <3>2, <4>1, <4>2 DEF Optional
    <3> QED BY <3>1, <3>2
  <2> QED BY <2>1 DEF RequestOf, WriteConfig
<1>2. /\ c.dev \in Values \union {Nil} /\ c.awg \in Values \union {Nil} /\ c.ReplacePeers \in BOOLEAN
      /\ Line("dev", c.dev) \in Lines /\ Line("awg", c.awg) \in Lines
      /\ Line("replace_peers", "true") \in Lines /\ EmptyLine \in Lines
  BY DEF Config, EmptyLine, Line, Lines, LineKeys, LineVals
<1>3. h \in LS /\ LinesOf(h) = HeadFields(c)
  <2>1. dl \in LS /\ LinesOf(dl) = IF c.dev # Nil THEN {Line("dev", c.dev)} ELSE {}
    <3>1. (c.dev # Nil) \in BOOLEAN
      OBVIOUS
    <3> QED BY <1>2, <3>1, OptionalLines
  <2>2. al \in LS /\ LinesOf(al) = IF c.awg # Nil THEN {Line("awg", c.awg)} ELSE {}
    <3>1. (c.awg # Nil) \in BOOLEAN
      OBVIOUS
    <3> QED BY <1>2, <3>1, OptionalLines
  <2>3. rl \in LS /\ LinesOf(rl) = IF c.ReplacePeers THEN {Line("replace_peers", "true")} ELSE {}
    BY <1>2, OptionalLines
  <2> HIDE DEF dl, al, rl
  <2>4. dl \o al \in LS /\ LinesOf(dl \o al) = LinesOf(dl) \union LinesOf(al)
    BY <2>1, <2>2, Join
  <2>5. h \in LS /\ LinesOf(h) = LinesOf(dl) \union LinesOf(al) \union LinesOf(rl)
    BY ONLY <2>3, <2>4, Join DEF LS, h
  <2> QED BY <2>1, <2>2, <2>3, <2>5 DEF HeadFields
<1>4. \A i \in 1 .. n : P[i] = PeerLines(c.Peers[i]) /\ P[i] \in LS
  BY <1>0, PeerLinesAre
<1>5. P \in Seq(LS) /\ Len(P) = n
  <2>1. P = [i \in 1 .. n |-> P[i]]
    BY <1>0
  <2> HIDE DEF P, LS, n
  <2> QED BY <1>0, <1>4, <2>1
<1> HIDE DEF P, n, h, dl, al, rl
<1>6. f \in LS /\ \E z \in [0 .. Len(P) -> Nat] : z[0] = 0 /\ Cuts(P, Len(P), f, z)
  <2>1. P \in Seq(Seq(Lines))
    BY <1>5
  <2> QED BY ONLY <2>1, Flattened
<1>7. PICK z \in [0 .. n -> Nat] : z[0] = 0 /\ Cuts(P, n, f, z)
  BY <1>5, <1>6
<1> HIDE DEF f
<1>8. /\ a \in LS /\ Len(a) = Len(h) + Len(f)
      /\ \A i \in 1 .. Len(h) : a[i] = h[i]
      /\ \A j \in 1 .. Len(f) : a[Len(h) + j] = f[j]
  <2>1. h \in Seq(Lines) /\ f \in Seq(Lines)
    BY <1>3, <1>6
  <2> QED BY ONLY <2>1, Concatenation
<1> HIDE DEF a
<1>9. /\ w \in LS /\ Len(w) = Len(a) + 1
      /\ \A i \in 1 .. Len(a) : w[i] = a[i]
      /\ w[Len(a) + 1] = EmptyLine
  <2> DEFINE r == <<EmptyLine>>
  <2>1. a \in Seq(Lines) /\ r \in Seq(Lines)
    BY <1>2, <1>8
  <2>3. Len(r) = 1 /\ r[1] = EmptyLine /\ 1 \in 1 .. Len(r)
    OBVIOUS
  <2> HIDE DEF r
  <2>2. /\ a \o r \in Seq(Lines) /\ Len(a \o r) = Len(a) + Len(r)
        /\ \A i \in 1 .. Len(a) : (a \o r)[i] = a[i]
        /\ \A j \in 1 .. Len(r) : (a \o r)[Len(a) + j] = r[j]
    BY ONLY <2>1, Concatenation
  <2> QED BY <2>1, <2>2, <2>3 DEF r
<1> HIDE DEF w
<1>10. Len(h) \in Nat /\ Len(f) \in Nat /\ Len(f) = z[n] /\ z[n] \in Nat
  BY <1>0, <1>3, <1>6, <1>7 DEF Cuts
<1>11. Len(a) = Len(h) + z[n] /\ Len(a) \in Nat /\ Len(w) = Len(h) + z[n] + 1
  BY <1>8, <1>9, <1>10
<1> DEFINE e == [i \in 0 .. n |-> Len(h) + z[i]]
<1>12. /\ e \in [0 .. n -> Nat] /\ e[0] = Len(h) /\ e[n] = Len(h) + z[n]
       /\ \A i \in 0 .. n : e[i] = Len(h) + z[i]
  BY <1>0, <1>7, <1>10
<1> HIDE DEF e
<1>13. Len(w) = e[n] + 1 /\ w[e[n] + 1] = EmptyLine /\ e[0] <= e[n]
  <2>1. e[n] = Len(a)
    BY <1>11, <1>12
  <2>2. e[0] <= e[n]
    BY <1>10, <1>12
  <2> QED BY <1>9, <2>1, <2>2
<1>14. Heard(w, 1, e[0]) = HeadFields(c)
  <2>1. \A j \in 1 .. Len(h) : w[j] = h[j]
    BY <1>8, <1>9, <1>10, <1>11
  <2>2. {w[j] : j \in 1 .. Len(h)} = {h[j] : j \in 1 .. Len(h)}
    BY <2>1
  <2> QED BY <1>3, <1>12, <2>2 DEF Heard, LinesOf
<1>15. ASSUME NEW i \in 1 .. n
       PROVE  /\ e[i] = e[i - 1] + Len(P[i]) /\ e[i] <= e[n]
              /\ \A j \in 1 .. Len(P[i]) : w[e[i - 1] + j] = P[i][j]
  <2>1. i - 1 \in 0 .. n /\ i \in 0 .. n
    BY <1>0
  <2>2. z[i - 1] \in Nat /\ z[i] \in Nat /\ e[i] = Len(h) + z[i] /\ e[i - 1] = Len(h) + z[i - 1]
    BY <1>7, <1>12, <2>1
  <2>3. /\ z[i] = z[i - 1] + Len(P[i]) /\ z[i] <= z[n]
        /\ \A j \in 1 .. Len(P[i]) : f[z[i - 1] + j] = P[i][j]
    BY <1>7 DEF Cuts
  <2>4. Len(P[i]) \in Nat
    BY <1>4
  <2> DEFINE lh == Len(h)
             lf == Len(f)
             la == Len(a)
             lp == Len(P[i])
             x == z[i - 1]
             y == z[i]
             t == z[n]
  <2>5. /\ lh \in Nat /\ lf = t /\ t \in Nat /\ la = lh + t /\ x \in Nat /\ y \in Nat
        /\ y = x + lp /\ y <= t /\ lp \in Nat
    BY <1>10, <1>11, <2>2, <2>3, <2>4
  <2>6. e[i] = e[i - 1] + Len(P[i]) /\ e[i] <= e[n]
    <3>1. e[i] = lh + y /\ e[i - 1] = lh + x /\ e[n] = lh + t
      BY <1>12, <2>2
    <3> DEFINE u == e[i - 1]
               v == e[i]
               q == e[n]
    <3> HIDE DEF lh, lf, la, lp, x, y, t, u, v, q
    <3>2. v = u + lp /\ v <= q
      <4>1. v = lh + y /\ u = lh + x /\ q = lh + t
        BY <3>1 DEF u, v, q
      <4> QED BY ONLY <2>5, <4>1
    <3> QED BY <3>2 DEF u, v, q, lp
  <2>7. ASSUME NEW j \in 1 .. Len(P[i])
        PROVE  w[e[i - 1] + j] = P[i][j]
    <3>1. x + j \in 1 .. lf /\ lh + (x + j) = lh + x + j /\ lh + x + j \in 1 .. la
      <4>1. j \in 1 .. lp
        OBVIOUS
      <4> HIDE DEF lh, lf, la, lp, x, y, t
      <4> QED BY ONLY <2>5, <4>1
    <3>2. a[Len(h) + (z[i - 1] + j)] = f[z[i - 1] + j]
      BY <1>8, <3>1
    <3>3. w[Len(h) + z[i - 1] + j] = a[Len(h) + z[i - 1] + j]
      BY <1>9, <3>1
    <3> QED BY <2>2, <2>3, <3>1, <3>2, <3>3
  <2> QED BY <2>6, <2>7
<1>16. ASSUME NEW i \in 1 .. n PROVE PeerPlace(c, e, i)
  BY <1>1, <1>4, <1>15 DEF PeerPlace, n
<1> QED BY <1>1, <1>9, <1>12, <1>13, <1>14, <1>16 DEF PlacesIn, n

-----------------------------------------------------------------------------
(* UAPI: the daemon takes a request line by line.                          *)

InEntry(c, d, i, m, now, at, new) ==
  /\ m \in 1 .. Len(PeerLines(c.Peers[i]))
  /\ Amid(Behind(d, c, i - 1), SaidPeer(c.Peers[i]), Heard(PeerLines(c.Peers[i]), 2, m),
          now, at, new)

EntryAt(c, d, e, i, pos, now, at, new) ==
  pos - e[i - 1] \in Nat /\ InEntry(c, d, i, pos - e[i - 1], now, at, new)

\* After the first pos lines of a request to a daemon that had d.
TakenTo(c, d, e, pos, now, at, new) ==
  \/ pos \in 0 .. e[0] /\ now = WithHead(d, c, Heard(RequestOf(c), 1, pos))
  \/ \E i \in 1 .. Len(c.Peers) : EntryAt(c, d, e, i, pos, now, at, new)

\* Where a request can be: amid the lines before the peers, amid a peer's
\* lines, or between.
Whereabouts(c, d, e, pos, now, at, new) ==
  \/ pos < e[0] /\ now = WithHead(d, c, Heard(RequestOf(c), 1, pos))
  \/ \E i \in 1 .. Len(c.Peers) : \E m \in Nat :
       /\ pos = e[i - 1] + m /\ m < Len(PeerLines(c.Peers[i]))
       /\ InEntry(c, d, i, m, now, at, new)
  \/ \E i \in 0 .. Len(c.Peers) : pos = e[i] /\ now = Behind(d, c, i)

Askable(c, d) == c \in Config /\ EachOnce(c) /\ d \in DeviceState

LEMMA HeardMore ==
  ASSUME NEW s, NEW n \in Nat, NEW m \in Nat, n <= m + 1
  PROVE  Heard(s, n, m + 1) = Heard(s, n, m) \union {s[m + 1]}
<1>1. \A j : j \in n .. (m + 1) <=> j \in n .. m \/ j = m + 1
  OBVIOUS
<1>2. \A v : (\E j \in n .. (m + 1) : v = s[j]) <=> (\E j \in n .. m : v = s[j]) \/ v = s[m + 1]
  BY <1>1
<1> QED BY <1>2 DEF Heard

LEMMA EntryOf ==
  ASSUME NEW c \in Config, NEW i \in 1 .. Len(c.Peers)
  PROVE  /\ c.Peers[i] \in PeerConfig /\ SaidPeer(c.Peers[i]) \in PeerConfig
         /\ PeerLines(c.Peers[i]) \in Seq(Lines) /\ Len(PeerLines(c.Peers[i])) >= 1
         /\ PeerLines(c.Peers[i])[1] = Line("public_key", SaidPeer(c.Peers[i]).PublicKey)
         /\ Heard(PeerLines(c.Peers[i]), 2, Len(PeerLines(c.Peers[i]))) = FieldsOf(SaidPeer(c.Peers[i]))
         /\ IPsLast(PeerLines(c.Peers[i]))
<1> DEFINE p == SaidPeer(c.Peers[i])
           s == PeerLines(c.Peers[i])
<1>1. c.Peers[i] \in PeerConfig
  BY DEF Config
<1>2. p \in PeerConfig /\ PeerLines(p) = s
  BY <1>1, SaidPeerIs
<1> HIDE DEF p
<1>3. /\ PeerLines(p) \in Seq(Lines) /\ IPsLast(PeerLines(p))
      /\ Opens(PeerLines(p), Line("public_key", p.PublicKey), FieldsOf(p))
  BY <1>2, PeerLinesAre
<1> HIDE DEF s
<1>4. s \in Seq(Lines) /\ IPsLast(s) /\ Opens(s, Line("public_key", p.PublicKey), FieldsOf(p))
  BY <1>2, <1>3
<1>5. Len(s) >= 1 /\ s[1] = Line("public_key", p.PublicKey) /\ Heard(s, 2, Len(s)) = FieldsOf(p)
  BY <1>4 DEF Opens, Heard
<1> QED BY <1>1, <1>2, <1>4, <1>5 DEF p, s

\* The end of an entry.
LEMMA EntryEnd ==
  ASSUME NEW c, NEW d, Askable(c, d), NEW i \in 1 .. Len(c.Peers), NEW now, NEW at, NEW new,
         InEntry(c, d, i, Len(PeerLines(c.Peers[i])), now, at, new)
  PROVE  now = Behind(d, c, i)
<1> DEFINE p == SaidPeer(c.Peers[i])
           old == Behind(d, c, i - 1)
<1>1. c \in Config /\ d \in DeviceState /\ EachOnce(c)
  BY DEF Askable
<1>2. now = Holding(old, WithLines(old.peers, p, FieldsOf(p)))
  <2>1. Heard(PeerLines(c.Peers[i]), 2, Len(PeerLines(c.Peers[i]))) = FieldsOf(p)
    BY <1>1, EntryOf
  <2> QED BY <2>1 DEF InEntry, Amid
<1>3. p \in PeerConfig /\ ~ p.AdvancedSecurity /\ ~ p.DisableAdvancedSecurity
  <2>1. c.Peers[i] \in PeerConfig
    BY <1>1, EntryOf
  <2> QED BY <2>1, SaidPeerIs
<1>4. Behind(d, c, i) = Holding(old, WithEntry(old.peers, p))
  BY <1>1, BehindStep
<1> HIDE DEF p, old
<1>5. WithLines(old.peers, p, FieldsOf(p)) = WithEntry(old.peers, p)
  BY <1>3, AllLines
<1> QED BY <1>2, <1>4, <1>5

LEMMA Somewhere ==
  ASSUME NEW c, NEW d, Askable(c, d), NEW e, PlacesIn(c, e), NEW pos \in Nat,
         NEW now, NEW at, NEW new, TakenTo(c, d, e, pos, now, at, new)
  PROVE  Whereabouts(c, d, e, pos, now, at, new)
<1>1. c \in Config /\ d \in DeviceState /\ EachOnce(c) /\ Len(c.Peers) \in Nat
  BY DEF Askable, Config
<1>2. e \in [0 .. Len(c.Peers) -> Nat]
  BY DEF PlacesIn
<1>3. CASE pos \in 0 .. e[0] /\ now = WithHead(d, c, Heard(RequestOf(c), 1, pos))
  <2>1. CASE pos < e[0]
    BY <1>3, <2>1 DEF Whereabouts
  <2>2. CASE pos = e[0]
    <3>1. now = Behind(d, c, 0)
      <4>1. now = WithHead(d, c, HeadFields(c))
        BY <1>3, <2>2 DEF PlacesIn
      <4> QED BY <1>1, <4>1, BehindStep
    <3>2. 0 \in 0 .. Len(c.Peers)
      BY <1>1
    <3> QED BY <2>2, <3>1, <3>2 DEF Whereabouts
  <2>3. e[0] \in Nat
    BY <1>1, <1>2
  <2> QED BY <1>3, <2>1, <2>2, <2>3
<1>4. ASSUME NEW i \in 1 .. Len(c.Peers), pos - e[i - 1] \in Nat,
             InEntry(c, d, i, pos - e[i - 1], now, at, new)
      PROVE  Whereabouts(c, d, e, pos, now, at, new)
  <2> DEFINE m == pos - e[i - 1]
             k == Len(PeerLines(c.Peers[i]))
  <2>1. i \in 0 .. Len(c.Peers) /\ i - 1 \in 0 .. Len(c.Peers)
    BY <1>1
  <2>2. e[i - 1] \in Nat /\ e[i] \in Nat /\ e[i] = e[i - 1] + k
    BY <1>2, <2>1 DEF PlacesIn, PeerPlace
  <2>3. m \in Nat /\ m \in 1 .. k /\ pos = e[i - 1] + m
    BY <1>4, <2>2 DEF InEntry
  <2>4. InEntry(c, d, i, m, now, at, new)
    BY <1>4
  <2> HIDE DEF m, k
  <2>5. CASE m < k
    BY <2>3, <2>4, <2>5 DEF Whereabouts, k
  <2>6. CASE m = k
    <3>1. now = Behind(d, c, i)
      BY <2>4, <2>6, EntryEnd DEF k
    <3>2. pos = e[i]
      BY <2>2, <2>3, <2>6
    <3> QED BY <2>1, <3>1, <3>2 DEF Whereabouts
  <2>7. k \in Nat
    <3>1. PeerLines(c.Peers[i]) \in Seq(Lines)
      BY <1>1, EntryOf
    <3> QED BY <3>1 DEF k
  <2> QED BY <2>3, <2>5, <2>6, <2>7
<1> QED BY <1>3, <1>4 DEF TakenTo, EntryAt

\* The line that comes next.
NextLine(c, pos) == RequestOf(c)[pos + 1]

LEMMA FromIs ==
  ASSUME NEW c, NEW d, Askable(c, d), NEW e, PlacesIn(c, e), NEW pos \in Nat,
         NEW now, NEW at, NEW new, Whereabouts(c, d, e, pos, now, at, new)
  PROVE  /\ pos < Len(RequestOf(c))
         /\ Head(From(c, pos)) = NextLine(c, pos) /\ Tail(From(c, pos)) = From(c, pos + 1)
<1>1. c \in Config /\ Len(c.Peers) \in Nat
  BY DEF Askable, Config
<1>2. /\ e \in [0 .. Len(c.Peers) -> Nat] /\ RequestOf(c) \in Seq(Lines)
      /\ Len(RequestOf(c)) = e[Len(c.Peers)] + 1 /\ e[0] <= e[Len(c.Peers)]
  BY DEF PlacesIn
<1>3. \A i \in 1 .. Len(c.Peers) :
        /\ e[i] = e[i - 1] + Len(PeerLines(c.Peers[i])) /\ e[i] <= e[Len(c.Peers)]
        /\ e[i] \in Nat /\ e[i - 1] \in Nat
  <2> TAKE i \in 1 .. Len(c.Peers)
  <2>1. i \in 0 .. Len(c.Peers) /\ i - 1 \in 0 .. Len(c.Peers)
    BY <1>1
  <2> QED BY <1>2, <2>1 DEF PlacesIn, PeerPlace
<1>4. e[Len(c.Peers)] \in Nat /\ e[0] \in Nat
  BY <1>1, <1>2
<1>5. pos <= e[Len(c.Peers)]
  <2>1. CASE pos < e[0]
    BY <1>2, <1>4, <2>1
  <2>2. ASSUME NEW i \in 1 .. Len(c.Peers), NEW m \in Nat, pos = e[i - 1] + m,
               m < Len(PeerLines(c.Peers[i]))
        PROVE  pos <= e[Len(c.Peers)]
    <3>1. PeerLines(c.Peers[i]) \in Seq(Lines)
      BY <1>1, EntryOf
    <3>2. Len(PeerLines(c.Peers[i])) \in Nat
      BY <3>1
    <3> DEFINE k == Len(PeerLines(c.Peers[i]))
    <3> HIDE DEF k
    <3>3. e[i] = e[i - 1] + k /\ e[i] <= e[Len(c.Peers)] /\ e[i] \in Nat /\ e[i - 1] \in Nat
          /\ k \in Nat /\ m < k
      BY <1>3, <2>2, <3>2 DEF k
    <3> DEFINE x == e[i - 1]
               y == e[i]
               z == e[Len(c.Peers)]
    <3>4. y = x + k /\ y <= z /\ z \in Nat /\ y \in Nat /\ x \in Nat /\ k \in Nat /\ m < k
          /\ pos = x + m /\ m \in Nat
      BY <1>4, <2>2, <3>3
    <3> HIDE DEF x, y, z
    <3>5. pos <= z
      BY ONLY <3>4
    <3> QED BY <3>5 DEF z
  <2>3. ASSUME NEW i \in 0 .. Len(c.Peers), pos = e[i] PROVE pos <= e[Len(c.Peers)]
    <3>1. CASE i = 0
      BY <1>2, <2>3, <3>1
    <3>2. CASE i # 0
      <4>1. i \in 1 .. Len(c.Peers)
        BY <1>1, <3>2
      <4> QED BY <1>3, <2>3, <4>1
    <3> QED BY <3>1, <3>2
  <2> QED BY <2>1, <2>2, <2>3 DEF Whereabouts
<1>6. pos < Len(RequestOf(c))
  BY <1>2, <1>4, <1>5
<1> DEFINE w == RequestOf(c)
<1>7. w \in Seq(Lines) /\ pos < Len(w)
  BY <1>2, <1>6
<1> HIDE DEF w
<1>8. /\ Head(SubSeq(w, pos + 1, Len(w))) = w[pos + 1]
      /\ Tail(SubSeq(w, pos + 1, Len(w))) = SubSeq(w, pos + 2, Len(w))
  BY <1>7, RestIs
<1>9. pos + 1 + 1 = pos + 2
  OBVIOUS
<1> QED BY <1>6, <1>8, <1>9 DEF From, NextLine, w

LEMMA HeadNext ==
  ASSUME NEW c, NEW d, Askable(c, d), NEW e, PlacesIn(c, e), NEW pos \in Nat, pos < e[0]
  PROVE  /\ HeadLine(c, NextLine(c, pos)) /\ pos + 1 \in 0 .. e[0]
         /\ Heard(RequestOf(c), 1, pos + 1) = Heard(RequestOf(c), 1, pos) \union {NextLine(c, pos)}
<1>1. e[0] \in Nat /\ pos + 1 \in 1 .. e[0]
  <2>1. e \in [0 .. Len(c.Peers) -> Nat] /\ Len(c.Peers) \in Nat
    BY DEF PlacesIn, Askable, Config
  <2> QED BY <2>1
<1>2. NextLine(c, pos) \in Heard(RequestOf(c), 1, e[0])
  BY <1>1 DEF Heard, NextLine
<1>3. NextLine(c, pos) \in HeadFields(c)
  BY <1>2 DEF PlacesIn
<1>4. HeadLine(c, NextLine(c, pos))
  BY <1>3, HeadFieldsAre
<1>5. Heard(RequestOf(c), 1, pos + 1) = Heard(RequestOf(c), 1, pos) \union {RequestOf(c)[pos + 1]}
  BY HeardMore
<1> QED BY <1>1, <1>4, <1>5 DEF NextLine

\* The line after the first m of the lines s of the entry p.
FieldNext(s, m, line, p) ==
  /\ line = s[m + 1] /\ line \in FieldsOf(p)
  /\ line.key # "allowed_ip" => IPsSaid(Heard(s, 2, m)) = {}
  /\ m + 1 \in 1 .. Len(s) /\ Heard(s, 2, m + 1) = Heard(s, 2, m) \union {line}

LEMMA EntryNext ==
  ASSUME NEW c, NEW d, Askable(c, d), NEW e, PlacesIn(c, e), NEW i \in 1 .. Len(c.Peers),
         NEW m \in Nat, m >= 1, m < Len(PeerLines(c.Peers[i]))
  PROVE  FieldNext(PeerLines(c.Peers[i]), m, NextLine(c, e[i - 1] + m), SaidPeer(c.Peers[i]))
<1> DEFINE s == PeerLines(c.Peers[i])
<1>1. c \in Config /\ Len(c.Peers) \in Nat
  BY DEF Askable, Config
<1>2. /\ s \in Seq(Lines) /\ Heard(s, 2, Len(s)) = FieldsOf(SaidPeer(c.Peers[i])) /\ IPsLast(s)
  BY <1>1, EntryOf
<1>3. e \in [0 .. Len(c.Peers) -> Nat] /\ i - 1 \in 0 .. Len(c.Peers)
  BY <1>1 DEF PlacesIn
<1>4. e[i - 1] \in Nat
  BY <1>3
<1>5. \A j \in 1 .. Len(s) : RequestOf(c)[e[i - 1] + j] = s[j]
  BY DEF PlacesIn, PeerPlace
<1>6. m < Len(s)
  OBVIOUS
<1> HIDE DEF s
<1>7. m + 1 \in 1 .. Len(s) /\ m + 1 \in 2 .. Len(s) /\ e[i - 1] + m + 1 = e[i - 1] + (m + 1)
  <2> DEFINE x == e[i - 1]
  <2>1. x \in Nat /\ Len(s) \in Nat /\ m \in Nat /\ m < Len(s) /\ m >= 1
    BY <1>2, <1>4, <1>6
  <2> HIDE DEF x
  <2>2. m + 1 \in 1 .. Len(s) /\ m + 1 \in 2 .. Len(s) /\ x + m + 1 = x + (m + 1)
    BY ONLY <2>1
  <2> QED BY <2>2 DEF x
<1>8. NextLine(c, e[i - 1] + m) = s[m + 1]
  BY <1>5, <1>7 DEF NextLine
<1>9. s[m + 1] \in FieldsOf(SaidPeer(c.Peers[i]))
  BY <1>2, <1>7 DEF Heard
<1>10. ASSUME s[m + 1].key # "allowed_ip" PROVE IPsSaid(Heard(s, 2, m)) = {}
  <2>1. \A j \in 2 .. m : j \in 1 .. ((m + 1) - 1)
    OBVIOUS
  <2>2. \A j \in 2 .. m : s[j].key # "allowed_ip"
    BY <1>2, <1>7, <1>10, <2>1 DEF IPsLast
  <2>3. \A a : Line("allowed_ip", a).key = "allowed_ip"
    BY DEF Line
  <2>4. \A a : Line("allowed_ip", a) \notin Heard(s, 2, m)
    BY <2>2, <2>3 DEF Heard
  <2> QED BY <2>4 DEF IPsSaid
<1>11. Heard(s, 2, m + 1) = Heard(s, 2, m) \union {s[m + 1]}
  BY HeardMore
<1> QED BY <1>7, <1>8, <1>9, <1>10, <1>11 DEF s, FieldNext

LEMMA KeyNext ==
  ASSUME NEW c, NEW d, Askable(c, d), NEW e, PlacesIn(c, e), NEW i \in 1 .. Len(c.Peers)
  PROVE  /\ NextLine(c, e[i - 1]) = Line("public_key", SaidPeer(c.Peers[i]).PublicKey)
         /\ e[i - 1] \in Nat
<1> DEFINE s == PeerLines(c.Peers[i])
<1>1. c \in Config /\ Len(c.Peers) \in Nat
  BY DEF Askable, Config
<1>2. s \in Seq(Lines) /\ Len(s) >= 1 /\ s[1] = Line("public_key", SaidPeer(c.Peers[i]).PublicKey)
  BY <1>1, EntryOf
<1>3. \A j \in 1 .. Len(s) : RequestOf(c)[e[i - 1] + j] = s[j]
  BY DEF PlacesIn, PeerPlace
<1>4. e[i - 1] \in Nat
  <2>1. e \in [0 .. Len(c.Peers) -> Nat] /\ i - 1 \in 0 .. Len(c.Peers)
    BY <1>1 DEF PlacesIn
  <2> QED BY <2>1
<1> HIDE DEF s
<1>5. 1 \in 1 .. Len(s)
  BY <1>2
<1> QED BY <1>2, <1>3, <1>4, <1>5 DEF NextLine

\* The daemon takes one line.
LEMMA TakeLine ==
  ASSUME NEW c, NEW d, Askable(c, d), NEW e, PlacesIn(c, e), NEW pos \in Nat,
         TakenTo(c, d, e, pos, device, peer, made), req = From(c, pos), DaemonSets
  PROVE  TakenTo(c, d, e, pos + 1, device', peer', made') /\ req' = From(c, pos + 1)
<1>1. c \in Config /\ Len(c.Peers) \in Nat /\ EachOnce(c) /\ d \in DeviceState
  BY DEF Askable, Config
<1>2. Whereabouts(c, d, e, pos, device, peer, made)
  BY Somewhere
<1>3. Head(req) = NextLine(c, pos) /\ Tail(req) = From(c, pos + 1)
  BY <1>2, FromIs
<1>4. req' = From(c, pos + 1) /\ Head(req) # EmptyLine
  BY <1>3 DEF DaemonSets
<1>5. CASE pos < e[0] /\ device = WithHead(d, c, Heard(RequestOf(c), 1, pos))
  <2>1. /\ HeadLine(c, NextLine(c, pos)) /\ pos + 1 \in 0 .. e[0]
        /\ Heard(RequestOf(c), 1, pos + 1) = Heard(RequestOf(c), 1, pos) \union {NextLine(c, pos)}
    BY <1>5, HeadNext
  <2> DEFINE T == Heard(RequestOf(c), 1, pos)
  <2> HIDE DEF T
  <2>2. device = WithHead(d, c, T) /\ HeadLine(c, Head(req))
    BY <1>3, <1>5, <2>1 DEF T
  <2>3. device' = WithHead(d, c, T \union {Head(req)})
    BY <2>2, HeadStep
  <2> QED BY <1>3, <1>4, <2>1, <2>3 DEF TakenTo, T
<1>6. ASSUME NEW i \in 1 .. Len(c.Peers), NEW m \in Nat, pos = e[i - 1] + m,
             m < Len(PeerLines(c.Peers[i])), InEntry(c, d, i, m, device, peer, made)
      PROVE  TakenTo(c, d, e, pos + 1, device', peer', made')
  <2> DEFINE s == PeerLines(c.Peers[i])
             p == SaidPeer(c.Peers[i])
             old == Behind(d, c, i - 1)
             T == Heard(s, 2, m)
  <2>1. m >= 1 /\ Amid(old, p, T, device, peer, made)
    BY <1>6 DEF InEntry
  <2>2. FieldNext(s, m, NextLine(c, e[i - 1] + m), p)
    BY <1>6, <2>1, EntryNext
  <2>3. p \in PeerConfig /\ old \in DeviceState
    <3>1. i - 1 \in 0 .. Len(c.Peers)
      BY <1>1
    <3> QED BY <1>1, <3>1, EntryOf, BehindStep
  <2>4. /\ Head(req) = s[m + 1] /\ Head(req) \in FieldsOf(p)
        /\ Head(req).key # "allowed_ip" => IPsSaid(T) = {}
        /\ m + 1 \in 1 .. Len(s) /\ Heard(s, 2, m + 1) = T \union {Head(req)}
    <3>1. Head(req) = NextLine(c, e[i - 1] + m)
      BY <1>3, <1>6
    <3> HIDE DEF s, p
    <3> QED BY <2>2, <3>1 DEF FieldNext
  <2>5. e[i - 1] \in Nat
    BY KeyNext
  <2> HIDE DEF s, p, old, T
  <2>6. Amid(old, p, T \union {Head(req)}, device', peer', made')
    BY <2>1, <2>3, <2>4, FieldStep
  <2>7. InEntry(c, d, i, m + 1, device', peer', made')
    BY <2>4, <2>6 DEF InEntry, s, p, old
  <2>8. (pos + 1) - e[i - 1] = m + 1 /\ m + 1 \in Nat
    <3> DEFINE x == e[i - 1]
    <3>1. x \in Nat /\ pos = x + m /\ m \in Nat
      BY <1>6, <2>5
    <3> HIDE DEF x
    <3>2. (pos + 1) - x = m + 1 /\ m + 1 \in Nat
      BY ONLY <3>1
    <3> QED BY <3>2 DEF x
  <2>9. EntryAt(c, d, e, i, pos + 1, device', peer', made')
    BY <2>7, <2>8 DEF EntryAt
  <2> QED BY <2>9 DEF TakenTo
<1>7. ASSUME NEW i \in 0 .. Len(c.Peers), pos = e[i], device = Behind(d, c, i)
      PROVE  TakenTo(c, d, e, pos + 1, device', peer', made')
  <2>1. CASE i = Len(c.Peers)
    <3>1. Head(req) = EmptyLine
      BY <1>3, <1>7, <2>1 DEF PlacesIn, NextLine
    <3> QED BY <1>4, <3>1
  <2>2. CASE i # Len(c.Peers)
    <3> DEFINE k == i + 1
               p == SaidPeer(c.Peers[k])
               old == Behind(d, c, i)
    <3>1. k \in 1 .. Len(c.Peers) /\ k - 1 = i
      BY <1>1, <2>2
    <3>2. Head(req) = Line("public_key", p.PublicKey) /\ e[i] \in Nat
      BY <1>3, <1>7, <3>1, KeyNext
    <3>3. p \in PeerConfig /\ old \in DeviceState
      BY <1>1, <3>1, EntryOf, BehindStep
    <3>4. PeerLines(c.Peers[k]) \in Seq(Lines) /\ Len(PeerLines(c.Peers[k])) >= 1
      BY <1>1, <3>1, EntryOf
    <3> HIDE DEF p, old, k
    <3>5. Amid(old, p, {}, device', peer', made')
      BY <1>7, <3>2, <3>3, KeyStep DEF old
    <3>6. Heard(PeerLines(c.Peers[k]), 2, 1) = {}
      BY DEF Heard
    <3>7. InEntry(c, d, k, 1, device', peer', made')
      <4>1. 1 \in 1 .. Len(PeerLines(c.Peers[k]))
        BY <3>4
      <4> QED BY <3>1, <3>5, <3>6, <4>1 DEF InEntry, p, old
    <3>8. (pos + 1) - e[k - 1] = 1
      BY <1>7, <3>1, <3>2
    <3>9. EntryAt(c, d, e, k, pos + 1, device', peer', made')
      BY <3>7, <3>8 DEF EntryAt
    <3> QED BY <3>1, <3>9 DEF TakenTo
  <2> QED BY <2>1, <2>2
<1> QED BY <1>2, <1>4, <1>5, <1>6, <1>7 DEF Whereabouts

\* The empty line: the whole of the request is taken.
LEMMA AllTaken ==
  ASSUME NEW c, NEW d, Askable(c, d), NEW e, PlacesIn(c, e), NEW pos \in Nat,
         NEW now, NEW at, NEW new,
         TakenTo(c, d, e, pos, now, at, new), Head(From(c, pos)) = EmptyLine
  PROVE  now = Configured(d, Sayable(c))
<1>1. c \in Config /\ Len(c.Peers) \in Nat /\ EachOnce(c) /\ d \in DeviceState
  BY DEF Askable, Config
<1>2. Whereabouts(c, d, e, pos, now, at, new)
  BY Somewhere
<1>3. NextLine(c, pos) = EmptyLine
  BY <1>2, FromIs
<1>4. EmptyLine.key = "empty"
  BY DEF EmptyLine, Line
<1>5. CASE pos < e[0]
  <2>1. HeadLine(c, EmptyLine)
    BY <1>3, <1>5, HeadNext
  <2> QED BY <1>4, <2>1 DEF HeadLine
<1>6. ASSUME NEW i \in 1 .. Len(c.Peers), NEW m \in Nat, pos = e[i - 1] + m,
             m < Len(PeerLines(c.Peers[i])), InEntry(c, d, i, m, now, at, new)
      PROVE  FALSE
  <2> DEFINE p == SaidPeer(c.Peers[i])
  <2>1. m >= 1
    BY <1>6 DEF InEntry
  <2>2. EmptyLine \in FieldsOf(p)
    <3>1. FieldNext(PeerLines(c.Peers[i]), m, NextLine(c, e[i - 1] + m), p)
      BY <1>6, <2>1, EntryNext
    <3> QED BY <1>3, <1>6, <3>1 DEF FieldNext
  <2> HIDE DEF p
  <2>3. \A line \in FieldsOf(p) : line.key # "empty"
    <3>1. \A b, y, l : l \in (IF b THEN {y} ELSE {}) <=> b /\ l = y
      OBVIOUS
    <3>2. \A l : l \in {Line("allowed_ip", a) : a \in ToSet(p.AllowedIPs)}
                   <=> \E a \in ToSet(p.AllowedIPs) : l = Line("allowed_ip", a)
      OBVIOUS
    <3>3. \A l \in FieldsOf(p) :
            \/ l \in {Line("remove", "true"), Line("update_only", "true"), Line("opts", p.opts),
                      Line("replace_allowed_ips", "true")}
            \/ \E a \in ToSet(p.AllowedIPs) : l = Line("allowed_ip", a)
      BY <3>1, <3>2 DEF FieldsOf
    <3>4. \A k, v : Line(k, v).key = k
      BY DEF Line
    <3> QED BY ONLY <3>3, <3>4
  <2> QED BY <1>4, <2>2, <2>3
<1>7. ASSUME NEW i \in 0 .. Len(c.Peers), pos = e[i], now = Behind(d, c, i)
      PROVE  now = Configured(d, Sayable(c))
  <2>1. CASE i = Len(c.Peers)
    BY <1>1, <1>7, <2>1, BehindStep
  <2>2. CASE i # Len(c.Peers)
    <3>1. i + 1 \in 1 .. Len(c.Peers) /\ (i + 1) - 1 = i
      BY <1>1, <2>2
    <3>2. EmptyLine = Line("public_key", SaidPeer(c.Peers[i + 1]).PublicKey)
      BY <1>3, <1>7, <3>1, KeyNext
    <3> QED BY <1>4, <3>2 DEF Line
  <2> QED BY <2>1, <2>2
<1> QED BY <1>2, <1>5, <1>6, <1>7 DEF Whereabouts

-----------------------------------------------------------------------------
(* UAPI: setting a device, to the end.                                     *)

\* A daemon that had d still has rest of the request to set c before it.
Heeding(c, d, now, at, new, rest) ==
  \E e : \E pos \in Nat :
    PlacesIn(c, e) /\ rest = From(c, pos) /\ TakenTo(c, d, e, pos, now, at, new)

Final == device = Configured(origin, Sayable(config))

Answered ==
  /\ req = <<>>
  /\ alive => ans = Errno(0) \/ ans = Errno(1)
  /\ ans # <<>> /\ Accepts(Head(ans)) => Final

Setting ==
  /\ config \in Configurations /\ origin \in DeviceState
  /\ stage \in {"dial", "check", "write", "read", "done"}
  /\ stage \in {"dial", "check", "write"} => device = origin /\ req = <<>> /\ ans = <<>>
  /\ stage = "write" => NoLineBreak(config)
  /\ stage = "read" => \/ ans = <<>> /\ Heeding(config, origin, device, peer, made, req)
                       \/ Answered
  /\ outcome = "ok" => stage = "done" /\ req = <<>> /\ Final

SetInv == verb = "set" => Setting

\* An exchange starts with the daemon's device as it was.
LEMMA SetInit == ExchangeInit => SetInv
  BY HeldAssumption DEF ExchangeInit, SetInv, Setting

\* Nothing of the request is taken yet.
LEMMA RequestSent ==
  ASSUME NEW c, NEW d, Askable(c, d), NoLineBreak(c), NEW at, NEW new
  PROVE  Heeding(c, d, d, at, new, RequestOf(c))
<1>1. c \in Config /\ Len(c.Peers) \in Nat /\ d \in DeviceState
  BY DEF Askable, Config
<1>2. PICK e : PlacesIn(c, e)
  BY <1>1, RequestIs
<1>3. e[0] \in Nat /\ RequestOf(c) \in Seq(Lines)
  BY <1>1, <1>2 DEF PlacesIn
<1>4. WithHead(d, c, Heard(RequestOf(c), 1, 0)) = d
  <2>1. \A key : ~ Says(Heard(RequestOf(c), 1, 0), key)
    BY DEF Says, Heard
  <2>2. d = [dev |-> d.dev, awg |-> d.awg, peers |-> d.peers]
    BY <1>1 DEF DeviceState
  <2> QED BY <2>1, <2>2 DEF WithHead
<1>5. TakenTo(c, d, e, 0, d, at, new)
  BY <1>3, <1>4 DEF TakenTo
<1>6. From(c, 0) = RequestOf(c)
  <2> DEFINE w == RequestOf(c)
  <2> HIDE DEF w
  <2>1. w \in Seq(Lines)
    BY <1>3 DEF w
  <2>2. SubSeq(w, 0 + 1, Len(w)) = w
    BY <2>1
  <2> QED BY <2>2 DEF From, w
<1> QED BY <1>2, <1>5, <1>6 DEF Heeding

LEMMA HeedLine ==
  ASSUME NEW c, NEW d, Askable(c, d),
         Heeding(c, d, device, peer, made, req), DaemonSets
  PROVE  Heeding(c, d, device', peer', made', req')
<1>1. PICK e : \E pos \in Nat :
        PlacesIn(c, e) /\ req = From(c, pos) /\ TakenTo(c, d, e, pos, device, peer, made)
  BY DEF Heeding
<1>2. PICK pos \in Nat :
        PlacesIn(c, e) /\ req = From(c, pos) /\ TakenTo(c, d, e, pos, device, peer, made)
  BY <1>1
<1>3. TakenTo(c, d, e, pos + 1, device', peer', made') /\ req' = From(c, pos + 1)
  BY <1>2, TakeLine
<1>4. pos + 1 \in Nat
  OBVIOUS
<1> QED BY <1>2, <1>3, <1>4 DEF Heeding

LEMMA HeedAll ==
  ASSUME NEW c, NEW d, Askable(c, d), NEW now, NEW at, NEW new, NEW rest,
         Heeding(c, d, now, at, new, rest), Head(rest) = EmptyLine
  PROVE  now = Configured(d, Sayable(c))
<1>1. PICK e : \E pos \in Nat :
        PlacesIn(c, e) /\ rest = From(c, pos) /\ TakenTo(c, d, e, pos, now, at, new)
  BY DEF Heeding
<1>2. PICK pos \in Nat :
        PlacesIn(c, e) /\ rest = From(c, pos) /\ TakenTo(c, d, e, pos, now, at, new)
  BY <1>1
<1> QED BY <1>2, AllTaken

\* What the daemon had and what is asked stay as they are.
LEMMA SetStays ==
  ASSUME verb = "set", [ExchangeNext]_exchangeVars
  PROVE  UNCHANGED <<verb, config, origin>>
  BY DEF ExchangeNext, exchangeVars, clientVars, Dial, Check, WriteFails, WriteGet, WriteSet,
         DaemonSets, DaemonDone, DaemonRefuses, DaemonDies, TimePasses, ReadLine, EndOfAnswer,
         ReadReply, Timeout

\* No configuration that is set names a key twice.
EachNamedOnce == \A c \in Configurations : EachOnce(c)

\* An answer of the daemon: accepted for a good reason only.
LEMMA RefusalIs ==
  /\ ~ Accepts(Head(Errno(1))) /\ Head(Errno(0)) = Line("errno", 0)
  /\ \A n : Errno(n) # <<>> /\ Errno(n)[1] = Line("errno", n) /\ Len(Errno(n)) = 2
  BY DEF Errno, Accepts, Line

\* The daemon dies amid an answer.
LEMMA CutRefusal ==
  ASSUME NEW n \in 0 .. 2, NEW s,
         \/ s = SubSeq(Errno(1), 1, n)
         \/ n < 2 /\ \E part \in Cut(Errno(1)[n + 1]) : s = Append(SubSeq(Errno(1), 1, n), part),
         s # <<>>
  PROVE  ~ Accepts(Head(s))
<1> DEFINE t == SubSeq(Errno(1), 1, n)
           E1 == Line("errno", 1)
<1>1. n = 0 => t = <<>>
  BY DEF Errno
<1>2. n # 0 => Len(t) = n /\ t[1] = E1 /\ Head(t) = E1 /\ \A part : Head(Append(t, part)) = E1
  BY DEF Errno
<1>3. ~ Accepts(E1)
  BY DEF Accepts, Line
<1>4. \A part \in Cut(E1) : ~ Accepts(part)
  <2>1. \A part \in Cut(E1) : part = Line("malformed", Nil) \/ part = Line("errno", Garbled)
    BY DEF Cut, Line
  <2>2. Garbled # 0
    BY GarbledAssumption
  <2> QED BY <2>1, <2>2 DEF Accepts, Line
<1>5. Errno(1)[1] = E1
  BY RefusalIs
<1> HIDE DEF t, E1
<1>6. CASE n = 0
  <2>1. PICK part \in Cut(E1) : s = Append(<<>>, part)
    BY <1>1, <1>5, <1>6 DEF t
  <2>2. Head(s) = part
    BY <2>1
  <2> QED BY <1>4, <2>1, <2>2
<1>7. CASE n # 0
  <2>1. Head(s) = E1
    BY <1>2, <1>7 DEF t
  <2> QED BY <1>3, <2>1
<1> QED BY <1>6, <1>7

\* What a set exchange keeps in every step.
LEMMA SetFixed ==
  ASSUME Setting, verb = "set", [ExchangeNext]_exchangeVars, EachNamedOnce
  PROVE  /\ config' = config /\ origin' = origin
         /\ config' \in Configurations /\ origin' \in DeviceState
         /\ Askable(config, origin)
<1>1. UNCHANGED <<verb, config, origin>>
  BY SetStays
<1>2. config \in Config /\ EachOnce(config) /\ origin \in DeviceState
  BY HeldAssumption DEF Setting, EachNamedOnce
<1> QED BY <1>1, <1>2 DEF Setting, Askable

\* The client's steps.
LEMMA ClientSets ==
  ASSUME Setting, verb = "set", EachNamedOnce,
         Dial \/ Check \/ WriteFails \/ WriteSet \/ ReadReply \/ Timeout
  PROVE  Setting'
<1>0. /\ config' = config /\ origin' = origin
      /\ config' \in Configurations /\ origin' \in DeviceState
      /\ Askable(config, origin)
  <2>1. [ExchangeNext]_exchangeVars
    BY DEF ExchangeNext
  <2> QED BY <2>1, SetFixed
<1>1. CASE Dial
  BY <1>0, <1>1 DEF Setting, Dial, Ends, daemonVars
<1>2. CASE Check
  BY <1>0, <1>2 DEF Setting, Check, Ends, daemonVars
<1>3. CASE WriteFails
  <2>1. stage' = "done" /\ outcome' \in {"io", "timeout"}
    BY <1>3 DEF WriteFails, Ends
  <2> QED BY <1>0, <2>1 DEF Setting
<1>4. CASE WriteSet
  <2>1. /\ stage = "write" /\ stage' = "read" /\ outcome' = outcome /\ ans' = ans
        /\ UNCHANGED <<device, peer, made>> /\ req' = RequestOf(config)
    BY <1>4 DEF WriteSet, daemonVars, Request, RequestOf
  <2>2. device = origin /\ ans = <<>> /\ NoLineBreak(config) /\ outcome # "ok"
    BY <2>1 DEF Setting
  <2>3. Heeding(config, origin, origin, peer, made, RequestOf(config))
    BY <1>0, <2>2, RequestSent
  <2>4. Heeding(config', origin', device', peer', made', req')
    BY <1>0, <2>1, <2>2, <2>3
  <2> QED BY <1>0, <2>1, <2>2, <2>4 DEF Setting
<1>5. CASE ReadReply
  <2>1. /\ stage = "read" /\ stage' = "done" /\ UNCHANGED <<device, req, ans>>
        /\ outcome' = "ok" => ans # <<>> /\ Accepts(Head(ans))
    BY <1>5 DEF ReadReply, Ends, daemonVars
  <2>2. outcome' = "ok" => Answered
    BY <2>1 DEF Setting
  <2>3. outcome' = "ok" => req' = <<>> /\ Final'
    BY <1>0, <2>1, <2>2 DEF Answered, Final
  <2> QED BY <1>0, <2>1, <2>3 DEF Setting
<1>6. CASE Timeout
  <2>1. stage' = "done" /\ outcome' = "timeout"
    BY <1>6 DEF Timeout, Ends
  <2> QED BY <1>0, <2>1 DEF Setting
<1> QED BY <1>1, <1>2, <1>3, <1>4, <1>5, <1>6

\* The daemon's steps.
LEMMA DaemonTakes ==
  ASSUME Setting, verb = "set", EachNamedOnce, DaemonSets
  PROVE  Setting'
<1>0. /\ config' = config /\ origin' = origin
      /\ config' \in Configurations /\ origin' \in DeviceState
      /\ Askable(config, origin)
  <2>1. [ExchangeNext]_exchangeVars
    BY DEF ExchangeNext
  <2> QED BY <2>1, SetFixed
<1>1. req # <<>> /\ UNCHANGED <<stage, outcome, alive, ans>>
  BY DEF DaemonSets, clientVars
<1>2. stage \in {"read", "done"} /\ outcome # "ok"
  BY <1>1 DEF Setting
<1>3. CASE stage = "read"
  <2>1. ans = <<>> /\ Heeding(config, origin, device, peer, made, req)
    BY <1>1, <1>3 DEF Setting, Answered
  <2>2. PICK c : c = config
    OBVIOUS
  <2>3. PICK d : d = origin
    OBVIOUS
  <2>4. Askable(c, d) /\ Heeding(c, d, device, peer, made, req)
    BY <1>0, <2>1, <2>2, <2>3
  <2>5. Heeding(c, d, device', peer', made', req')
    BY ONLY <2>4, HeedLine, DaemonSets
  <2>6. config' = c /\ origin' = d
    BY <1>0, <2>2, <2>3
  <2>7. Heeding(config', origin', device', peer', made', req')
    BY <2>5, <2>6
  <2> QED BY <1>0, <1>1, <1>2, <1>3, <2>1, <2>7 DEF Setting
<1>4. CASE stage = "done"
  BY <1>0, <1>1, <1>2, <1>4 DEF Setting
<1> QED BY <1>2, <1>3, <1>4

LEMMA DaemonAnswers ==
  ASSUME Setting, verb = "set", EachNamedOnce, DaemonDone \/ DaemonRefuses
  PROVE  Setting'
<1>0. /\ config' = config /\ origin' = origin
      /\ config' \in Configurations /\ origin' \in DeviceState
      /\ Askable(config, origin)
  <2>1. [ExchangeNext]_exchangeVars
    BY DEF ExchangeNext
  <2> QED BY <2>1, SetFixed
<1>1. /\ req # <<>> /\ req' = <<>> /\ UNCHANGED <<stage, outcome, alive, device>>
      /\ ans' = Errno(0) \/ ans' = Errno(1)
      /\ ans' = Errno(1) \/ Head(req) = EmptyLine
  BY DEF DaemonDone, DaemonRefuses, clientVars, daemonVars
<1>2. stage \in {"read", "done"} /\ outcome # "ok"
  BY <1>1 DEF Setting
<1>3. CASE stage = "read"
  <2>1. Heeding(config, origin, device, peer, made, req)
    BY <1>1, <1>3 DEF Setting, Answered
  <2>2. Head(req) = EmptyLine => Final
    BY <1>0, <2>1, HeedAll DEF Final
  <2>3. Accepts(Head(ans')) => ans' # Errno(1)
    BY RefusalIs
  <2>4. Accepts(Head(ans')) => Final'
    BY <1>0, <1>1, <2>2, <2>3 DEF Final
  <2>5. Answered'
    BY <1>1, <2>4 DEF Answered, Errno, EmptyLine, Line, Accepts
  <2> QED BY <1>0, <1>1, <1>2, <1>3, <2>5 DEF Setting
<1>4. CASE stage = "done"
  BY <1>0, <1>1, <1>2, <1>4 DEF Setting
<1> QED BY <1>2, <1>3, <1>4

LEMMA DaemonGone ==
  ASSUME Setting, verb = "set", EachNamedOnce, DaemonDies
  PROVE  Setting'
<1>0. /\ config' = config /\ origin' = origin
      /\ config' \in Configurations /\ origin' \in DeviceState
      /\ Askable(config, origin)
  <2>1. [ExchangeNext]_exchangeVars
    BY DEF ExchangeNext
  <2> QED BY <2>1, SetFixed
<1>1. /\ alive /\ ~ alive' /\ req' = <<>> /\ UNCHANGED <<stage, outcome, device>>
      /\ \E n \in 0 .. Len(ans) :
           \/ ans' = SubSeq(ans, 1, n)
           \/ n < Len(ans) /\ \E part \in Cut(ans[n + 1]) : ans' = Append(SubSeq(ans, 1, n), part)
  BY DEF DaemonDies, clientVars
<1>2. PICK n \in 0 .. Len(ans) :
        \/ ans' = SubSeq(ans, 1, n)
        \/ n < Len(ans) /\ \E part \in Cut(ans[n + 1]) : ans' = Append(SubSeq(ans, 1, n), part)
  BY <1>1
<1>3. ans = <<>> => ans' = <<>>
  BY <1>2
<1>4. Final => Final'
  BY <1>0, <1>1 DEF Final
<1>5. CASE stage \in {"dial", "check", "write"}
  BY <1>0, <1>1, <1>3, <1>5 DEF Setting
<1>6. CASE stage = "read"
  <2>1. CASE ans = <<>>
    <3>1. Answered'
      BY <1>1, <1>3, <2>1 DEF Answered
    <3> QED BY <1>0, <1>1, <1>6, <3>1 DEF Setting
  <2>2. CASE ans # <<>>
    <3>1. Answered
      BY <1>6, <2>2 DEF Setting
    <3>2. CASE ans = Errno(0)
      <4>1. Accepts(Head(ans))
        BY <3>2, RefusalIs DEF Accepts
      <4>2. Final'
        BY <1>4, <2>2, <3>1, <4>1 DEF Answered
      <4>3. Answered'
        BY <1>1, <4>2 DEF Answered
      <4> QED BY <1>0, <1>1, <1>6, <4>3 DEF Setting
    <3>3. CASE ans = Errno(1)
      <4>1. Len(ans) = 2
        BY <3>3, RefusalIs
      <4>2. ans' # <<>> => ~ Accepts(Head(ans'))
        <5>1. n \in 0 .. 2
          BY <4>1
        <5>2. \/ ans' = SubSeq(Errno(1), 1, n)
              \/ n < 2 /\ \E part \in Cut(Errno(1)[n + 1]) : ans' = Append(SubSeq(Errno(1), 1, n), part)
          BY <1>2, <3>3, <4>1
        <5> QED BY ONLY <5>1, <5>2, CutRefusal
      <4>3. Answered'
        BY <1>1, <4>2 DEF Answered
      <4> QED BY <1>0, <1>1, <1>6, <4>3 DEF Setting
    <3> QED BY <1>1, <3>1, <3>2, <3>3 DEF Answered
  <2> QED BY <2>1, <2>2
<1>7. CASE stage = "done"
  BY <1>0, <1>1, <1>4, <1>7 DEF Setting
<1> QED BY <1>5, <1>6, <1>7 DEF Setting

LEMMA TimeSets ==
  ASSUME Setting, verb = "set", EachNamedOnce, TimePasses \/ UNCHANGED exchangeVars
  PROVE  Setting'
<1>1. UNCHANGED <<config, origin, stage, outcome, alive, device, peer, made, req, ans>>
  BY DEF TimePasses, exchangeVars, clientVars, daemonVars
<1>2. Heeding(config, origin, device, peer, made, req)
        => Heeding(config', origin', device', peer', made', req')
  BY <1>1
<1>3. Final <=> Final'
  BY <1>1 DEF Final
<1>4. Answered <=> Answered'
  BY <1>1, <1>3 DEF Answered
<1> QED BY <1>1, <1>2, <1>3, <1>4 DEF Setting

LEMMA SetLineStep ==
  ASSUME EachNamedOnce
  PROVE  SetInv /\ [ExchangeNext]_exchangeVars => SetInv'
<1> SUFFICES ASSUME SetInv, [ExchangeNext]_exchangeVars PROVE SetInv'
  OBVIOUS
<1>1. verb' = verb
  BY DEF ExchangeNext, exchangeVars, clientVars, Dial, Check, WriteFails, WriteGet, WriteSet,
         DaemonSets, DaemonDone, DaemonRefuses, DaemonDies, TimePasses, ReadLine, EndOfAnswer,
         ReadReply, Timeout
<1> SUFFICES ASSUME verb = "set" PROVE Setting'
  BY <1>1 DEF SetInv
<1>2. Setting
  BY DEF SetInv
<1>3. ~ WriteGet /\ ~ ReadLine /\ ~ EndOfAnswer
  BY DEF WriteGet, ReadLine, EndOfAnswer
<1> QED BY <1>2, <1>3, ClientSets, DaemonTakes, DaemonAnswers, DaemonGone, TimeSets DEF ExchangeNext

\* nil from ConfigureDevice over a socket: the daemon has made of its device
\* what the configuration means, whatever it held before, one line after the
\* other, if no configuration names a key twice.
THEOREM DaemonSetRight ==
  ASSUME EachNamedOnce
  PROVE  ExchangeSpec => []DaemonSetAsAsked
<1>1. SetInv => DaemonSetAsAsked
  BY DEF SetInv, Setting, Final, DaemonSetAsAsked
<1> QED BY <1>1, SetInit, SetLineStep, PTL DEF ExchangeSpec
===============================================================================
