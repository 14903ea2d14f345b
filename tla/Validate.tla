-------------------------------- MODULE Validate --------------------------------
(***************************************************************************)
(* Config.Validate of wgtypes/validate.go, and the integer encodings it    *)
(* protects (wglinux/configure_linux.go): everything it lets pass has to   *)
(* survive the 16-bit and 32-bit attributes unchanged.                     *)
(*                                                                         *)
(* A Config is a record; an unset field is Nil.                            *)
(*   n      the 16-bit numbers: Jc, Jmin, Jmax, S1..S4, ListenPort         *)
(*   mark   FirewallMark                                                   *)
(*   H      the four magic headers, each a pair <<N, M>> ("N" is <<N, N>>) *)
(*   I      the five init packets, each a sequence of tags                 *)
(*   peers  a sequence of [ka, port, on, off]: keepalive in thousandths of *)
(*          a second, endpoint port, (Disable)AdvancedSecurity             *)
(***************************************************************************)
EXTENDS Integers, Sequences, SequencesExt

CONSTANTS Nil,
          U32   \* 2^32 in the source

U16 == 65536
maxMessageSize == 65535

ASSUME U32Assumption == U32 \in Nat /\ U32 > U16

Numbers == {"Jc", "Jmin", "Jmax", "S1", "S2", "S3", "S4", "ListenPort"}
Headers == 1 .. 4

\* A valid value of each 16-bit field is at most this.  The paddings leave
\* room for their message: 148, 92, 64 and 32 bytes.
Limit ==
  [Jc |-> 128, Jmin |-> 1280, Jmax |-> 1280,
   S1 |-> maxMessageSize - 148, S2 |-> maxMessageSize - 92,
   S3 |-> maxMessageSize - 64,  S4 |-> maxMessageSize - 32,
   ListenPort |-> 65535]

-----------------------------------------------------------------------------
(* I1-I5.                                                                  *)

\* A tag is its key, its value (the number of hex digits of <b 0x...>, the N
\* of <r N>, <rc N> and <rd N>) and the length of its text, with the blanks
\* that follow it.  Bad is a size nothing has.
Bad == -1

TagSize(t) ==
  CASE t.key = "b" /\ t.val # Nil /\ t.val > 0 /\ t.val % 2 = 0 -> t.val \div 2
    [] t.key \in {"c", "t"} /\ t.val = Nil -> 4
    [] t.key \in {"r", "rc", "rd"} /\ t.val # Nil /\ t.val > 0
         /\ t.val <= maxMessageSize -> t.val
    [] OTHER -> Bad

\* Mutant: the sum is not checked, as if each tag's own limit were enough.
AddTagUnchecked(size, t) ==
  IF size = Bad \/ TagSize(t) = Bad THEN Bad ELSE size + TagSize(t)

AddTag(size, t) ==
  IF size = Bad \/ TagSize(t) = Bad \/ TagSize(t) > maxMessageSize - size
  THEN Bad ELSE size + TagSize(t)

InitPacketSize(spec) == FoldLeft(AddTag, 0, spec)

\* All the tags at once: every one is well formed and the packet fits in one
\* UDP payload.
SizeAgrees(spec) ==
  LET sizes == [i \in DOMAIN spec |-> TagSize(spec[i])]
      sum   == FoldFunction(+, 0, sizes)
      good  == (\A i \in DOMAIN spec : sizes[i] # Bad) /\ sum <= maxMessageSize
  IN  InitPacketSize(spec) = IF good THEN sum ELSE Bad

\* A netlink attribute without its header and the terminating NUL.
maxInitSpecLen == 65535 - 4 - 1

TextLength(spec) == FoldLeft(LAMBDA len, t : len + t.text, 0, spec)

-----------------------------------------------------------------------------
\* ParseMagicHeader: two 32-bit numbers, in order.
ParseMagicHeader(h) == 0 <= h[1] /\ h[1] <= h[2] /\ h[2] < U32

\* Mutant: only the starts are compared.
OverlapStarts(g, h) == g[1] <= h[1] /\ h[1] <= g[2]

Overlap(g, h) == h[1] <= g[2] /\ g[1] <= h[2]

\* Mutants: Jc is not bounded above; a range without its lower bound.
InLimitsNoMax(n) ==
  \A f \in Numbers : n[f] # Nil => 0 <= n[f] /\ (f = "Jc" \/ n[f] <= Limit[f])

InLimits(n) == \A f \in Numbers : n[f] # Nil => 0 <= n[f] /\ n[f] <= Limit[f]

\* Jmax 0 switches junk packets off.
JunkInOrder(n) ==
  n["Jmin"] # Nil /\ n["Jmax"] # Nil /\ n["Jmax"] # 0 => n["Jmin"] <= n["Jmax"]

HeadersApart(H) ==
  /\ \A i \in Headers : H[i] # Nil => ParseMagicHeader(H[i])
  /\ \A i, j \in Headers :
       i < j /\ H[i] # Nil /\ H[j] # Nil => ~ Overlap(H[i], H[j])

PeerValid(p) ==
  /\ p.ka # Nil => 0 <= p.ka /\ p.ka <= 65535 * 1000
  /\ p.port # Nil => 0 <= p.port /\ p.port <= 65535
  /\ ~ (p.on /\ p.off)

Validates(cfg) ==
  /\ InLimits(cfg.n)
  /\ cfg.mark # Nil => 0 <= cfg.mark /\ cfg.mark < U32
  /\ \A i \in DOMAIN cfg.peers : PeerValid(cfg.peers[i])
  /\ JunkInOrder(cfg.n)
  /\ HeadersApart(cfg.H)
  /\ \A i \in 1 .. 5 :
       cfg.I[i] # Nil =>
         TextLength(cfg.I[i]) <= maxInitSpecLen /\ InitPacketSize(cfg.I[i]) # Bad

-----------------------------------------------------------------------------
\* uint16(*v), uint32(*v) and uint16(interval.Seconds()).
Uint16(v) == v % U16
Uint32(v) == v % U32
KeepaliveSeconds(ka) == Uint16(ka \div 1000)
=============================================================================
