-------------------------------- MODULE Generate --------------------------------
(***************************************************************************)
(* Config.GenerateAmneziaParams of wgtypes/types.go: random numbers, draw  *)
(* by draw, for the junk packets, the paddings and four header ranges that *)
(* are shuffled at the end.                                                *)
(***************************************************************************)
EXTENDS Draws

VARIABLES
  pc,       \* "junk", "padding", "range", "init", "done"
  n,        \* Jc, Jmin, Jmax, S1..S4
  offset,   \* currentOffset
  ranges,   \* the ranges drawn so far, in increasing order
  H,        \* H1..H4
  I         \* I1..I5

vars == <<pc, n, offset, ranges, H, I>>

Init ==
  /\ pc = "junk"
  /\ n = [f \in Numbers |-> Nil]
  /\ offset = 0
  /\ ranges = <<>>
  /\ H = [i \in Headers |-> Nil]
  /\ I = [i \in 1 .. 5 |-> Nil]

JunkPackets ==
  /\ pc = "junk"
  /\ \E r1 \in IntN(4), r2 \in IntN(50), r3 \in IntN(100) :
       n' = [n EXCEPT !["Jc"] = 3 + r1, !["Jmin"] = 64 + r2,
                      !["Jmax"] = 64 + r2 + 50 + r3]
  /\ pc' = "padding"
  /\ UNCHANGED <<offset, ranges, H, I>>

\* Rule A: the paddings differ.  Rule B: so do the sizes of the messages.
RuleA(s1, s2, s3, s4) == s4 \notin {s1, s2, s3} /\ s1 # s2 /\ s1 # s3 /\ s2 # s3
RuleB(s1, s2, s3) ==
  s1 + 148 # s2 + 92 /\ s3 + 64 # s1 + 148 /\ s3 + 64 # s2 + 92

\* The last round of the loop: a draw that breaks a rule is thrown away.
Padding ==
  /\ pc = "padding"
  /\ \E r1 \in IntN(49), r2 \in IntN(49), r3 \in IntN(54), r4 \in IntN(15) :
       LET s1 == 15 + r1  s2 == 15 + r2  s3 == 10 + r3  s4 == 1 + r4
       IN  /\ RuleA(s1, s2, s3, s4)
           /\ RuleB(s1, s2, s3)
           /\ n' = [n EXCEPT !["S1"] = s1, !["S2"] = s2, !["S3"] = s3, !["S4"] = s4]
  /\ \E r \in IntN(50 * Million) : offset' = 150 * Million + r
  /\ pc' = "range"
  /\ UNCHANGED <<ranges, H, I>>

\* Mutant: no gap, so that the next range starts where this one ends.
GapNone(r) == 0

\* "A guaranteed gap to prevent overlap."
Gap(r) == 10 * Million + r

Width(r) == 50 * Million + r

DrawRange ==
  /\ pc = "range"
  /\ Len(ranges) < 4
  /\ \E w \in IntN(100 * Million), g \in IntN(20 * Million) :
       LET end == offset + Width(w)
       IN  /\ ranges' = Append(ranges, <<offset, end>>)
           /\ offset' = end + Gap(g)
  /\ UNCHANGED <<pc, n, H, I>>

Shuffle ==
  /\ pc = "range"
  /\ Len(ranges) = 4
  /\ \E p \in {q \in [Headers -> Headers] : \A i, j \in Headers : i # j => q[i] # q[j]} :
       H' = [i \in Headers |-> ranges[p[i]]]
  /\ pc' = "init"
  /\ UNCHANGED <<n, offset, ranges, I>>

InitPackets ==
  /\ pc = "init"
  /\ \E r1 \in IntN(26), r \in [2 .. 5 -> IntN(20)] :
       I' = [i \in 1 .. 5 |->
              <<[key |-> "r", val |-> IF i = 1 THEN 15 + r1 ELSE 10 + r[i], text |-> 6]>>]
  /\ pc' = "done"
  /\ UNCHANGED <<n, offset, ranges, H>>

Next == JunkPackets \/ Padding \/ DrawRange \/ Shuffle \/ InitPackets

Spec == Init /\ [][Next]_vars

-----------------------------------------------------------------------------
(* Properties.                                                             *)

\* "We keep max value below math.MaxInt32", for clients that read a header as
\* a signed number: the widths and the gaps of four ranges add up.
BelowMaxInt32 == \A k \in DOMAIN ranges : ranges[k][2] < (U32 \div 2) - 1
=============================================================================
