---------------------------------- MODULE Draws ----------------------------------
(***************************************************************************)
(* What GenerateAmneziaParams draws from: math/rand, and headers of 32 bits *)
(* for its ranges.                                                         *)
(***************************************************************************)
EXTENDS Validate

CONSTANT IntN(_)  \* the values rand.IntN(n) may return

Million == 1000000

ASSUME IntNAssumption ==
  \A k \in {4, 15, 20, 26, 49, 50, 54, 100, 20 * Million, 50 * Million, 100 * Million} :
    \A r \in IntN(k) : r \in Nat /\ r < k

\* 2^32 is 4294967296; the sums of Generate stay well under half of it.
ASSUME WideHeaders == U32 >= 1800 * Million
=============================================================================
