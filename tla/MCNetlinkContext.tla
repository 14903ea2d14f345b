---------------------------- MODULE MCNetlinkContext ---------------------------
(***************************************************************************)
(* NetlinkContext on two calls.  Nothing in the specification but the      *)
(* bound Goroutines relates more than two calls, so two calls under way    *)
(* at once, and two made one after the other, are the interesting cases.   *)
(***************************************************************************)
EXTENDS NetlinkContext

CONSTANTS c1, c2

TwoCalls == {c1, c2}
=============================================================================
