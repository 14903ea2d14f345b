-------------------------------- MODULE MCClient --------------------------------
(***************************************************************************)
(* Client with its two backends.  A backend may list a name twice.         *)
(***************************************************************************)
EXTENDS Client

AllOps == {"devices", "device", "configure", "close"}
=============================================================================
