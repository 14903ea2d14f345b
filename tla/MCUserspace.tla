------------------------------ MODULE MCUserspace ------------------------------
(***************************************************************************)
(* Userspace with two names in two directories: four sockets, each of them *)
(* absent, stale or live beforehand; or two named pipes.                   *)
(***************************************************************************)
EXTENDS Userspace

AllPlatforms == {"unix", "windows"}
AllOps == {"devices", "device", "configure"}
AllContexts == {"background", "cancel", "deadline"}
=============================================================================
