----------------------------- MODULE MCWindowsClient -----------------------------
(***************************************************************************)
(* WindowsClient with small sets of names and paths.                       *)
(***************************************************************************)
EXTENDS WindowsClient
=============================================================================
