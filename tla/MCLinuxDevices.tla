----------------------------- MODULE MCLinuxDevices -----------------------------
(***************************************************************************)
(* LinuxDevices with two names.                                            *)
(***************************************************************************)
EXTENDS LinuxDevices

BothOps == {"devices", "device"}
=============================================================================
