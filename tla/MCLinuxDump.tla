------------------------------- MODULE MCLinuxDump -------------------------------
(***************************************************************************)
(* LinuxDump for a device with up to three peers, one of which has three   *)
(* allowed IPs.                                                            *)
(***************************************************************************)
EXTENDS LinuxDump

P(k, ips) == [key |-> k, attrs |-> "v", ips |-> ips]

MCStarts ==
  {<<>>,
   <<P("k1", <<>>)>>,
   <<P("k1", <<"a1", "a2", "a3">>), P("k2", <<"a4">>)>>,
   <<P("k1", <<"a1">>), P("k2", <<"a2", "a3">>), P("k3", <<"a4">>)>>}
=============================================================================
