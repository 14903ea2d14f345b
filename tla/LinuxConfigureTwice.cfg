\* A peer is removed and added again in a configuration that is split: the new
\* peer lacks its preshared key.
CONSTANTS
  a = a
  b = b
  k1 = k1
  k2 = k2
  i1 = i1
  i2 = i2
  i3 = i3
  bad = bad
  Keys <- MCKeys
  IPs <- MCIPs
  Opts <- MCOpts
  Values <- MCValues
  Invalid = {bad}
  Nil = Nil
  IPChunk = 2
  PeerChunk = 1
  Callers = {a}
  Workloads <- Repeated
  Devices <- MCDevices
  Hosts <- MCHosts
  MaxTries = 1
  MaxRestarts = 1
  MaxRemovals = 1
SPECIFICATION Spec
INVARIANTS PointerFieldsApplied
CHECK_DEADLOCK FALSE
