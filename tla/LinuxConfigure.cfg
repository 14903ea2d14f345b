\* One caller with every kind of configuration, or two at once; failures, retries,
\* other programs.
CONSTANTS
  a = a
  b = b
  k1 = k1
  k2 = k2
  i1 = i1
  i2 = i2
  i3 = i3
  bad = bad
  Keys <- MCKeys
  IPs <- MCIPs
  Opts <- MCOpts
  Values <- MCValues
  Invalid = {bad}
  Nil = Nil
  IPChunk = 2
  PeerChunk = 1
  Callers = {a, b}
  Workloads <- AllWorkloads
  Devices <- MCDevices
  Hosts <- MCHosts
  MaxTries = 2
  MaxRestarts = 1
  MaxRemovals = 1
SPECIFICATION Spec
INVARIANTS SuccessMeansConfigured AWGRefusedWhole
PROPERTIES UpdateOnlyNeverCreates LateBatchesOnlyAdd
CHECK_DEADLOCK FALSE
