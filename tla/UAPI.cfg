\* One exchange with a daemon: reading or configuring, with every failure.
CONSTANTS
  k1 = k1
  k2 = k2
  i1 = i1
  i2 = i2
  Nil = Nil
  Garbled = Garbled
  Keys <- MCKeys
  IPs <- MCIPs
  Opts = {"psk"}
  Values = {"v", "old", "cut", "more"}
  Verbs = {"get", "set"}
  Configurations <- MCConfigs
  HeldDevices <- MCDevices
  Handshakes <- MCHandshakes
  AfterBreak <- MCAfterBreak
SPECIFICATION ExchangeSpec
INVARIANTS DaemonSetAsAsked GetAsIs
CHECK_DEADLOCK FALSE
