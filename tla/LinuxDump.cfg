\* Every way to cut the dumps of four devices, two changes by others.
CONSTANTS
  Keys = {"k1", "k2", "k3"}
  IPs = {"a1", "a2", "a3", "a4"}
  Values = {"v"}
  Nil = Nil
  Starts <- MCStarts
  MaxChanges = 2
SPECIFICATION DumpSpec
INVARIANTS DumpIsDevice NoPeerTwice NothingLost
CHECK_DEADLOCK FALSE
