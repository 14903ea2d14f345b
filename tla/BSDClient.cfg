\* Every operation of both systems, with two interfaces that come, go, grow and
\* shrink between any two steps.
CONSTANTS
  Platforms <- AllPlatforms
  Ops <- AllOps
  Names = {"n1", "n2"}
  NoName = ""
  Configs <- SmallConfigs
  Devices <- SmallDevices
  None = None
  Other = Other
  Keys = {"k1", "k2"}
  IPs = {"a1"}
  Opts = {"o1"}
  Values = {"v1", "v2"}
  Nil = "nil"
  MaxChanges = 2
SPECIFICATION FairSpec
INVARIANTS ReadsWhole SetAsAsked
PROPERTIES ImplementsBackend CallReturns
CHECK_DEADLOCK FALSE
