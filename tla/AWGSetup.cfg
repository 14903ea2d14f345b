\* Two callers with configurations of their own: every limit, every partial
\* update, every device, and partial updates that conflict with each other.  Or
\* one of them generates its configuration: extreme draws everywhere.  And every
\* description of up to four tags.  2^32 stands at a value TLC can represent.
CONSTANTS
  Nil = Nil
  U32 = 2000000000
  Callers = {a, b}
  Generators = {a}
  Configs <- AllConfigs
  Devices <- MCDevices
  IntN <- MCIntN
SPECIFICATION SetupSpec
INVARIANTS EinvalOnlyAfterRace GeneratedIsApplied SizeIsSum
PROPERTIES AsAsked
CHECK_DEADLOCK FALSE
