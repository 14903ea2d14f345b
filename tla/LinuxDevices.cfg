\* Devices and Device, two links, two changes of them or of the modules.
CONSTANTS
  Names = {"n1", "n2"}
  Ops <- BothOps
  MaxChanges = 2
SPECIFICATION Spec
INVARIANTS RemovalIsNoFailure
PROPERTIES ImplementsBackend
CHECK_DEADLOCK FALSE
