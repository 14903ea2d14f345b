\* Every operation over a kernel and a userspace backend, with two names, two
\* devices of which come or go.
CONSTANTS
  N = 2
  Names = {"n1", "n2"}
  Ops <- AllOps
  MaxListed = 3
  MaxChanges = 2
SPECIFICATION Spec
INVARIANTS FailureHidesNothing FirstOccurrenceKept ErrorsJoined
  FirstIsMeant OneTouched CheckedIsChanged
PROPERTIES ImplementsBackend
CHECK_DEADLOCK FALSE
