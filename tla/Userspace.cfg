\* Every operation and kind of context, with two sockets that change under it and
\* daemons that need not answer.
CONSTANTS
  Platforms <- AllPlatforms
  Names = {"n1", "n2"}
  Ops <- AllOps
  Contexts <- AllContexts
  MaxChanges = 2
SPECIFICATION FairSpec
INVARIANTS StaleHidesNothing FoundUnlessShadowed FirstOfItsName
PROPERTIES ImplementsBackend DeadlineReturns
CHECK_DEADLOCK FALSE
