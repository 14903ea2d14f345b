\* Two calls, one after the other or at the same time; the kernel may stay silent.
CONSTANTS
  c1 = c1
  c2 = c2
  Calls <- TwoCalls
  Goroutines = 2
  Unset = Unset
  Past = Past
  Nobody = Nobody
SPECIFICATION FairSpec
INVARIANTS NoStaleDeadline ExpiredForACause MismatchOnlyAfterTimeout
PROPERTIES AloneReturns EveryCallReturns
