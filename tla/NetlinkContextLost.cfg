\* Two goroutines and a kernel that may stay silent: the clean-up of one
\* call erases the interruption of the other, which then blocks for good.
CONSTANTS
  c1 = c1
  c2 = c2
  Calls <- TwoCalls
  Goroutines = 2
  Unset = Unset
  Past = Past
  Nobody = Nobody
SPECIFICATION FairSpec
PROPERTIES CancelledReturns
