\* Two calls, two adapters, one of which comes, goes or is changed.
CONSTANTS
  Names = {"n1", "n2"}
  Paths = {"p1", "p2"}
  NoName = NoName
  Default = 2
  MaxLength = 3
  MaxCalls = 2
  MaxChanges = 2
SPECIFICATION FairSpec
INVARIANTS OnlyStaleHides HadTheName ListsWhatStayed
PROPERTIES CallReturns
CHECK_DEADLOCK FALSE
