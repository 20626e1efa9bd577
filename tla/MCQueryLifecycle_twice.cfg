SPECIFICATION ProgramSpec
CONSTANTS
  b = b
  b2 = b2
  b3 = b3
  b4 = b4
  f = f
  f2 = f2
  f3 = f3
  NoParent = NoParent
  Query = {b, b2, b3, b4, f, f2, f3}
  Forward <- MCForward
  Work <- MCWork
  Returns <- MCReturns
  Nested <- MCNested
  Crashes = {}
  Options <- NoLimit
  Raises <- MCRaises
  Allocations <- MCAllocations
  MaxTime = 5
  Programs <- TwicePrograms
CHECK_DEADLOCK FALSE
INVARIANTS
  AllTriggersInGraph
