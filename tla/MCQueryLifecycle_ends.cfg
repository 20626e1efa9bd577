SPECIFICATION ProgramSpec
CONSTANTS
  b = b
  b2 = b2
  b3 = b3
  b4 = b4
  f = f
  f2 = f2
  f3 = f3
  NoParent = NoParent
  Query = {b, b2, b3, b4, f, f2, f3}
  Forward <- MCForward
  Work <- MCWork
  Returns <- MCReturns
  Nested <- MCNested
  Crashes <- MCCrashes
  Options <- MCOptions
  Raises <- MCRaises
  Allocations <- MCAllocations
  MaxTime = 5
  Programs <- SoundPrograms
INVARIANTS
  WholeUnlessTimedOut
  AnsweredWhole
  NoLateAnswer
  TimeCounted
  CleanUp
  ParentsInGraph
PROPERTIES
  RunEnds
CHECK_DEADLOCK FALSE
