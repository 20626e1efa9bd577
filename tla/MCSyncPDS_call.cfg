SPECIFICATION FairSpec
CONSTANTS
  s1 = s1
  s2 = s2
  s3 = s3
  s4 = s4
  s5 = s5
  u = u
  v = v
  w = w
  p = p
  q = q
  x = x
  y = y
  f = f
  g = g
  epsS = epsS
  epsF = epsF
  none = none
  any = any
  call0 = call0
  field0 = field0
  l1 = l1
  l2 = l2
  Stmt = {s1, s2, s3, s4, s5}
  Fact = {u, p, q, w, x, y}
  Field = {f, g}
  EpsilonStmt = epsS
  EpsilonField = epsF
  EmptyField = none
  AnyField = any
  Start <- MCCallStart
  CallTarget = call0
  FieldTarget = field0
  Flow <- CallFlow
  Returned <- CallReturned
  Prevented = {}
  Watchers = {l1}
  NodeWatchers <- WatchLoad
INVARIANTS
  ToldOnce
  ToldOfNode
  MetInBoth
  QuietIsSynchronized
PROPERTIES
  ComesToRest
CHECK_DEADLOCK FALSE
