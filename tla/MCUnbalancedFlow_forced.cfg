SPECIFICATION ProgramSpec
CONSTANTS
  r = r
  f = f
  b = b
  g = g
  m0 = m0
  m1 = m1
  m2 = m2
  x1 = x1
  x2 = x2
  x3 = x3
  shared = shared
  none = none
  Query = {r, f, b, g}
  Backward = {r, b}
  Home <- MCHome
  Roots = {r}
  Method = {m0, m1, m2}
  Site = {x1, x2, x3}
  CallerOf <- MCCallerOf
  Known <- MCKnown
  Resolved <- MCResolved
  Escapes <- AllEscapes
  Raises <- MCRaises
  Excluded = {}
  Shared = shared
  None = none
  Programs <- ForcedPrograms
  Interrupts = {"solving", "tell", "replay", "callees", "callersKnown", "tellCallers"}
  ClientDepth = 2
INVARIANTS
  QuietForced
CHECK_DEADLOCK FALSE
