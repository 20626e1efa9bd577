SPECIFICATION Spec
CONSTANTS
  a = a
  b = b
  nul = nul
  s1 = s1
  c = c
  e5 = e5
  s5 = s5
  d = d
  s2 = s2
  p1 = p1
  p2 = p2
  x = x
  y = y
  t = t
  z = z
  Stmt = {s1, c, e5, s5, d, s2}
  Val = {x, y, t, z}
  Alloc = {a, b, nul}
  seed = a
  Null = {nul}
  start <- MCStart
  NonOne <- MCNonOne
  Preds <- MCPreds
  Sites <- MCSites
  Flows <- MCFlows
  Callers <- MCCallers
  Summaries <- MCSummaries
  Rules <- MCRules
  StrongUpdates = TRUE
INVARIANTS
  
  KilledOnlyAlone

  
CHECK_DEADLOCK FALSE
