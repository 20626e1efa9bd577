SPECIFICATION ProgramSpec
CONSTANTS
  p = p
  q = q
  fin = fin
  a = a
  b = b
  c = c
  eps = eps
  none = none
  any = any
  Control <- MCControl
  Symbol <- MCSymbol
  Epsilon = eps
  Empties <- MCEmpties
  Any = any
  Subsumes = {}
  Unbalanced <- MCUnbalanced
  Weights <- MCWeights
  One <- MCOne
  Extend <- ExtendWith
  Combine <- CombineWith
  Rules <- AllRules
  Seeds <- AllSeeds
  Programs <- DepthPrograms
  MaxDepth = 2
  ClientDepth = 20
INVARIANTS
  BoundedDepth
  WithinPostStar
CHECK_DEADLOCK FALSE
