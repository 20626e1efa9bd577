SPECIFICATION ProgramSpec
CONSTANTS
  d = d
  e = e
  e2 = e2
  e3 = e3
  s = s
  vx = vx
  vy = vy
  vz = vz
  ab = ab
  ab2 = ab2
  ax = ax
  ax2 = ax2
  f = f
  g = g
  h = h
  b = b
  b2 = b2
  q = q
  q2 = q2
  cb = cb
  cb2 = cb2
  cq = cq
  cq2 = cq2
  none = none
  eps = eps
  Query = {b, b2, q, q2}
  Edge = {d, e, e2, e3, s}
  Val = {vx, vy, vz, ab, ab2, ax, ax2}
  Field = {f, g, h}
  Empty = none
  Epsilon = eps
  CallTarget = {cb, cb2, cq, cq2}
  Initial <- MCInitial
  Write <- AllWrite
  ArrayWrite = {}
  Uses = {}
  MethodOf <- OneMethod
  Own <- AllOwn
  Programs <- BasesPrograms
  Interrupting <- MCInterrupting
INVARIANTS
  CallsImported
CHECK_DEADLOCK FALSE
