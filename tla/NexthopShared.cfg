CONSTANTS
  a = a
  b = b
  p = p
  h1 = h1
  q = q
  Info = {a, b}
  Infos <- MCInfos
  NhId = {h1}
  Prefix = {p, q}
  Groups = 3
  Pool = 3
  MaxPaths = 2
  MallocMayFail = FALSE
SYMMETRY MCSymmetry
SPECIFICATION Spec
INVARIANTS RouteNexthopKept
