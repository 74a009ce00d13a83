CONSTANTS
  a = a
  b = b
  p = p
  h1 = h1
  h2 = h2
  Info = {a, b}
  Infos <- MCInfos
  NhId = {h1, h2}
  Prefix = {p}
  Groups = 3
  Pool = 2
  MaxPaths = 2
  MallocMayFail = TRUE
SYMMETRY MCSymmetry
SPECIFICATION Spec
INVARIANTS InfoAccounted InfoKept HashedIsGroup
