CONSTANTS
  h1 = h1 h2 = h2 h3 = h3 p1 = p1 p2 = p2
  Host <- MCHost
  Port <- MCPort
  NoPort = NoPort
  Size = 3
  Hash <- MCHash
  MaxAge = 1
  RingSize = 1
SPECIFICATION Spec
SYMMETRY MCSymmetry
INVARIANTS TypeOK FreshestFound
PROPERTY ExpiredForgotten
