CONSTANTS
  Objects = {m1, m2}
  Buffers = {b1, b2, b3}
  Sockets = {s1, s2}
  None = None
  MaxParts = 3
  MaxCursor = 4
  MaxShared = 1
  SizeLimit = 8
SYMMETRY Symmetry
SPECIFICATION Spec
INVARIANTS NoUseAfterRelease 
PROPERTY ImplementsStream
